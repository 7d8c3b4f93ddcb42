------------------------- MODULE BoxBrowsers_proofs -------------------------
(***************************************************************************)
(* What BoxBrowsers guarantees for any number of items: that the rows in   *)
(* which widgets were put remain those of their items, and that no item    *)
(* loses its label, its box, its container or its editor - if no editor    *)
(* that heads a group box is destroyed by others, and no item that lost    *)
(* its last child while it was expanded gets another.                      *)
(*                                                                         *)
(* The row of an item is what its siblings before it take, two rows each   *)
(* if they are unfolded, and the header: Place.  The invariant says that   *)
(* the row kept for a widget is the one so counted.  A change of the tree  *)
(* or of what is unfolded cuts one layout below an item: the widgets whose *)
(* row is not above the cut are those of the items after it (CutRows), and *)
(* so QGridLayout moves the rows of the very items whose Place changes     *)
(* (RowsMoved).                                                            *)
(***************************************************************************)
EXTENDS BoxBrowsers, FiniteSets, SequenceTheorems, FiniteSetTheorems, TLAPS

-----------------------------------------------------------------------------
(* Sequences without repetition, and what precedes an element.             *)

Simple(s) == \A j, k \in DOMAIN s : s[j] = s[k] => j = k

\* t is s with e inserted as its n-th element, and without that element.
Inserted(s, n, e, t) ==
    /\ Len(t) = Len(s) + 1
    /\ \A k \in 1 .. Len(s) + 1 :
          t[k] = IF k < n THEN s[k] ELSE IF k = n THEN e ELSE s[k - 1]

Removed(s, n, t) ==
    /\ Len(t) = Len(s) - 1
    /\ \A k \in 1 .. Len(s) - 1 : t[k] = IF k < n THEN s[k] ELSE s[k + 1]

Preceding(s, i) == {s[k] : k \in 1 .. Index(s, i)}

\* What is in a sequence.
LEMMA ElementsIn ==
    ASSUME NEW S, NEW s \in Seq(S)
    PROVE  /\ ToSet(s) \subseteq S
           /\ \A x : x \in ToSet(s) <=> \E k \in 1 .. Len(s) : s[k] = x
  BY DEF ToSet

LEMMA SeqIn ==
    ASSUME NEW S, NEW s \in Seq(S), NEW T, \A k \in 1 .. Len(s) : s[k] \in T
    PROVE  s \in Seq(T)
<1>1. Len(s) \in Nat /\ s \in [1 .. Len(s) -> S]
  BY LenProperties
<1>2. s \in [1 .. Len(s) -> T]
  BY <1>1
<1> QED
  BY <1>1, <1>2

\* What InsertAt and RemoveAt return.
LEMMA InsertAtElements ==
    ASSUME NEW S, NEW s \in Seq(S), NEW n \in 1 .. Len(s) + 1, NEW e \in S
    PROVE  InsertAt(s, n, e) \in Seq(S) /\ Inserted(s, n, e, InsertAt(s, n, e))
<1> DEFINE a == SubSeq(s, 1, n - 1)
           b == SubSeq(s, n, Len(s))
<1>1. Len(s) \in Nat /\ n \in Nat /\ \A k \in 1 .. Len(s) : s[k] \in S
  OBVIOUS
<1>2. /\ a \in Seq(S) /\ Len(a) = n - 1
      /\ \A k \in 1 .. n - 1 : a[k] = s[k]
  <2>1. \A k \in 1 .. n - 1 : s[k] \in S
    BY <1>1
  <2> QED
    BY <1>1, <2>1, SubSeqProperties
<1>3. /\ b \in Seq(S) /\ Len(b) = Len(s) - n + 1
      /\ \A k \in 1 .. Len(s) - n + 1 : b[k] = s[n + k - 1]
  <2>1. \A k \in n .. Len(s) : s[k] \in S
    BY <1>1
  <2> QED
    BY <1>1, <2>1, SubSeqProperties
<1> HIDE DEF a, b
<1>4. <<e>> \in Seq(S) /\ Len(<<e>>) = 1 /\ <<e>>[1] = e
  OBVIOUS
<1>5. /\ a \o <<e>> \in Seq(S) /\ Len(a \o <<e>>) = n
      /\ \A k \in 1 .. n : (a \o <<e>>)[k] = IF k < n THEN s[k] ELSE e
  <2>1. /\ a \o <<e>> \in Seq(S) /\ Len(a \o <<e>>) = n
        /\ \A k \in 1 .. n : (a \o <<e>>)[k] = IF k <= n - 1 THEN a[k] ELSE <<e>>[k - (n - 1)]
    BY <1>1, <1>2, <1>4, ConcatProperties
  <2> QED
    BY <1>1, <1>2, <1>4, <2>1
<1> DEFINE c == a \o <<e>>
<1>6. c \in Seq(S) /\ Len(c) = n /\ \A k \in 1 .. n : c[k] = IF k < n THEN s[k] ELSE e
  BY <1>5
<1>7. InsertAt(s, n, e) = c \o b
  BY DEF InsertAt, a, b
<1> HIDE DEF c
<1>8. /\ c \o b \in Seq(S) /\ Len(c \o b) = n + (Len(s) - n + 1)
      /\ \A k \in 1 .. n + (Len(s) - n + 1) :
            (c \o b)[k] = IF k <= n THEN c[k] ELSE b[k - n]
  BY <1>3, <1>6, ConcatProperties
<1>9. n + (Len(s) - n + 1) = Len(s) + 1
  BY <1>1
<1>10. ASSUME NEW k \in 1 .. Len(s) + 1
       PROVE  (c \o b)[k] = IF k < n THEN s[k] ELSE IF k = n THEN e ELSE s[k - 1]
  <2>1. CASE k <= n
    <3>1. (c \o b)[k] = c[k] /\ k \in 1 .. n
      BY <1>1, <1>8, <1>9, <2>1
    <3> QED
      BY <1>1, <1>6, <2>1, <3>1
  <2>2. CASE k > n
    <3>1. k - n \in 1 .. Len(s) - n + 1 /\ n + (k - n) - 1 = k - 1
      BY <1>1, <2>2
    <3>2. (c \o b)[k] = b[k - n]
      <4>1. k \in 1 .. n + (Len(s) - n + 1) /\ ~(k <= n)
        BY <1>1, <1>9, <2>2
      <4> QED
        BY <1>8, <4>1
    <3>3. b[k - n] = s[n + (k - n) - 1]
      BY <1>3, <3>1
    <3>4. ~(k < n) /\ k # n
      BY <1>1, <2>2
    <3> QED
      BY <3>1, <3>2, <3>3, <3>4
  <2>3. k <= n \/ k > n
    BY <1>1
  <2> QED
    BY <2>1, <2>2, <2>3
<1> QED
  BY <1>7, <1>8, <1>9, <1>10 DEF Inserted

LEMMA RemoveAtElements ==
    ASSUME NEW S, NEW s \in Seq(S), NEW n \in 1 .. Len(s)
    PROVE  RemoveAt(s, n) \in Seq(S) /\ Removed(s, n, RemoveAt(s, n))
<1> DEFINE t == RemoveAt(s, n)
           a == SubSeq(s, 1, n - 1)
           b == SubSeq(s, n + 1, Len(s))
<1>2. Len(s) \in Nat /\ DOMAIN s = 1 .. Len(s) /\ \A k \in 1 .. Len(s) : s[k] \in S
  OBVIOUS
<1>6. /\ a \in Seq(S) /\ Len(a) = n - 1
      /\ \A k \in 1 .. n - 1 : a[k] = s[k]
  <2>1. \A k \in 1 .. n - 1 : s[k] \in S
    BY <1>2
  <2> QED
    BY <1>2, <2>1, SubSeqProperties
<1>7. /\ b \in Seq(S) /\ Len(b) = Len(s) - n
      /\ \A k \in 1 .. Len(s) - n : b[k] = s[n + k]
  <2>1. \A k \in n + 1 .. Len(s) : s[k] \in S
    BY <1>2
  <2>2. /\ b \in Seq(S) /\ Len(b) = IF n + 1 <= Len(s) THEN Len(s) - (n + 1) + 1 ELSE 0
        /\ \A k \in 1 .. Len(s) - (n + 1) + 1 : b[k] = s[n + 1 + k - 1]
    BY <1>2, <2>1, SubSeqProperties
  <2> DEFINE m == Len(s)
  <2>0. m \in Nat /\ n \in 1 .. m
    BY <1>2
  <2> HIDE DEF m
  <2>3. m - (n + 1) + 1 = m - n /\ (n + 1 <= m \/ m - n = 0)
    BY <2>0
  <2>4. \A k \in 1 .. m - n : n + 1 + k - 1 = n + k
    BY <2>0
  <2> USE DEF m
  <2> QED
    BY <2>2, <2>3, <2>4
<1>8. t = a \o b
  BY DEF RemoveAt
<1> HIDE DEF a, b, t
<1>9. /\ a \o b \in Seq(S) /\ Len(a \o b) = (n - 1) + (Len(s) - n)
      /\ \A k \in 1 .. (n - 1) + (Len(s) - n) :
            (a \o b)[k] = IF k <= n - 1 THEN a[k] ELSE b[k - (n - 1)]
  <2>1. /\ a \o b \in Seq(S) /\ Len(a \o b) = Len(a) + Len(b)
        /\ \A k \in 1 .. Len(a) + Len(b) :
              (a \o b)[k] = IF k <= Len(a) THEN a[k] ELSE b[k - Len(a)]
    BY <1>6, <1>7, ConcatProperties
  <2> QED
    BY <1>6, <1>7, <2>1
<1>10. (n - 1) + (Len(s) - n) = Len(s) - 1
  BY <1>2
<1>11. ASSUME NEW k \in 1 .. Len(s) - 1
       PROVE  t[k] = IF k < n THEN s[k] ELSE s[k + 1]
  <2>1. CASE k < n
    BY <1>2, <1>6, <1>8, <1>9, <1>10, <2>1
  <2>2. CASE k >= n
    <3>1. k - (n - 1) \in 1 .. Len(s) - n /\ n + (k - (n - 1)) = k + 1
      BY <1>2, <2>2
    <3>2. t[k] = b[k - (n - 1)]
      BY <1>2, <1>8, <1>9, <1>10, <2>2
    <3> QED
      BY <1>2, <1>7, <2>2, <3>1, <3>2
  <2>3. k < n \/ k >= n
    BY <1>2
  <2> QED
    BY <2>1, <2>2, <2>3
<1> QED
  BY <1>8, <1>9, <1>10, <1>11 DEF t, Removed

\* The n-th element of s is at index n - 1, and those before it precede it.
Ranked(s, n) ==
    /\ Index(s, s[n]) = n - 1
    /\ \A x : x \in Preceding(s, s[n]) <=> \E k \in 1 .. n - 1 : s[k] = x
    /\ \A k \in 1 .. Len(s) : s[k] \in Preceding(s, s[n]) <=> k < n
    /\ Preceding(s, s[n]) \subseteq ToSet(s) \ {s[n]}
    /\ IsFiniteSet(Preceding(s, s[n])) /\ Cardinality(Preceding(s, s[n])) = n - 1

LEMMA PrecedingIs ==
    ASSUME NEW S, NEW s \in Seq(S), Simple(s), NEW n \in 1 .. Len(s)
    PROVE  Ranked(s, n)
<1>1. Len(s) \in Nat /\ DOMAIN s = 1 .. Len(s)
  OBVIOUS
<1>2. Index(s, s[n]) = n - 1
  <2>1. \A k \in DOMAIN s : s[k] = s[n] <=> k = n
    BY <1>1 DEF Simple
  <2>2. (CHOOSE k \in DOMAIN s : s[k] = s[n]) = n
    BY <1>1, <2>1
  <2> QED
    BY <2>2 DEF Index
<1>3. \A x : x \in Preceding(s, s[n]) <=> \E k \in 1 .. n - 1 : s[k] = x
  BY <1>2 DEF Preceding
<1>4. \A k \in 1 .. Len(s) : s[k] \in Preceding(s, s[n]) <=> k < n
  BY <1>1, <1>3 DEF Simple
<1>5. Preceding(s, s[n]) \subseteq ToSet(s) \ {s[n]}
  <2> SUFFICES ASSUME NEW k \in 1 .. n - 1 PROVE s[k] \in ToSet(s) \ {s[n]}
    BY <1>3
  <2>1. k \in 1 .. Len(s) /\ k # n
    BY <1>1
  <2> QED
    BY <1>1, <2>1, ElementsIn DEF Simple
<1>6. IsFiniteSet(Preceding(s, s[n])) /\ Cardinality(Preceding(s, s[n])) = n - 1
  <2> DEFINE f == [k \in 1 .. n - 1 |-> s[k]]
             P == Preceding(s, s[n])
  <2>1. n - 1 \in Nat /\ IsFiniteSet(1 .. n - 1) /\ Cardinality(1 .. n - 1) = n - 1
    <3>1. n - 1 \in Nat /\ 1 \in Int /\ n - 1 \in Int
      BY <1>1
    <3> QED
      BY <3>1, FS_Interval
  <2>2. f \in Bijection(1 .. n - 1, P)
    <3>1. f \in [1 .. n - 1 -> P]
      BY <1>3
    <3>2. \A j, k \in 1 .. n - 1 : f[j] = f[k] => j = k
      BY <1>1 DEF Simple
    <3>3. \A x \in P : \E k \in 1 .. n - 1 : f[k] = x
      BY <1>3
    <3> HIDE DEF f, P
    <3> QED
      BY <3>1, <3>2, <3>3 DEF Bijection, Injection, Surjection, IsInjective
  <2> HIDE DEF f, P
  <2>3. IsFiniteSet(P) /\ Cardinality(P) = n - 1
    <3>1. ExistsBijection(1 .. n - 1, P)
      BY <2>2 DEF ExistsBijection
    <3> QED
      BY <2>1, <3>1, FS_Bijection
  <2> QED
    BY <2>3 DEF P
<1> QED
  BY <1>2, <1>3, <1>4, <1>5, <1>6 DEF Ranked

LEMMA PrecedingElements ==
    ASSUME NEW S, NEW s \in Seq(S), Simple(s)
    PROVE  \A n \in 1 .. Len(s) : \A x :
              x \in Preceding(s, s[n]) <=> \E k \in 1 .. n - 1 : s[k] = x
<1>1. \A n \in 1 .. Len(s) : Ranked(s, n)
  BY PrecedingIs
<1> QED
  BY <1>1 DEF Ranked

\* Of two elements one precedes the other; to precede is transitive.
LEMMA PrecedingOrder ==
    ASSUME NEW S, NEW s \in Seq(S), Simple(s), NEW i \in ToSet(s), NEW j \in ToSet(s)
    PROVE  /\ i # j => (i \in Preceding(s, j) \/ j \in Preceding(s, i))
           /\ i \in Preceding(s, j) => /\ j \notin Preceding(s, i) /\ i # j
                                       /\ Preceding(s, i) \subseteq Preceding(s, j)
<1>1. PICK m \in 1 .. Len(s), n \in 1 .. Len(s) : i = s[m] /\ j = s[n]
  BY ElementsIn
<1>2. Len(s) \in Nat /\ DOMAIN s = 1 .. Len(s)
  OBVIOUS
<1>3. /\ \A x : x \in Preceding(s, i) <=> \E k \in 1 .. m - 1 : s[k] = x
      /\ \A x : x \in Preceding(s, j) <=> \E k \in 1 .. n - 1 : s[k] = x
      /\ i \in Preceding(s, j) <=> m < n
      /\ j \in Preceding(s, i) <=> n < m
  <2>1. /\ \A x : x \in Preceding(s, s[m]) <=> \E k \in 1 .. m - 1 : s[k] = x
        /\ s[n] \in Preceding(s, s[m]) <=> n < m
    <3>1. Ranked(s, m)
      BY PrecedingIs
    <3> QED
      BY <3>1 DEF Ranked
  <2>2. /\ \A x : x \in Preceding(s, s[n]) <=> \E k \in 1 .. n - 1 : s[k] = x
        /\ s[m] \in Preceding(s, s[n]) <=> m < n
    <3>1. Ranked(s, n)
      BY PrecedingIs
    <3> QED
      BY <3>1 DEF Ranked
  <2> QED
    BY <1>1, <2>1, <2>2
<1>4. m < n \/ n < m \/ m = n
  BY <1>2
<1>5. m < n => ~(n < m) /\ m # n /\ 1 .. m - 1 \subseteq 1 .. n - 1
  BY <1>2
<1>6. m < n => i # j
  BY <1>1, <1>2, <1>5 DEF Simple
<1> QED
  BY <1>1, <1>3, <1>4, <1>5, <1>6

\* An element that is inserted comes before those at its place and after.
InsertOrdered(s, n, e, t) ==
    /\ Simple(t) /\ ToSet(t) = ToSet(s) \cup {e}
    /\ \A x : x \in Preceding(t, e) <=> \E k \in 1 .. n - 1 : s[k] = x
    /\ \A k \in 1 .. Len(s) :
          Preceding(t, s[k]) = Preceding(s, s[k]) \cup (IF k < n THEN {} ELSE {e})

\* What precedes an element after another is inserted, and after one is gone.
LEMMA InsertPreceding ==
    ASSUME NEW S, NEW s \in Seq(S), Simple(s), NEW e \in S \ ToSet(s),
           NEW n \in 1 .. Len(s) + 1, NEW t \in Seq(S), Inserted(s, n, e, t)
    PROVE  InsertOrdered(s, n, e, t)
<1>1. Len(s) \in Nat /\ n \in Nat /\ DOMAIN s = 1 .. Len(s)
  OBVIOUS
<1>2. /\ t \in Seq(S) /\ Len(t) = Len(s) + 1 /\ DOMAIN t = 1 .. Len(s) + 1
      /\ \A k \in 1 .. Len(s) + 1 :
            t[k] = IF k < n THEN s[k] ELSE IF k = n THEN e ELSE s[k - 1]
  BY DEF Inserted
<1>3. \A k \in 1 .. Len(s) : s[k] # e
  BY ElementsIn
<1>4. ASSUME NEW j \in 1 .. Len(t), NEW k \in 1 .. Len(t), t[j] = t[k] PROVE j = k
  <2> DEFINE x(h) == IF h < n THEN h ELSE h - 1
  <2>1. \A h \in 1 .. Len(t) : h # n => x(h) \in 1 .. Len(s) /\ t[h] = s[x(h)]
    BY <1>1, <1>2
  <2>2. t[n] = e
    BY <1>2
  <2>3. j = n <=> k = n
    BY <1>3, <1>4, <2>1, <2>2
  <2>4. j # n => x(j) = x(k)
    <3> HIDE DEF x
    <3> QED
      BY <1>1, <1>4, <2>1, <2>3 DEF Simple
  <2> QED
    BY <1>1, <1>2, <2>3, <2>4
<1>5. Simple(t)
  BY <1>2, <1>4 DEF Simple
<1>6. ToSet(t) = ToSet(s) \cup {e}
  <2>1. ToSet(t) \subseteq ToSet(s) \cup {e}
    <3> SUFFICES ASSUME NEW k \in 1 .. Len(s) + 1 PROVE t[k] \in ToSet(s) \cup {e}
      BY <1>2, ElementsIn
    <3>1. k < n => k \in 1 .. Len(s) /\ t[k] = s[k]
      BY <1>1, <1>2
    <3>2. k = n => t[k] = e
      BY <1>2
    <3>3. k > n => k - 1 \in 1 .. Len(s) /\ t[k] = s[k - 1]
      BY <1>1, <1>2
    <3>4. k < n \/ k = n \/ k > n
      BY <1>1
    <3> QED
      BY <3>1, <3>2, <3>3, <3>4, ElementsIn
  <2>2. e \in ToSet(t)
    BY <1>2, ElementsIn
  <2>3. ASSUME NEW k \in 1 .. Len(s) PROVE s[k] \in ToSet(t)
    <3>1. k < n => k \in 1 .. Len(t) /\ t[k] = s[k]
      BY <1>1, <1>2
    <3>2. k >= n => k + 1 \in 1 .. Len(t) /\ t[k + 1] = s[k]
      BY <1>1, <1>2
    <3>3. k < n \/ k >= n
      BY <1>1
    <3> QED
      BY <1>2, <3>1, <3>2, <3>3, ElementsIn
  <2> QED
    BY <2>1, <2>2, <2>3, ElementsIn
<1>10. \A m \in 1 .. Len(t) : \A x :
           x \in Preceding(t, t[m]) <=> \E h \in 1 .. m - 1 : t[h] = x
  BY <1>5, PrecedingElements
<1>7. \A x : x \in Preceding(t, e) <=> \E k \in 1 .. n - 1 : s[k] = x
  <2>1. n \in 1 .. Len(t) /\ t[n] = e
    BY <1>2
  <2>2. \A x : x \in Preceding(t, e) <=> \E k \in 1 .. n - 1 : t[k] = x
    BY <1>10, <2>1
  <2>3. \A k \in 1 .. n - 1 : t[k] = s[k]
    BY <1>1, <1>2
  <2> QED
    BY <2>2, <2>3
<1>8. ASSUME NEW k \in 1 .. Len(s)
      PROVE  Preceding(t, s[k]) = Preceding(s, s[k]) \cup (IF k < n THEN {} ELSE {e})
  <2>0. \A x : x \in Preceding(s, s[k]) <=> \E h \in 1 .. k - 1 : s[h] = x
    BY PrecedingElements
  <2>1. CASE k < n
    <3>1. k \in 1 .. Len(t) /\ t[k] = s[k]
      BY <1>1, <1>2, <2>1
    <3>2. \A x : x \in Preceding(t, s[k]) <=> \E h \in 1 .. k - 1 : t[h] = x
      BY <1>10, <3>1
    <3>3. \A h \in 1 .. k - 1 : t[h] = s[h]
      BY <1>1, <1>2, <2>1
    <3> QED
      BY <2>0, <2>1, <3>2, <3>3
  <2>2. CASE k >= n
    <3>1. k + 1 \in 1 .. Len(t) /\ t[k + 1] = s[k] /\ (k + 1) - 1 = k
      BY <1>1, <1>2, <2>2
    <3>2. \A x : x \in Preceding(t, s[k]) <=> \E h \in 1 .. k : t[h] = x
      BY <1>10, <3>1
    <3>3. \A h \in 1 .. k : \/ h < n /\ h \in 1 .. k - 1 /\ t[h] = s[h]
                            \/ h = n /\ t[h] = e
                            \/ h > n /\ h - 1 \in 1 .. k - 1 /\ t[h] = s[h - 1]
      BY <1>1, <1>2, <2>2
    <3>4. n \in 1 .. k /\ t[n] = e
      BY <1>1, <1>2, <2>2
    <3>5. \A h \in 1 .. k - 1 : \/ h \in 1 .. k /\ t[h] = s[h]
                                \/ h + 1 \in 1 .. k /\ t[h + 1] = s[h]
      BY <1>1, <1>2, <2>2
    <3>6. \A x : (\E h \in 1 .. k : t[h] = x) <=> (\E h \in 1 .. k - 1 : s[h] = x) \/ x = e
      BY <3>3, <3>4, <3>5
    <3>7. ~(k < n)
      BY <1>1, <2>2
    <3> QED
      BY <2>0, <3>2, <3>6, <3>7
  <2>3. k < n \/ k >= n
    BY <1>1
  <2> QED
    BY <2>1, <2>2, <2>3
<1> QED
  BY <1>5, <1>6, <1>7, <1>8 DEF InsertOrdered

LEMMA RemovePreceding ==
    ASSUME NEW S, NEW s \in Seq(S), Simple(s), NEW n \in 1 .. Len(s), NEW e, e = s[n],
           NEW t \in Seq(S), Removed(s, n, t)
    PROVE  /\ Simple(t) /\ ToSet(t) = ToSet(s) \ {e}
           /\ \A j \in ToSet(t) : Preceding(t, j) = Preceding(s, j) \ {e}
<1>1. e = s[n]
  OBVIOUS
<1>2. Len(s) \in Nat /\ n \in Nat /\ DOMAIN s = 1 .. Len(s)
  OBVIOUS
<1>4. /\ t \in Seq(S) /\ Len(t) = Len(s) - 1 /\ DOMAIN t = 1 .. Len(s) - 1
      /\ \A k \in 1 .. Len(s) - 1 : t[k] = IF k < n THEN s[k] ELSE s[k + 1]
  BY DEF Removed
<1> DEFINE x(k) == IF k < n THEN k ELSE k + 1
<1>5. \A k \in 1 .. Len(t) : x(k) \in 1 .. Len(s) /\ x(k) # n /\ t[k] = s[x(k)]
  BY <1>2, <1>4
<1>6. \A k \in 1 .. Len(s) : k # n => \E h \in 1 .. Len(t) : t[h] = s[k]
  <2> SUFFICES ASSUME NEW k \in 1 .. Len(s), k # n
               PROVE  \E h \in 1 .. Len(t) : t[h] = s[k]
    OBVIOUS
  <2>1. k < n => k \in 1 .. Len(t) /\ t[k] = s[k]
    BY <1>2, <1>4
  <2>2. k > n => k - 1 \in 1 .. Len(t) /\ t[k - 1] = s[k]
    BY <1>2, <1>4
  <2>3. k < n \/ k > n
    BY <1>2
  <2> QED
    BY <2>1, <2>2, <2>3
<1>7. ToSet(t) = ToSet(s) \ {e}
  <2>1. \A k \in 1 .. Len(s) : s[k] = e <=> k = n
    BY <1>1, <1>2 DEF Simple
  <2>2. \A j : j \in ToSet(t) <=> \E k \in 1 .. Len(t) : t[k] = j
    BY <1>4, ElementsIn
  <2>3. \A j : j \in ToSet(s) <=> \E k \in 1 .. Len(s) : s[k] = j
    BY ElementsIn
  <2> HIDE DEF x
  <2>4. \A j : j \in ToSet(t) => j \in ToSet(s) /\ j # e
    BY <1>5, <2>1, <2>2, <2>3
  <2>5. \A j : j \in ToSet(s) /\ j # e => j \in ToSet(t)
    BY <1>6, <2>1, <2>2, <2>3
  <2> QED
    BY <2>4, <2>5
<1>8. Simple(t)
  <2> SUFFICES ASSUME NEW j \in 1 .. Len(t), NEW k \in 1 .. Len(t), t[j] = t[k]
               PROVE  j = k
    BY <1>4 DEF Simple
  <2>1. x(j) = x(k)
    <3>1. x(j) \in DOMAIN s /\ x(k) \in DOMAIN s /\ s[x(j)] = s[x(k)]
      <4> HIDE DEF x
      <4> QED
        BY <1>2, <1>5
    <3> HIDE DEF x
    <3> QED
      BY <3>1 DEF Simple
  <2>2. j \in Int /\ k \in Int /\ n \in Int
    BY <1>2, <1>4
  <2> QED
    BY <2>1, <2>2
<1>9. ASSUME NEW j \in ToSet(t) PROVE Preceding(t, j) = Preceding(s, j) \ {e}
  <2>1. PICK k \in 1 .. Len(t) : t[k] = j
    BY <1>4, <1>9, ElementsIn
  <2>2. \A y : y \in Preceding(t, j) <=> \E h \in 1 .. k - 1 : t[h] = y
    <3>1. t \in Seq(S)
      BY <1>4
    <3>2. Ranked(t, k)
      BY <1>8, <3>1, PrecedingIs
    <3> QED
      BY <2>1, <3>2 DEF Ranked
  <2>3. /\ \A y : y \in Preceding(s, j) <=> \E h \in 1 .. x(k) - 1 : s[h] = y
        /\ x(k) \in 1 .. Len(s)
    <3>1. x(k) \in 1 .. Len(s) /\ s[x(k)] = j
      BY <1>5, <2>1
    <3> HIDE DEF x
    <3>2. Ranked(s, x(k))
      BY <3>1, PrecedingIs
    <3> QED
      BY <3>1, <3>2 DEF Ranked
  <2>4. \A h \in 1 .. k - 1 : h \in 1 .. Len(t) /\ x(h) \in 1 .. x(k) - 1
    BY <1>2, <1>4
  <2>5. \A h \in 1 .. k - 1 : t[h] = s[x(h)] /\ x(h) # n /\ x(h) \in 1 .. Len(s)
    BY <1>5, <2>4
  <2>6. \A h \in 1 .. x(k) - 1 :
            h # n => \E g \in 1 .. k - 1 : t[g] = s[h]
    <3> SUFFICES ASSUME NEW h \in 1 .. x(k) - 1, h # n
                 PROVE  \E g \in 1 .. k - 1 : t[g] = s[h]
      OBVIOUS
    <3>1. h < n => h \in 1 .. k - 1 /\ t[h] = s[h]
      BY <1>2, <1>4
    <3>2. h > n => h - 1 \in 1 .. k - 1 /\ t[h - 1] = s[h]
      BY <1>2, <1>4
    <3>3. h < n \/ h > n
      BY <1>2
    <3> QED
      BY <3>1, <3>2, <3>3
  <2>7. \A h \in 1 .. Len(s) : s[h] = e <=> h = n
    BY <1>1, <1>2 DEF Simple
  <2>8. \A h \in 1 .. x(k) - 1 : h \in 1 .. Len(s)
    BY <1>2, <2>3
  <2> HIDE DEF x
  <2>9. Preceding(t, j) \subseteq Preceding(s, j) \ {e}
    <3> SUFFICES ASSUME NEW y \in Preceding(t, j) PROVE y \in Preceding(s, j) \ {e}
      OBVIOUS
    <3>1. PICK h \in 1 .. k - 1 : t[h] = y
      BY <2>2
    <3>2. x(h) \in 1 .. x(k) - 1 /\ y = s[x(h)] /\ x(h) # n /\ x(h) \in 1 .. Len(s)
      BY <2>4, <2>5, <3>1
    <3> QED
      BY <2>3, <2>7, <3>2
  <2>10. Preceding(s, j) \ {e} \subseteq Preceding(t, j)
    BY <2>2, <2>3, <2>6, <2>7, <2>8
  <2> QED
    BY <2>9, <2>10
<1> QED
  BY <1>7, <1>8, <1>9

-----------------------------------------------------------------------------
(* How many rows the items of B take if those of W take two.               *)

Rows(B, W) == Cardinality(B) + Cardinality(B \cap W)

LEMMA RowsNat ==
    ASSUME NEW B, IsFiniteSet(B), NEW W
    PROVE  /\ Rows(B, W) \in Nat /\ Cardinality(B) \in Nat /\ Cardinality(B \cap W) \in Nat
           /\ IsFiniteSet(B \cap W)
           /\ Rows({}, W) = 0
<1>1. IsFiniteSet(B \cap W)
  BY FS_Intersection
<1>2. Cardinality(B) \in Nat /\ Cardinality(B \cap W) \in Nat
  BY <1>1, FS_CardinalityType
<1>3. Cardinality({}) = 0 /\ {} \cap W = {}
  BY FS_EmptySet
<1> QED
  BY <1>1, <1>2, <1>3 DEF Rows

LEMMA RowsAdd ==
    ASSUME NEW B, IsFiniteSet(B), NEW W, NEW e, e \notin B
    PROVE  Rows(B \cup {e}, W) = Rows(B, W) + (IF e \in W THEN 2 ELSE 1)
<1>0. Cardinality(B) \in Nat /\ Cardinality(B \cap W) \in Nat /\ IsFiniteSet(B \cap W)
  BY RowsNat
<1>1. Cardinality(B \cup {e}) = Cardinality(B) + 1
  BY FS_AddElement
<1>2. Cardinality((B \cup {e}) \cap W) = Cardinality(B \cap W) + (IF e \in W THEN 1 ELSE 0)
  <2>1. CASE e \in W
    <3>1. (B \cup {e}) \cap W = (B \cap W) \cup {e} /\ e \notin B \cap W
      BY <2>1
    <3>2. Cardinality((B \cap W) \cup {e}) = Cardinality(B \cap W) + 1
      BY <1>0, <3>1, FS_AddElement
    <3> QED
      BY <2>1, <3>1, <3>2
  <2>2. CASE e \notin W
    <3>1. (B \cup {e}) \cap W = B \cap W
      BY <2>2
    <3>2. Cardinality((B \cup {e}) \cap W) = Cardinality(B \cap W)
      BY <3>1, Zenon
    <3> QED
      BY <1>0, <2>2, <3>2
  <2> QED
    BY <2>1, <2>2
<1> QED
  BY <1>0, <1>1, <1>2 DEF Rows

LEMMA RowsMono ==
    ASSUME NEW B, NEW C, IsFiniteSet(C), B \subseteq C, NEW W
    PROVE  Rows(B, W) <= Rows(C, W)
<1>1. IsFiniteSet(B) /\ Cardinality(B) <= Cardinality(C)
  BY FS_Subset
<1>2. Cardinality(B \cap W) <= Cardinality(C \cap W)
  <2>1. B \cap W \subseteq C \cap W /\ IsFiniteSet(C \cap W)
    BY RowsNat
  <2> QED
    BY <2>1, FS_Subset
<1>3. /\ Cardinality(B) \in Nat /\ Cardinality(B \cap W) \in Nat
      /\ Cardinality(C) \in Nat /\ Cardinality(C \cap W) \in Nat
  BY <1>1, RowsNat
<1> QED
  BY <1>1, <1>2, <1>3 DEF Rows

\* An item becomes wide.
LEMMA RowsWiden ==
    ASSUME NEW B, IsFiniteSet(B), NEW W, NEW e, e \notin W
    PROVE  Rows(B, W \cup {e}) = Rows(B, W) + (IF e \in B THEN 1 ELSE 0)
<1>0. Cardinality(B) \in Nat /\ Cardinality(B \cap W) \in Nat /\ IsFiniteSet(B \cap W)
  BY RowsNat
<1>1. CASE e \in B
  <2>1. B \cap (W \cup {e}) = (B \cap W) \cup {e} /\ e \notin B \cap W
    BY <1>1
  <2>2. Cardinality((B \cap W) \cup {e}) = Cardinality(B \cap W) + 1
    BY <1>0, <2>1, FS_AddElement
  <2> QED
    BY <1>0, <1>1, <2>1, <2>2 DEF Rows
<1>2. CASE e \notin B
  <2>1. B \cap (W \cup {e}) = B \cap W
    BY <1>2
  <2>2. Cardinality(B \cap (W \cup {e})) = Cardinality(B \cap W)
    BY <2>1, Zenon
  <2> QED
    BY <1>0, <1>2, <2>2 DEF Rows
<1> QED
  BY <1>1, <1>2

-----------------------------------------------------------------------------
(* The inductive invariant.                                                *)

ItemType ==
    [parent : Exists \cup {Root}, editor : BOOLEAN, box : BOOLEAN,
     expanded : BOOLEAN, checked : BOOLEAN]

\* The items are a tree: each is once in the list of its parent.
Tree ==
    /\ Exists \subseteq Item
    /\ DOMAIN children = Exists \cup {Root}
    /\ \A p \in DOMAIN children : children[p] \in Seq(Exists) /\ Simple(children[p])
    /\ item \in [Exists -> ItemType]
    /\ \A i \in Exists, p \in DOMAIN children : i \in ToSet(children[p]) <=> item[i].parent = p
    /\ \A i \in Exists : item[i].parent # i
    /\ browser \in {"groupBox", "button"}

\* The siblings before an item; the items that take two rows; where the rows
\* of the items below p begin; and the row of an item.
Before(i) == Preceding(children[item[i].parent], i)
Wide == {j \in Exists : browser = "button" /\ item[j].box /\ item[j].expanded}
Offset(p) == IF browser = "groupBox" /\ p # Root /\ item[p].editor THEN 2 ELSE 0
Place(i) == Rows(Before(i), Wide) + Offset(item[i].parent)
Span(i) == IF i \in Wide THEN 2 ELSE 1

RowOf(w) ==
    IF w[2] = "header" THEN 0
    ELSE IF w[2] = "line" THEN 1
    ELSE IF w[2] = "container" THEN Place(w[1]) + 1
    ELSE Place(w[1])

InBox == {"header", "line"}

\* The rows that layouts keep agree with the tree.
Agrees(rows) ==
    \A w \in DOMAIN rows :
        /\ w[1] \in Exists /\ w \in WidgetsOf(w[1])
        /\ rows[w] = RowOf(w)
        /\ w[2] = "container" => w[1] \in Wide
        /\ w[2] \in InBox => Offset(w[1]) = 2

LayoutsAgree == Agrees(at)

\* An item has the widgets that it should have.
Has(j, k) == <<j, k>> \in DOMAIN at

ItemFits(j) ==
    /\ item[j].box <=> children[j] # <<>>
    /\ Has(j, "box") <=> item[j].box
    /\ Has(j, "label") <=> ~item[j].box /\ j \notin queue
    /\ Has(j, "header") \/ Has(j, "line") => item[j].box
    /\ item[j].checked => item[j].box
    /\ j \in queue => ~item[j].box
    /\ browser = "groupBox" =>
          (item[j].editor /\ j \notin queue => Has(j, IF item[j].box THEN "header" ELSE "cell"))
    /\ browser = "button" =>
          /\ Has(j, "container") <=> item[j].box /\ item[j].expanded
          /\ item[j].box => (item[j].checked <=> item[j].expanded)

ItemsFit == \A j \in Exists : ItemFits(j)

\* Only items that are there wait for their label, and not in vain.
Waiting == queue \subseteq Exists /\ (queue # {} => timer)

IInv == Tree /\ LayoutsAgree /\ ItemsFit /\ Waiting

-----------------------------------------------------------------------------
(* The rows of the items.                                                  *)

LEMMA BeforeFacts ==
    ASSUME Tree, NEW i \in Exists
    PROVE  /\ item[i].parent \in Exists \cup {Root} /\ item[i].parent # i
           /\ children[item[i].parent] \in Seq(Exists) /\ Simple(children[item[i].parent])
           /\ i \in ToSet(children[item[i].parent])
           /\ \A j \in Before(i) : j \in Exists /\ j # i /\ item[j].parent = item[i].parent
           /\ IsFiniteSet(Before(i))
           /\ Cardinality(Before(i)) = Index(children[item[i].parent], i)
<1> DEFINE s == children[item[i].parent]
<1>1. item[i].parent \in Exists \cup {Root} /\ item[i].parent # i
  BY DEF Tree, ItemType
<1>2. s \in Seq(Exists) /\ Simple(s) /\ i \in ToSet(s)
  BY <1>1 DEF Tree
<1> HIDE DEF s
<1>3. PICK n \in 1 .. Len(s) : s[n] = i
  BY <1>2, ElementsIn
<1>4. /\ Index(s, i) = n - 1 /\ Preceding(s, i) \subseteq ToSet(s) \ {i}
      /\ IsFiniteSet(Preceding(s, i)) /\ Cardinality(Preceding(s, i)) = n - 1
  <2>1. Ranked(s, n)
    BY <1>2, PrecedingIs
  <2> QED
    BY <1>3, <2>1 DEF Ranked
<1>5. Before(i) = Preceding(s, i)
  BY DEF Before, s
<1>6. ASSUME NEW j \in ToSet(s) PROVE j \in Exists /\ item[j].parent = item[i].parent
  <2>1. j \in Exists
    BY <1>2, ElementsIn
  <2> QED
    BY <1>1, <2>1 DEF Tree, s
<1> QED
  BY <1>1, <1>2, <1>4, <1>5, <1>6 DEF s

LEMMA PlaceNat ==
    ASSUME Tree, NEW i \in Exists
    PROVE  /\ Place(i) \in Nat /\ Offset(item[i].parent) <= Place(i)
           /\ Offset(item[i].parent) \in {0, 2}
           /\ Span(i) \in {1, 2}
<1>1. Rows(Before(i), Wide) \in Nat
  BY BeforeFacts, RowsNat
<1>2. Offset(item[i].parent) \in {0, 2}
  BY DEF Offset
<1> QED
  BY <1>1, <1>2 DEF Place, Span

\* Siblings are in an order, and their rows in the same.
LEMMA PlaceOrder ==
    ASSUME Tree, NEW i \in Exists, NEW j \in Exists, item[i].parent = item[j].parent
    PROVE  /\ i # j => (i \in Before(j) \/ j \in Before(i))
           /\ i \in Before(j) => /\ j \notin Before(i) /\ i # j
                                 /\ Before(i) \subseteq Before(j)
                                 /\ Place(i) + Span(i) <= Place(j)
<1>1. /\ i # j => (i \in Before(j) \/ j \in Before(i))
      /\ i \in Before(j) => /\ j \notin Before(i) /\ i # j
                            /\ Before(i) \subseteq Before(j)
  BY BeforeFacts, PrecedingOrder DEF Before
<1>2. ASSUME i \in Before(j) PROVE Place(i) + Span(i) <= Place(j)
  <2>1. Before(i) \cup {i} \subseteq Before(j) /\ IsFiniteSet(Before(j))
    BY <1>1, <1>2, BeforeFacts
  <2>2. Rows(Before(i) \cup {i}, Wide) <= Rows(Before(j), Wide)
    BY <2>1, RowsMono
  <2>3. Rows(Before(i) \cup {i}, Wide) = Rows(Before(i), Wide) + Span(i)
    BY BeforeFacts, RowsAdd DEF Span
  <2>4. /\ Rows(Before(i), Wide) \in Nat /\ Rows(Before(j), Wide) \in Nat
        /\ Offset(item[j].parent) \in Nat
    BY BeforeFacts, RowsNat DEF Offset
  <2>5. Span(i) \in Nat
    BY DEF Span
  <2> QED
    BY <2>2, <2>3, <2>4, <2>5 DEF Place
<1> QED
  BY <1>1, <1>2

-----------------------------------------------------------------------------
(* The widgets in the layouts.                                             *)

\* The items up to a, and the row below them in the layout of their parent.
Earlier(a) == IF a = First THEN {} ELSE Before(a) \cup {a}
Below(q, a) == Rows(Earlier(a), Wide) + Offset(q)

\* The items of a layout are either up to a, and above the row below it, or
\* after a, and not above that row.
LEMMA EarlierFacts ==
    ASSUME Tree, NEW q \in Exists \cup {Root}, NEW a \in ToSet(children[q]) \cup {First}
    PROVE  /\ IsFiniteSet(Earlier(a))
           /\ \A j \in Earlier(a) : j \in Exists /\ item[j].parent = q
           /\ Below(q, a) \in Nat /\ Below(q, a) >= Offset(q)
           /\ a = First => Below(q, a) = Offset(q)
           /\ a # First => Below(q, a) = Place(a) + Span(a)
           /\ \A j \in Exists : item[j].parent = q =>
                 IF j \in Earlier(a) THEN Place(j) + Span(j) <= Below(q, a)
                 ELSE Earlier(a) \subseteq Before(j) /\ Place(j) >= Below(q, a)
<1>1. q \in DOMAIN children /\ children[q] \in Seq(Exists) /\ First \notin Exists
  BY WidgetItemsAssumption DEF Tree
<1>2. Offset(q) \in {0, 2}
  BY DEF Offset
<1>3. CASE a = First
  <2>1. Earlier(a) = {} /\ IsFiniteSet(Earlier(a))
    BY <1>3, FS_EmptySet DEF Earlier
  <2>2. Rows(Earlier(a), Wide) = 0
    BY <2>1, RowsNat
  <2>3. Below(q, a) = Offset(q)
    BY <1>2, <2>2 DEF Below
  <2>4. \A j \in Exists : item[j].parent = q => Place(j) \in Nat /\ Place(j) >= Offset(q)
    BY PlaceNat
  <2> QED
    BY <1>2, <1>3, <2>1, <2>3, <2>4
<1>4. CASE a # First
  <2>1. a \in Exists /\ item[a].parent = q
    BY <1>1, <1>4, ElementsIn DEF Tree
  <2>2. Earlier(a) = Before(a) \cup {a} /\ IsFiniteSet(Before(a)) /\ a \notin Before(a)
    BY <1>4, <2>1, BeforeFacts DEF Earlier
  <2>3. IsFiniteSet(Earlier(a)) /\ \A j \in Earlier(a) : j \in Exists /\ item[j].parent = q
    BY <2>1, <2>2, BeforeFacts, FS_AddElement
  <2>4. Below(q, a) = Place(a) + Span(a)
    <3>1. Rows(Earlier(a), Wide) = Rows(Before(a), Wide) + Span(a)
      BY <2>2, RowsAdd DEF Span
    <3>2. Rows(Before(a), Wide) \in Nat /\ Span(a) \in Nat
      BY <2>2, RowsNat DEF Span
    <3> QED
      BY <1>2, <2>1, <3>1, <3>2 DEF Below, Place
  <2>5. Place(a) \in Nat /\ Offset(q) <= Place(a) /\ Span(a) \in {1, 2}
    BY <2>1, PlaceNat
  <2>6. ASSUME NEW j \in Exists, item[j].parent = q
        PROVE  IF j \in Earlier(a) THEN Place(j) + Span(j) <= Below(q, a)
               ELSE Earlier(a) \subseteq Before(j) /\ Place(j) >= Below(q, a)
    <3>1. Place(j) \in Nat /\ Span(j) \in {1, 2}
      BY PlaceNat
    <3>2. CASE j = a
      BY <2>2, <2>4, <2>5, <3>2
    <3>3. CASE j \in Before(a)
      <4>1. Place(j) + Span(j) <= Place(a)
        BY <2>1, <2>6, <3>3, PlaceOrder
      <4> QED
        BY <2>2, <2>4, <2>5, <3>1, <3>3, <4>1
    <3>4. CASE j \notin Earlier(a)
      <4>1. a \in Before(j)
        BY <2>1, <2>2, <2>6, <3>4, PlaceOrder
      <4>2. Before(a) \subseteq Before(j) /\ Place(a) + Span(a) <= Place(j)
        BY <2>1, <2>6, <4>1, PlaceOrder
      <4> QED
        BY <2>2, <2>4, <3>4, <4>1, <4>2
    <3> QED
      BY <2>2, <3>2, <3>3, <3>4
  <2>7. Below(q, a) \in Nat /\ Below(q, a) >= Offset(q)
    BY <1>2, <2>4, <2>5
  <2> QED
    BY <1>4, <2>3, <2>4, <2>6, <2>7
<1> QED
  BY <1>3, <1>4

\* The widgets that a row inserted or removed below a moves.
After(w, q, a) == w[2] \notin InBox /\ item[w[1]].parent = q /\ w[1] \notin Earlier(a)

\* The widgets from the row below a on are those that After names.
LEMMA CutRows ==
    ASSUME Tree, NEW rows, Agrees(rows), NEW w \in DOMAIN rows,
           NEW q \in Exists \cup {Root}, NEW a \in ToSet(children[q]) \cup {First}
    PROVE  /\ rows[w] \in Nat
           /\ Layout(w) = q /\ rows[w] >= Below(q, a) <=> After(w, q, a)
<1>1. /\ w[1] \in Exists /\ rows[w] = RowOf(w)
      /\ w[2] \in {"label", "cell", "box", "container", "header", "line"}
      /\ w[2] = "container" => w[1] \in Wide
      /\ w[2] \in InBox => Offset(w[1]) = 2
  BY DEF Agrees, WidgetsOf
<1>2. Place(w[1]) \in Nat /\ Span(w[1]) = IF w[1] \in Wide THEN 2 ELSE 1
  BY <1>1, PlaceNat DEF Span
<1>3. Below(q, a) \in Nat /\ Below(q, a) >= Offset(q)
  BY EarlierFacts
<1>4. CASE w[2] \in InBox
  <2>1. Layout(w) = w[1] /\ rows[w] \in {0, 1}
    BY <1>1, <1>4 DEF Layout, InBox, RowOf
  <2>2. Offset(q) \in Nat
    BY DEF Offset
  <2> QED
    BY <1>1, <1>3, <1>4, <2>1, <2>2 DEF After
<1>5. CASE w[2] \notin InBox
  <2>1. Layout(w) = item[w[1]].parent
    BY <1>5 DEF Layout, InBox
  <2>2. rows[w] = IF w[2] = "container" THEN Place(w[1]) + 1 ELSE Place(w[1])
    BY <1>1, <1>5 DEF RowOf, InBox
  <2>3. rows[w] \in Nat /\ rows[w] >= Place(w[1]) /\ rows[w] < Place(w[1]) + Span(w[1])
    BY <1>1, <1>2, <2>2
  <2>4. item[w[1]].parent = q =>
            IF w[1] \in Earlier(a) THEN Place(w[1]) + Span(w[1]) <= Below(q, a)
            ELSE Place(w[1]) >= Below(q, a)
    BY <1>1, EarlierFacts
  <2> QED
    BY <1>2, <1>3, <1>5, <2>1, <2>3, <2>4 DEF After
<1> QED
  BY <1>4, <1>5

-----------------------------------------------------------------------------
(* Items come and go.                                                      *)

\* What a change of the tree leaves of an item.
Kept(j) ==
    /\ item'[j].parent = item[j].parent
    /\ item'[j].editor = item[j].editor
    /\ item'[j].expanded = item[j].expanded

\* The tree with a new item i.
LEMMA TreeInserted ==
    ASSUME Tree, NEW i, NEW p, NEW after, NEW editor \in BOOLEAN,
           CanInsert(i, p, after), TreeWith(i, p, after, editor), browser' = browser
    PROVE  /\ Tree'
           /\ i \in Item \ Exists /\ p \in Exists \cup {Root} /\ p # i
           /\ Exists' = Exists \cup {i}
           /\ item'[i] = [parent |-> p, editor |-> editor, box |-> FALSE,
                          expanded |-> FALSE, checked |-> FALSE]
           /\ \A j \in Exists : /\ Kept(j) /\ item'[j].checked = item[j].checked
                                /\ item'[j].box = (item[j].box \/ j = p)
           /\ children'[i] = <<>> /\ children'[p] # <<>>
           /\ \A q \in DOMAIN children \ {p} : children'[q] = children[q]
           /\ Before(i)' = Earlier(after)
           /\ \A j \in Exists : Before(j)' =
                 Before(j) \cup (IF item[j].parent = p /\ j \notin Earlier(after)
                                 THEN {i} ELSE {})
<1> DEFINE s == children[p]
           n == IF after = First THEN 1 ELSE Index(s, after) + 2
           t == InsertAt(s, n, i)
           E == Exists \cup {i}
           c == children'
           m == item'
<1>1. /\ i \in Item \ Exists /\ p \in Exists \cup {Root}
      /\ after \in ToSet(s) \cup {First}
  BY DEF CanInsert
<1>2. i # Root /\ p # i /\ First \notin Item
  BY <1>1, WidgetItemsAssumption DEF Tree
<1>3. /\ c = [q \in DOMAIN children \cup {i} |->
                 IF q = i THEN <<>> ELSE IF q = p THEN t ELSE children[q]]
      /\ m = [j \in E |->
                 IF j = i THEN [parent |-> p, editor |-> editor, box |-> FALSE,
                                expanded |-> FALSE, checked |-> FALSE]
                 ELSE IF j = p THEN [item[j] EXCEPT !.box = TRUE] ELSE item[j]]
  BY DEF TreeWith
<1>4. DOMAIN children = Exists \cup {Root} /\ s \in Seq(Exists) /\ Simple(s)
  BY <1>1 DEF Tree
<1> HIDE DEF c, m
<1>5. /\ DOMAIN c = DOMAIN children \cup {i} /\ c[i] = <<>> /\ c[p] = t
      /\ \A q \in DOMAIN children \ {p} : c[q] = children[q]
  BY <1>1, <1>2, <1>3, <1>4
<1>6. /\ DOMAIN m = E
      /\ m[i] = [parent |-> p, editor |-> editor, box |-> FALSE,
                 expanded |-> FALSE, checked |-> FALSE]
      /\ \A j \in Exists : m[j] = IF j = p THEN [item[j] EXCEPT !.box = TRUE] ELSE item[j]
  BY <1>1, <1>3
<1>7. \A j \in Exists : m[j].parent = item[j].parent
  BY <1>6 DEF Tree, ItemType
<1>8. /\ n \in 1 .. Len(s) + 1
      /\ \A x : x \in Earlier(after) <=> \E k \in 1 .. n - 1 : s[k] = x
  <2>0. Len(s) \in Nat
    BY <1>4
  <2>1. CASE after = First
    BY <2>0, <2>1 DEF Earlier
  <2>2. CASE after # First
    <3>1. PICK a \in 1 .. Len(s) : s[a] = after
      BY <1>1, <1>4, <2>2, ElementsIn
    <3>2. after \in Exists /\ item[after].parent = p
      BY <1>1, <1>4, <2>2, <3>1, ElementsIn DEF Tree
    <3>3. /\ Index(s, after) = a - 1
          /\ \A x : x \in Preceding(s, after) <=> \E k \in 1 .. a - 1 : s[k] = x
      <4> HIDE DEF n, t, s, E
      <4>1. Ranked(s, a)
        BY <1>4, <3>1, PrecedingIs
      <4> QED
        BY <3>1, <4>1 DEF Ranked
    <3>4. n = a + 1 /\ n - 1 = a /\ n \in 1 .. Len(s) + 1
      BY <2>0, <2>2, <3>3
    <3>5. Earlier(after) = Preceding(s, after) \cup {after}
      BY <2>2, <3>2 DEF Earlier, Before
    <3>6. \A k \in 1 .. a : k = a \/ k \in 1 .. a - 1
      BY <2>0
    <3>7. a \in 1 .. a /\ \A k \in 1 .. a - 1 : k \in 1 .. a
      BY <2>0
    <3> HIDE DEF n
    <3> QED
      BY <3>1, <3>3, <3>4, <3>5, <3>6, <3>7
  <2> QED
    BY <2>1, <2>2
<1> HIDE DEF n
<1>9. s \in Seq(E) /\ i \in E \ ToSet(s)
  <2>1. \A k \in 1 .. Len(s) : s[k] \in E
    BY <1>4
  <2>2. s \in Seq(E)
    BY <1>4, <2>1, SeqIn
  <2> QED
    BY <1>1, <1>4, <2>2, ElementsIn
<1>10. t \in Seq(E) /\ Inserted(s, n, i, t)
  BY <1>8, <1>9, InsertAtElements
<1> HIDE DEF t, E, s
<1>11. /\ Simple(t) /\ ToSet(t) = ToSet(s) \cup {i}
       /\ \A x : x \in Preceding(t, i) <=> \E k \in 1 .. n - 1 : s[k] = x
       /\ \A k \in 1 .. Len(s) :
             Preceding(t, s[k]) = Preceding(s, s[k]) \cup (IF k < n THEN {} ELSE {i})
  <2>1. Simple(s) /\ s \in Seq(E) /\ n \in 1 .. Len(s) + 1
    BY <1>4, <1>8, <1>9
  <2>2. i \in E \ ToSet(s) /\ t \in Seq(E) /\ Inserted(s, n, i, t)
    BY <1>9, <1>10
  <2>3. InsertOrdered(s, n, i, t)
    BY ONLY <2>1, <2>2, InsertPreceding
  <2> QED
    BY <2>3 DEF InsertOrdered
<1>12. t # <<>>
  BY <1>8, <1>10 DEF Inserted
<1>13. Preceding(t, i) = Earlier(after)
  BY <1>8, <1>11
<1>14. \A j \in ToSet(s) :
          Preceding(t, j) = Preceding(s, j) \cup (IF j \in Earlier(after) THEN {} ELSE {i})
  <2> SUFFICES ASSUME NEW j \in ToSet(s)
               PROVE  Preceding(t, j) = Preceding(s, j)
                         \cup (IF j \in Earlier(after) THEN {} ELSE {i})
    OBVIOUS
  <2>1. PICK k \in 1 .. Len(s) : s[k] = j
    BY <1>4, ElementsIn
  <2>2. k < n <=> j \in Earlier(after)
    <3>1. Len(s) \in Nat /\ DOMAIN s = 1 .. Len(s)
      BY <1>4
    <3>2. \A h \in 1 .. n - 1 : s[h] = j => h = k
      BY <1>4, <1>8, <2>1, <3>1 DEF Simple
    <3>3. k < n <=> k \in 1 .. n - 1
      BY <1>8, <3>1
    <3> QED
      BY <1>8, <2>1, <3>2, <3>3
  <2> QED
    BY <1>11, <2>1, <2>2
<1>15. Before(i)' = Preceding(t, i)
  <2>1. Before(i)' = Preceding(c[m[i].parent], i)
    BY DEF Before, Preceding, Index, c, m
  <2>2. m[i].parent = p
    BY <1>6
  <2> QED
    BY <1>5, <2>1, <2>2
<1>16. ASSUME NEW j \in Exists
       PROVE  Before(j)' = Before(j) \cup (IF item[j].parent = p /\ j \notin Earlier(after)
                                           THEN {i} ELSE {})
  <2>1. Before(j)' = Preceding(c[item[j].parent], j)
    <3>1. Before(j)' = Preceding(c[m[j].parent], j)
      BY DEF Before, Preceding, Index, c, m
    <3> QED
      BY <1>7, <3>1
  <2>2. item[j].parent \in DOMAIN children
    BY <1>4, BeforeFacts
  <2>3. CASE item[j].parent = p
    <3>1. j \in ToSet(s)
      BY <2>2, <2>3 DEF Tree, s
    <3> QED
      BY <1>5, <1>14, <2>1, <2>3, <3>1 DEF Before, s
  <2>4. CASE item[j].parent # p
    BY <1>5, <2>1, <2>2, <2>4 DEF Before
  <2> QED
    BY <2>3, <2>4
<1>17. Tree'
  <2>1. Exists' = E /\ E \subseteq Item
    BY <1>1, <1>6 DEF Exists, E, m, Tree
  <2>2. DOMAIN c = E \cup {Root}
    BY <1>4, <1>5 DEF E
  <2>3. ASSUME NEW q \in DOMAIN c PROVE c[q] \in Seq(E) /\ Simple(c[q])
    <3>1. CASE q = i
      <4>1. <<>> \in Seq(E) /\ Simple(<<>>)
        BY DEF Simple
      <4> QED
        BY <1>5, <3>1, <4>1
    <3>2. CASE q = p
      BY <1>5, <1>10, <1>11, <3>2
    <3>3. CASE q \notin {i, p}
      <4>1. q \in DOMAIN children /\ c[q] = children[q]
        BY <1>5, <2>3, <3>3
      <4>2. children[q] \in Seq(Exists) /\ Simple(children[q])
        BY <4>1 DEF Tree
      <4>3. \A k \in 1 .. Len(children[q]) : children[q][k] \in E
        BY <4>2 DEF E
      <4>4. children[q] \in Seq(E)
        BY <4>2, <4>3, SeqIn
      <4> QED
        BY <4>1, <4>2, <4>4
    <3> QED
      BY <3>1, <3>2, <3>3
  <2>4. m \in [E -> [parent : E \cup {Root}, editor : BOOLEAN, box : BOOLEAN,
                     expanded : BOOLEAN, checked : BOOLEAN]]
    <3> SUFFICES ASSUME NEW j \in E
                 PROVE  m[j] \in [parent : E \cup {Root}, editor : BOOLEAN, box : BOOLEAN,
                                  expanded : BOOLEAN, checked : BOOLEAN]
      BY <1>3 DEF E
    <3>1. CASE j = i
      <4>1. p \in E \cup {Root} /\ editor \in BOOLEAN
        BY <1>1 DEF E
      <4>2. m[j] = [parent |-> p, editor |-> editor, box |-> FALSE,
                    expanded |-> FALSE, checked |-> FALSE]
        BY <1>6, <3>1
      <4> QED
        BY <4>1, <4>2
    <3>2. CASE j \in Exists
      <4>1. item[j] \in [parent : E \cup {Root}, editor : BOOLEAN, box : BOOLEAN,
                         expanded : BOOLEAN, checked : BOOLEAN]
        BY <3>2 DEF Tree, ItemType, E
      <4> QED
        BY <1>6, <3>2, <4>1
    <3> QED
      BY <3>1, <3>2 DEF E
  <2>5. ASSUME NEW j \in E, NEW q \in DOMAIN c
        PROVE  j \in ToSet(c[q]) <=> m[j].parent = q
    <3>1. CASE q = i
      <4>1. c[q] = <<>> /\ ToSet(<<>>) = {}
        BY <1>5, <3>1 DEF ToSet
      <4>2. m[j].parent # i
        BY <1>1, <1>2, <1>6, <1>7, BeforeFacts DEF E
      <4> QED
        BY <3>1, <4>1, <4>2
    <3>2. CASE q = p
      <4>1. c[q] = t
        BY <1>5, <3>2
      <4>2. j \in Exists => (j \in ToSet(s) <=> item[j].parent = p)
        BY <1>1, <1>4 DEF Tree, s
      <4> QED
        BY <1>1, <1>6, <1>7, <1>11, <3>2, <4>1, <4>2 DEF E
    <3>3. CASE q \notin {i, p}
      <4>1. q \in DOMAIN children /\ c[q] = children[q]
        BY <1>5, <2>5, <3>3
      <4>2. j \in Exists => (j \in ToSet(c[q]) <=> item[j].parent = q)
        BY <4>1 DEF Tree
      <4>3. i \notin ToSet(c[q])
        <5>1. children[q] \in Seq(Exists)
          BY <4>1 DEF Tree
        <5> QED
          BY <1>1, <4>1, <5>1, ElementsIn
      <4> QED
        BY <1>6, <1>7, <3>3, <4>2, <4>3 DEF E
    <3> QED
      BY <3>1, <3>2, <3>3
  <2>6. \A j \in E : m[j].parent # j
    BY <1>2, <1>6, <1>7 DEF E, Tree
  <2>7. browser' \in {"groupBox", "button"}
    BY DEF Tree
  <2> QED
    BY <2>1, <2>2, <2>3, <2>4, <2>5, <2>6, <2>7 DEF Tree, ItemType, Exists, c, m, Simple
<1>18. \A j \in Exists : /\ Kept(j) /\ item'[j].checked = item[j].checked
                         /\ item'[j].box = (item[j].box \/ j = p)
  <2> SUFFICES ASSUME NEW j \in Exists
               PROVE  /\ m[j].parent = item[j].parent /\ m[j].editor = item[j].editor
                      /\ m[j].expanded = item[j].expanded /\ m[j].checked = item[j].checked
                      /\ m[j].box = (item[j].box \/ j = p)
    BY DEF m, Kept
  <2>0. item[j] \in ItemType
    BY DEF Tree
  <2>1. CASE j = p
    <3>1. m[j] = [item[j] EXCEPT !.box = TRUE]
      BY <1>6, <2>1
    <3> QED
      BY <2>0, <2>1, <3>1 DEF ItemType
  <2>2. CASE j # p
    <3>1. m[j] = item[j]
      BY <1>6, <2>2
    <3> QED
      BY <2>0, <2>2, <3>1 DEF ItemType
  <2> QED
    BY <2>1, <2>2
<1>19. item'[i] = [parent |-> p, editor |-> editor, box |-> FALSE,
                  expanded |-> FALSE, checked |-> FALSE]
  BY <1>6 DEF m
<1>20. Exists' = Exists \cup {i}
  BY <1>6 DEF m, E, Exists
<1> QED
  BY <1>1, <1>2, <1>5, <1>12, <1>13, <1>15, <1>16, <1>17, <1>18, <1>19, <1>20 DEF c

\* The tree without an item i that has no children.
LEMMA TreeRemoved ==
    ASSUME Tree, NEW i, CanRemove(i), TreeWithout(i), browser' = browser
    PROVE  LET p == item[i].parent IN
           /\ Tree'
           /\ i \in Exists /\ p \in Exists \cup {Root} /\ p # i
           /\ Exists' = Exists \ {i}
           /\ \A j \in Exists \ {i} :
                 /\ Kept(j)
                 /\ IF j = p /\ Len(children[p]) = 1
                    THEN ~item'[j].box /\ ~item'[j].checked
                    ELSE item'[j].box = item[j].box /\ item'[j].checked = item[j].checked
           /\ Len(children[p]) \in Nat \ {0}
           /\ children'[p] = <<>> <=> Len(children[p]) = 1
           /\ \A q \in DOMAIN children \ {p, i} : children'[q] = children[q]
           /\ \A j \in Exists : item[j].parent # i
           /\ \A j \in Exists \ {i} : Before(j)' = Before(j) \ {i}
           /\ Len(children[p]) = 1 => \A j \in Exists \ {i} : item[j].parent # p
<1> DEFINE p == item[i].parent
           s == children[p]
           t == Without(s, i)
           E == Exists \ {i}
           c == children'
           m == item'
<1>1. /\ i \in Exists /\ children[i] = <<>> /\ p \in Exists \cup {Root} /\ p # i
      /\ s \in Seq(Exists) /\ Simple(s) /\ i \in ToSet(s)
  BY BeforeFacts DEF CanRemove
<1>2. DOMAIN children = Exists \cup {Root} /\ i # Root /\ Len(s) \in Nat
  BY <1>1, WidgetItemsAssumption DEF Tree
<1>3. /\ c = [q \in DOMAIN children \ {i} |-> IF q = p THEN t ELSE children[q]]
      /\ m = [j \in E |-> IF j = p /\ Len(s) = 1
                          THEN [item[j] EXCEPT !.box = FALSE, !.checked = FALSE] ELSE item[j]]
  BY DEF TreeWithout
<1> HIDE DEF c, m
<1>4. /\ DOMAIN c = DOMAIN children \ {i} /\ c[p] = t
      /\ \A q \in DOMAIN children \ {p, i} : c[q] = children[q]
  BY <1>1, <1>2, <1>3
<1>5. /\ DOMAIN m = E
      /\ \A j \in E : m[j] = IF j = p /\ Len(s) = 1
                              THEN [item[j] EXCEPT !.box = FALSE, !.checked = FALSE]
                              ELSE item[j]
  BY <1>3
<1>6. \A j \in E : m[j].parent = item[j].parent
  <2> SUFFICES ASSUME NEW j \in E PROVE m[j].parent = item[j].parent
    OBVIOUS
  <2>1. CASE j = p /\ Len(s) = 1
    <3>1. m[j] = [item[j] EXCEPT !.box = FALSE, !.checked = FALSE]
      BY <1>5, <2>1
    <3>2. item[j] \in ItemType
      BY DEF Tree
    <3> QED
      BY <3>1, <3>2 DEF ItemType
  <2>2. CASE ~(j = p /\ Len(s) = 1)
    BY <1>5, <2>2
  <2> QED
    BY <2>1, <2>2
<1>7. PICK n \in 1 .. Len(s) : s[n] = i
  BY <1>1, ElementsIn
<1>8. t \in Seq(Exists) /\ Removed(s, n, t)
  <2>1. Index(s, s[n]) = n - 1
    <3> HIDE DEF s, t, p
    <3>1. Ranked(s, n)
      BY <1>1, PrecedingIs
    <3> QED
      BY <3>1 DEF Ranked
  <2>2. n - 1 + 1 = n
    BY <1>2
  <2>3. t = RemoveAt(s, n)
    BY <1>7, <2>1, <2>2 DEF Without
  <2> QED
    BY <1>1, <2>3, RemoveAtElements
<1> HIDE DEF s, t, E, p
<1>9. /\ Simple(t) /\ ToSet(t) = ToSet(s) \ {i}
      /\ \A j \in ToSet(t) : Preceding(t, j) = Preceding(s, j) \ {i}
  BY <1>1, <1>7, <1>8, RemovePreceding
<1>10. Len(t) = Len(s) - 1 /\ Len(s) > 0 /\ (t = <<>> <=> Len(s) = 1)
  BY <1>2, <1>8 DEF Removed
<1>11. \A j \in Exists : item[j].parent # i
  <2>1. \A j \in Exists : j \notin ToSet(<<>>)
    BY DEF ToSet
  <2> QED
    BY <1>1, <1>2, <2>1 DEF Tree
<1>12. \A j \in Exists : j \in ToSet(s) <=> item[j].parent = p
  BY <1>1, <1>2 DEF Tree, s
<1>13. ASSUME NEW j \in E PROVE Before(j)' = Before(j) \ {i}
  <2>1. Before(j)' = Preceding(c[item[j].parent], j)
    <3>1. Before(j)' = Preceding(c[m[j].parent], j)
      BY DEF Before, Preceding, Index, c, m
    <3> QED
      BY <1>6, <3>1
  <2>2. j \in Exists /\ item[j].parent \in DOMAIN children /\ item[j].parent # i
    BY <1>2, <1>11, BeforeFacts DEF E
  <2>3. CASE item[j].parent = p
    <3>1. j \in ToSet(t)
      BY <1>9, <1>12, <2>2, <2>3 DEF E
    <3> QED
      BY <1>4, <1>9, <2>1, <2>3, <3>1 DEF Before, s
  <2>4. CASE item[j].parent # p
    <3>1. Before(j)' = Before(j)
      BY <1>4, <2>1, <2>2, <2>4 DEF Before
    <3>2. i \notin Before(j)
      BY <1>1, <2>2, <2>4, BeforeFacts DEF p
    <3> QED
      BY <3>1, <3>2
  <2> QED
    BY <2>3, <2>4
<1>14. Tree'
  <2>1. Exists' = E /\ E \subseteq Item
    BY <1>5 DEF Exists, E, m, Tree
  <2>2. DOMAIN c = E \cup {Root}
    BY <1>2, <1>4 DEF E
  <2>3. ASSUME NEW q \in DOMAIN c PROVE c[q] \in Seq(E) /\ Simple(c[q])
    <3>1. \E S : c[q] \in Seq(S)
      BY <1>4, <1>8, <2>3 DEF Tree
    <3>2. i \notin ToSet(c[q]) /\ Simple(c[q]) /\ c[q] \in Seq(Exists)
      <4>1. CASE q = p
        BY <1>4, <1>8, <1>9, <4>1
      <4>2. CASE q # p
        <5>1. q \in DOMAIN children /\ c[q] = children[q]
          BY <1>4, <2>3, <4>2
        <5> QED
          BY <1>1, <4>2, <5>1 DEF Tree, p
      <4> QED
        BY <4>1, <4>2
    <3>3. \A k \in 1 .. Len(c[q]) : c[q][k] \in E
      BY <3>2, ElementsIn DEF E
    <3> QED
      BY <3>2, <3>3, SeqIn
  <2>4. m \in [E -> [parent : E \cup {Root}, editor : BOOLEAN, box : BOOLEAN,
                     expanded : BOOLEAN, checked : BOOLEAN]]
    <3> SUFFICES ASSUME NEW j \in E
                 PROVE  m[j] \in [parent : E \cup {Root}, editor : BOOLEAN, box : BOOLEAN,
                                  expanded : BOOLEAN, checked : BOOLEAN]
      BY <1>3
    <3>1. item[j] \in [parent : E \cup {Root}, editor : BOOLEAN, box : BOOLEAN,
                       expanded : BOOLEAN, checked : BOOLEAN]
      BY <1>11 DEF Tree, ItemType, E
    <3>2. CASE j = p /\ Len(s) = 1
      <4>1. m[j] = [item[j] EXCEPT !.box = FALSE, !.checked = FALSE]
        BY <1>5, <3>2
      <4> QED
        BY <3>1, <4>1
    <3>3. CASE ~(j = p /\ Len(s) = 1)
      <4>1. m[j] = item[j]
        BY <1>5, <3>3
      <4> QED
        BY <3>1, <4>1
    <3> QED
      BY <3>2, <3>3
  <2>5. ASSUME NEW j \in E, NEW q \in DOMAIN c
        PROVE  j \in ToSet(c[q]) <=> m[j].parent = q
    <3>1. j \in Exists /\ j # i /\ q \in DOMAIN children /\ q # i
      BY <1>4 DEF E
    <3>2. j \in ToSet(children[q]) <=> item[j].parent = q
      BY <3>1 DEF Tree
    <3>3. CASE q = p
      BY <1>4, <1>6, <1>9, <3>1, <3>2, <3>3 DEF s
    <3>4. CASE q # p
      BY <1>4, <1>6, <3>1, <3>2, <3>4
    <3> QED
      BY <3>3, <3>4
  <2>6. \A j \in E : m[j].parent # j
    BY <1>6 DEF E, Tree
  <2>7. browser' \in {"groupBox", "button"}
    BY DEF Tree
  <2> QED
    BY <2>1, <2>2, <2>3, <2>4, <2>5, <2>6, <2>7 DEF Tree, ItemType, Exists, c, m, Simple
<1>15. Len(s) = 1 => \A j \in E : item[j].parent # p
  <2>1. Len(s) = 1 => ToSet(t) = {}
    BY <1>10 DEF ToSet
  <2> QED
    BY <1>9, <1>12, <2>1 DEF E
<1>16. Exists' = E
  BY <1>5 DEF Exists, m
<1>17. \A j \in E :
          /\ Kept(j)
          /\ IF j = p /\ Len(s) = 1
             THEN ~item'[j].box /\ ~item'[j].checked
             ELSE item'[j].box = item[j].box /\ item'[j].checked = item[j].checked
  <2> SUFFICES ASSUME NEW j \in E
               PROVE  /\ m[j].parent = item[j].parent /\ m[j].editor = item[j].editor
                      /\ m[j].expanded = item[j].expanded
                      /\ IF j = p /\ Len(s) = 1
                         THEN ~m[j].box /\ ~m[j].checked
                         ELSE m[j].box = item[j].box /\ m[j].checked = item[j].checked
    BY DEF m, Kept
  <2>0. item[j] \in ItemType
    BY DEF Tree, E
  <2>1. CASE j = p /\ Len(s) = 1
    <3>1. m[j] = [item[j] EXCEPT !.box = FALSE, !.checked = FALSE]
      BY <1>5, <2>1
    <3> QED
      BY <2>0, <2>1, <3>1 DEF ItemType
  <2>2. CASE ~(j = p /\ Len(s) = 1)
    <3>1. m[j] = item[j]
      BY <1>5, <2>2
    <3> QED
      BY <2>2, <3>1
  <2> QED
    BY <2>1, <2>2
<1>18. /\ Len(s) \in Nat \ {0} /\ (children'[p] = <<>> <=> Len(s) = 1)
       /\ \A q \in DOMAIN children \ {p, i} : children'[q] = children[q]
  BY <1>2, <1>4, <1>10 DEF c
<1> QED
  BY <1>1, <1>11, <1>13, <1>14, <1>15, <1>16, <1>17, <1>18 DEF p, s, E

-----------------------------------------------------------------------------
(* Rows are inserted and removed.                                          *)

\* What is below item a in layout q moves by d rows.
Moves(j, q, a, d) ==
    Place(j)' = Place(j) + IF item[j].parent = q /\ j \notin Earlier(a) THEN d ELSE 0

\* The widgets that stay, and those that are new in row r.
Staying(rows, q, a, d) ==
    \A w \in DOMAIN rows :
        /\ w[1] \in Exists'
        /\ w[2] \notin InBox => Moves(w[1], q, a, d)
        /\ w[2] = "container" => w[1] \in Wide'
        /\ w[2] \in InBox => Offset(w[1])' = 2

Coming(ws, r) ==
    \A w \in ws :
        /\ w[1] \in Exists' /\ w \in WidgetsOf(w[1]) /\ w[2] \notin InBox
        /\ RowOf(w)' = r
        /\ w[2] = "container" => w[1] \in Wide'

\* Rows that were right are so after a cut below a at which d rows come or go.
LEMMA RowsMoved ==
    ASSUME Tree, NEW rows, Agrees(rows), NEW q \in Exists \cup {Root},
           NEW a \in ToSet(children[q]) \cup {First}, NEW d \in Int, NEW ws, NEW r,
           Staying(rows, q, a, d), Coming(ws, r),
           at' = Put(Shift(rows, q, Below(q, a), d), ws, r)
    PROVE  LayoutsAgree'
<1> DEFINE new == at'
<1>1. /\ DOMAIN new = DOMAIN rows \cup ws
      /\ \A w \in ws : new[w] = r
      /\ \A w \in DOMAIN rows \ ws :
            new[w] = IF Layout(w) = q /\ rows[w] >= Below(q, a) THEN rows[w] + d ELSE rows[w]
  BY DEF Put, Shift
<1> HIDE DEF new
<1>2. ASSUME NEW w \in DOMAIN rows \ ws
      PROVE  /\ w[1] \in Exists' /\ w \in WidgetsOf(w[1])
             /\ new[w] = RowOf(w)'
             /\ w[2] = "container" => w[1] \in Wide'
             /\ w[2] \in InBox => Offset(w[1])' = 2
  <2>1. /\ w[1] \in Exists /\ w \in WidgetsOf(w[1]) /\ rows[w] = RowOf(w)
        /\ w[2] = "container" => w[1] \in Wide
    BY DEF Agrees
  <2>2. new[w] = IF After(w, q, a) THEN rows[w] + d ELSE rows[w]
    BY <1>1, CutRows
  <2>3. /\ w[1] \in Exists'
        /\ w[2] \notin InBox => Moves(w[1], q, a, d)
        /\ w[2] = "container" => w[1] \in Wide'
        /\ w[2] \in InBox => Offset(w[1])' = 2
    BY DEF Staying
  <2>4. new[w] = RowOf(w)'
    <3>1. Place(w[1]) \in Nat
      BY <2>1, PlaceNat
    <3>2. CASE w[2] \in InBox
      BY <2>1, <2>2, <3>2 DEF RowOf, InBox, After
    <3>3. CASE w[2] \notin InBox
      <4>1. Place(w[1])' = Place(w[1]) + IF After(w, q, a) THEN d ELSE 0
        BY <2>3, <3>3 DEF Moves, After
      <4>2. CASE w[2] = "container"
        <5>1. rows[w] = Place(w[1]) + 1 /\ RowOf(w)' = Place(w[1])' + 1
          BY <2>1, <4>2 DEF RowOf
        <5> QED
          BY <2>2, <3>1, <4>1, <5>1
      <4>3. CASE w[2] # "container"
        <5>1. rows[w] = Place(w[1]) /\ RowOf(w)' = Place(w[1])'
          BY <2>1, <3>3, <4>3 DEF RowOf, InBox
        <5> QED
          BY <2>2, <3>1, <4>1, <5>1
      <4> QED
        BY <4>2, <4>3
    <3> QED
      BY <3>2, <3>3
  <2> QED
    BY <2>1, <2>3, <2>4
<1>3. ASSUME NEW w \in ws
      PROVE  /\ w[1] \in Exists' /\ w \in WidgetsOf(w[1])
             /\ new[w] = RowOf(w)'
             /\ w[2] = "container" => w[1] \in Wide'
             /\ w[2] \in InBox => Offset(w[1])' = 2
  BY <1>1 DEF Coming
<1> QED
  BY <1>1, <1>2, <1>3 DEF LayoutsAgree, Agrees, WidgetsOf, new

\* No row is inserted or removed.
Resting(rows, ws) ==
    /\ DOMAIN at' = DOMAIN rows \cup ws
    /\ \A w \in DOMAIN rows \ ws :
          /\ at'[w] = rows[w] /\ w[1] \in Exists'
          /\ w[2] \notin InBox => Place(w[1])' = Place(w[1])
          /\ w[2] = "container" => w[1] \in Wide'
          /\ w[2] \in InBox => Offset(w[1])' = 2
    /\ \A w \in ws :
          /\ at'[w] = RowOf(w)' /\ w[1] \in Exists' /\ w \in WidgetsOf(w[1])
          /\ w[2] \notin InBox /\ w[2] # "container"

LEMMA RowsStay ==
    ASSUME NEW rows, Agrees(rows), NEW ws, Resting(rows, ws)
    PROVE  LayoutsAgree'
<1>0. /\ DOMAIN at' = DOMAIN rows \cup ws
      /\ \A w \in DOMAIN rows \ ws :
            /\ at'[w] = rows[w] /\ w[1] \in Exists'
            /\ w[2] \notin InBox => Place(w[1])' = Place(w[1])
            /\ w[2] = "container" => w[1] \in Wide'
            /\ w[2] \in InBox => Offset(w[1])' = 2
      /\ \A w \in ws :
            /\ at'[w] = RowOf(w)' /\ w[1] \in Exists' /\ w \in WidgetsOf(w[1])
            /\ w[2] \notin InBox /\ w[2] # "container"
  BY DEF Resting
<1> DEFINE new == at'
<1> HIDE DEF new
<1>1. ASSUME NEW w \in DOMAIN rows \ ws
      PROVE  w \in WidgetsOf(w[1]) /\ new[w] = RowOf(w)'
  <2>1. w \in WidgetsOf(w[1]) /\ rows[w] = RowOf(w)
    BY DEF Agrees
  <2>2. new[w] = rows[w] /\ (w[2] \notin InBox => Place(w[1])' = Place(w[1]))
    BY <1>0 DEF new
  <2> QED
    BY <2>1, <2>2 DEF RowOf, InBox
<1> QED
  BY <1>0, <1>1 DEF LayoutsAgree, Agrees, WidgetsOf, new

LEMMA PlaceNext ==
    ASSUME NEW j, NEW q, item[j].parent = q, item'[j].parent = q, Offset(q)' = Offset(q)
    PROVE  /\ Place(j) = Rows(Before(j), Wide) + Offset(q)
           /\ Place(j)' = Rows(Before(j)', Wide') + Offset(q)
<1>1. Place(j)' = Rows(Before(j)', Wide') + Offset(q)'
  BY DEF Place, Offset
<1> QED
  BY <1>1 DEF Place

\* An item is before those that are below it in the same layout.
LEMMA BeforeIsAbove ==
    ASSUME Tree, NEW e \in Exists, NEW j \in Exists
    PROVE  e \in Before(j) <=> item[j].parent = item[e].parent /\ j \notin Earlier(e)
<1>1. e # First
  BY WidgetItemsAssumption DEF Tree
<1>2. Earlier(e) = Before(e) \cup {e}
  BY <1>1 DEF Earlier
<1>3. item[j].parent = item[e].parent =>
          /\ e # j => (e \in Before(j) \/ j \in Before(e))
          /\ e \in Before(j) => j \notin Before(e) /\ e # j
  BY PlaceOrder
<1>4. e \in Before(j) => item[j].parent = item[e].parent
  BY BeforeFacts
<1>5. e \notin Before(e)
  BY BeforeFacts
<1> QED
  BY <1>2, <1>3, <1>4, <1>5

\* An item gets a second row, and loses it.
LEMMA PlacesWiden ==
    ASSUME Tree, NEW e \in Exists, NEW j \in Exists, NEW q, item[j].parent = q,
           item'[j].parent = q, Before(j)' = Before(j), Offset(q)' = Offset(q)
    PROVE  /\ e \notin Wide /\ Wide' = Wide \cup {e} => Moves(j, item[e].parent, e, 1)
           /\ e \in Wide /\ Wide' = Wide \ {e} => Moves(j, item[e].parent, e, -1)
           /\ Wide' = Wide => Place(j)' = Place(j)
<1>1. e \in Before(j) <=> item[j].parent = item[e].parent /\ j \notin Earlier(e)
  BY BeforeIsAbove
<1>2. /\ Place(j) = Rows(Before(j), Wide) + Offset(q)
      /\ Place(j)' = Rows(Before(j), Wide') + Offset(q)
  BY PlaceNext
<1>3. IsFiniteSet(Before(j)) /\ Offset(q) \in Nat
  BY BeforeFacts DEF Offset
<1>4. ASSUME e \notin Wide, Wide' = Wide \cup {e} PROVE Moves(j, item[e].parent, e, 1)
  <2>1. Rows(Before(j), Wide') = Rows(Before(j), Wide) + IF e \in Before(j) THEN 1 ELSE 0
    BY <1>3, <1>4, RowsWiden
  <2>2. Rows(Before(j), Wide) \in Nat
    BY <1>3, RowsNat
  <2> QED
    BY <1>1, <1>2, <1>3, <2>1, <2>2 DEF Moves
<1>5. ASSUME e \in Wide, Wide' = Wide \ {e} PROVE Moves(j, item[e].parent, e, -1)
  <2>1. Wide = Wide' \cup {e} /\ e \notin Wide'
    BY <1>5
  <2>2. Rows(Before(j), Wide) = Rows(Before(j), Wide') + IF e \in Before(j) THEN 1 ELSE 0
    BY <1>3, <2>1, RowsWiden
  <2>3. Rows(Before(j), Wide') \in Nat
    BY <1>3, RowsNat
  <2> QED
    BY <1>1, <1>2, <1>3, <2>2, <2>3 DEF Moves
<1> QED
  BY <1>2, <1>4, <1>5

\* Of a new item, and of one that goes, with one row.
LEMMA PlacesInserted ==
    ASSUME Tree, NEW i, NEW p, NEW after, NEW editor \in BOOLEAN,
           CanInsert(i, p, after), TreeWith(i, p, after, editor), browser' = browser,
           Wide' = Wide
    PROVE  /\ Place(i)' = Below(p, after)
           /\ \A j \in Exists : Moves(j, p, after, 1)
           /\ \A q \in Exists \cup {Root} : Offset(q)' = Offset(q)
<1>1. /\ i \in Item \ Exists /\ p \in Exists \cup {Root} /\ p # i
      /\ item'[i].parent = p
      /\ \A j \in Exists : Kept(j)
      /\ Before(i)' = Earlier(after)
      /\ \A j \in Exists : Before(j)' =
            Before(j) \cup (IF item[j].parent = p /\ j \notin Earlier(after) THEN {i} ELSE {})
  <2>1. /\ i \in Item \ Exists /\ p \in Exists \cup {Root} /\ p # i
        /\ item'[i] = [parent |-> p, editor |-> editor, box |-> FALSE,
                       expanded |-> FALSE, checked |-> FALSE]
        /\ \A j \in Exists : /\ Kept(j) /\ item'[j].checked = item[j].checked
                             /\ item'[j].box = (item[j].box \/ j = p)
        /\ Before(i)' = Earlier(after)
        /\ \A j \in Exists : Before(j)' =
              Before(j) \cup (IF item[j].parent = p /\ j \notin Earlier(after)
                              THEN {i} ELSE {})
    BY TreeInserted
  <2> QED
    BY <2>1
<1>2. \A q \in Exists \cup {Root} : Offset(q)' = Offset(q)
  BY <1>1 DEF Offset, Kept
<1>3. Place(i)' = Below(p, after)
  <2>1. Offset(item[i].parent)' = Offset(p)'
    BY <1>1 DEF Offset
  <2>2. Offset(p)' = Offset(p)
    BY <1>1, <1>2
  <2>3. Place(i)' = Rows(Before(i)', Wide') + Offset(item[i].parent)'
    BY DEF Place
  <2> QED
    BY <1>1, <2>1, <2>2, <2>3 DEF Below
<1>4. ASSUME NEW j \in Exists PROVE Moves(j, p, after, 1)
  <2>0. PICK q : q = item[j].parent
    OBVIOUS
  <2>1. q \in Exists \cup {Root} /\ item'[j].parent = q
    BY <1>1, <2>0, BeforeFacts DEF Kept
  <2>2. /\ Place(j) = Rows(Before(j), Wide) + Offset(q)
        /\ Place(j)' = Rows(Before(j)', Wide) + Offset(q)
    <3>1. Offset(q)' = Offset(q)
      BY <1>2, <2>1
    <3> QED
      BY <2>0, <2>1, <3>1, PlaceNext
  <2>3. IsFiniteSet(Before(j)) /\ i \notin Before(j) /\ i \notin Wide
    BY <1>1, BeforeFacts DEF Wide
  <2>4. Offset(q) \in Nat /\ Rows(Before(j), Wide) \in Nat
    BY <2>3, RowsNat DEF Offset
  <2>5. Rows(Before(j) \cup {i}, Wide) = Rows(Before(j), Wide) + 1
    BY <2>3, RowsAdd
  <2>6. CASE item[j].parent = p /\ j \notin Earlier(after)
    <3>1. Before(j)' = Before(j) \cup {i}
      BY <1>1, <2>6
    <3> QED
      BY <2>2, <2>4, <2>5, <2>6, <3>1 DEF Moves
  <2>7. CASE ~(item[j].parent = p /\ j \notin Earlier(after))
    <3>1. Before(j)' = Before(j)
      BY <1>1, <2>7
    <3> QED
      BY <2>2, <2>4, <2>7, <3>1 DEF Moves
  <2> QED
    BY <2>6, <2>7
<1> QED
  BY <1>2, <1>3, <1>4

LEMMA PlacesRemoved ==
    ASSUME Tree, NEW i, CanRemove(i), TreeWithout(i), browser' = browser, i \notin Wide
    PROVE  /\ Wide' = Wide => \A j \in Exists \ {i} : Moves(j, item[i].parent, i, -1)
           /\ \A q \in (Exists \ {i}) \cup {Root} : Offset(q)' = Offset(q)
<1>1. /\ i \in Exists /\ \A j \in Exists \ {i} : Kept(j) /\ item[j].parent # i
      /\ \A j \in Exists \ {i} : Before(j)' = Before(j) \ {i}
  BY TreeRemoved
<1>2. \A q \in (Exists \ {i}) \cup {Root} : Offset(q)' = Offset(q)
  BY <1>1 DEF Offset, Kept
<1>3. ASSUME Wide' = Wide, NEW j \in Exists \ {i} PROVE Moves(j, item[i].parent, i, -1)
  <2>0. PICK q : q = item[j].parent
    OBVIOUS
  <2>1. q \in (Exists \ {i}) \cup {Root} /\ item'[j].parent = q
    BY <1>1, <2>0, BeforeFacts DEF Kept
  <2>2. /\ Place(j) = Rows(Before(j), Wide) + Offset(q)
        /\ Place(j)' = Rows(Before(j) \ {i}, Wide) + Offset(q)
    <3>1. Offset(q)' = Offset(q)
      BY <1>2, <2>1
    <3>2. /\ Place(j) = Rows(Before(j), Wide) + Offset(q)
          /\ Place(j)' = Rows(Before(j)', Wide') + Offset(q)
      BY <2>0, <2>1, <3>1, PlaceNext
    <3>3. Before(j)' = Before(j) \ {i} /\ Wide' = Wide
      BY <1>1, <1>3
    <3> QED
      BY <3>2, <3>3, Zenon
  <2>3. i \in Before(j) <=> item[j].parent = item[i].parent /\ j \notin Earlier(i)
    BY <1>1, BeforeIsAbove
  <2>4. IsFiniteSet(Before(j)) /\ IsFiniteSet(Before(j) \ {i})
    BY BeforeFacts, FS_Subset
  <2>5. Offset(q) \in Nat /\ Rows(Before(j) \ {i}, Wide) \in Nat
    BY <2>4, RowsNat DEF Offset
  <2>6. CASE i \in Before(j)
    <3>1. Before(j) = (Before(j) \ {i}) \cup {i}
      BY <2>6
    <3>2. Rows((Before(j) \ {i}) \cup {i}, Wide) = Rows(Before(j) \ {i}, Wide) + 1
      BY <2>4, RowsAdd
    <3>3. Rows(Before(j), Wide) = Rows(Before(j) \ {i}, Wide) + 1
      BY <3>1, <3>2, Zenon
    <3> QED
      BY <2>2, <2>3, <2>5, <2>6, <3>3 DEF Moves
  <2>7. CASE i \notin Before(j)
    <3>1. Before(j) \ {i} = Before(j)
      BY <2>7
    <3>2. Rows(Before(j) \ {i}, Wide) = Rows(Before(j), Wide)
      BY <3>1, Zenon
    <3>3. Place(j)' = Place(j) /\ Place(j) \in Nat
      BY <2>2, <2>5, <3>2
    <3> QED
      BY <2>3, <2>7, <3>3 DEF Moves
  <2> QED
    BY <2>6, <2>7
<1> QED
  BY <1>2, <1>3

-----------------------------------------------------------------------------
(* The rows that the browsers compute are those of the tree.               *)

LEMMA GroupBoxRows ==
    ASSUME Tree, browser = "groupBox"
    PROVE  /\ Wide = {}
           /\ \A i \in Exists : GroupBox!Row(i) = Place(i)
           /\ \A p \in Exists \cup {Root} : \A a \in ToSet(children[p]) \cup {First} :
                 (IF a = First THEN 0 ELSE GroupBox!Index(children[p], a) + 1)
                    + (IF GroupBox!hasHeader(p) THEN 2 ELSE 0) = Below(p, a)
<1>1. Wide = {}
  BY DEF Wide
<1>2. \A q : Offset(q) = IF GroupBox!hasHeader(q) THEN 2 ELSE 0
  BY DEF Offset, GroupBox!hasHeader
<1>3. \A s, i : GroupBox!Index(s, i) = Index(s, i)
  BY DEF GroupBox!Index, Index
<1>4. ASSUME NEW i \in Exists
      PROVE  /\ Place(i) = Index(children[item[i].parent], i) + Offset(item[i].parent)
             /\ Index(children[item[i].parent], i) \in Nat
  <2>1. /\ IsFiniteSet(Before(i))
        /\ Cardinality(Before(i)) = Index(children[item[i].parent], i)
    BY BeforeFacts
  <2>2. Cardinality(Before(i)) \in Nat
    BY <2>1, FS_CardinalityType
  <2>3. Cardinality(Before(i) \cap Wide) = 0
    <3>1. Before(i) \cap Wide = {} /\ Cardinality({}) = 0
      BY <1>1, FS_EmptySet
    <3> QED
      BY <3>1, Zenon
  <2> QED
    BY <2>1, <2>2, <2>3 DEF Place, Rows
<1>5. \A i \in Exists : GroupBox!Row(i) = Place(i)
  BY <1>2, <1>3, <1>4 DEF GroupBox!Row
<1>6. ASSUME NEW p \in Exists \cup {Root}, NEW a \in ToSet(children[p]) \cup {First}
      PROVE  (IF a = First THEN 0 ELSE GroupBox!Index(children[p], a) + 1)
                + (IF GroupBox!hasHeader(p) THEN 2 ELSE 0) = Below(p, a)
  <2>1. Offset(p) \in Nat /\ Offset(p) = IF GroupBox!hasHeader(p) THEN 2 ELSE 0
    BY <1>2 DEF Offset
  <2>2. CASE a = First
    <3>1. Below(p, a) = Offset(p)
      BY <2>2, EarlierFacts
    <3> QED
      BY <2>1, <2>2, <3>1
  <2>3. CASE a # First
    <3>1. a \in Exists /\ item[a].parent = p
      <4>1. p \in DOMAIN children /\ children[p] \in Seq(Exists) /\ a \in ToSet(children[p])
        BY <2>3 DEF Tree
      <4>2. a \in Exists
        BY <4>1, ElementsIn
      <4> QED
        BY <4>1, <4>2 DEF Tree
    <3>2. Below(p, a) = Place(a) + Span(a) /\ Span(a) = 1
      BY <1>1, <2>3, EarlierFacts DEF Span
    <3>3. Place(a) = Index(children[p], a) + Offset(p) /\ Index(children[p], a) \in Nat
      BY <1>4, <3>1
    <3> QED
      BY <1>3, <2>1, <2>3, <3>2, <3>3
  <2> QED
    BY <2>2, <2>3
<1> QED
  BY <1>1, <1>5, <1>6

LEMMA ButtonRows ==
    ASSUME Tree, browser = "button"
    PROVE  /\ \A p : Offset(p) = 0
           /\ \A i \in Exists : Button!gridRow(i) = Place(i) /\ Button!gridSpan(i) = Span(i)
           /\ \A p \in Exists \cup {Root} : \A a \in ToSet(children[p]) \cup {First} :
                 (IF a = First THEN 0 ELSE Button!gridRow(a) + Button!gridSpan(a)) = Below(p, a)
<1>1. \A p : Offset(p) = 0
  BY DEF Offset
<1>2. \A i \in Exists : Button!gridSpan(i) = Span(i)
  BY DEF Button!gridSpan, Span, Wide
<1>3. ASSUME NEW i \in Exists PROVE Button!gridRow(i) = Place(i)
  <2> DEFINE s == children[item[i].parent]
             n == Index(s, i)
             K == {k \in 1 .. n : Button!gridSpan(s[k]) = 2}
             f == [k \in K |-> s[k]]
             B == Before(i) \cap Wide
  <2>1. s \in Seq(Exists) /\ Simple(s) /\ i \in ToSet(s)
    BY BeforeFacts
  <2>2. /\ IsFiniteSet(Before(i)) /\ Cardinality(Before(i)) = n
        /\ \A x : x \in Before(i) <=> \E k \in 1 .. n : s[k] = x
    <3>1. \A x : x \in Preceding(s, i) <=> \E k \in 1 .. n : s[k] = x
      BY DEF Preceding
    <3> QED
      BY <3>1, BeforeFacts DEF Before
  <2>3. n \in Nat /\ n < Len(s) /\ Len(s) \in Nat /\ DOMAIN s = 1 .. Len(s)
    <3>1. PICK m \in 1 .. Len(s) : s[m] = i
      BY <2>1, ElementsIn
    <3>2. Index(s, s[m]) = m - 1
      <4> HIDE DEF s, n
      <4>1. Ranked(s, m)
        BY <2>1, PrecedingIs
      <4> QED
        BY <4>1 DEF Ranked
    <3> QED
      BY <2>1, <3>1, <3>2
  <2>4. \A k \in 1 .. n : k \in 1 .. Len(s) /\ s[k] \in Exists
    BY <2>1, <2>3
  <2>5. K \subseteq 1 .. n /\ \A k \in 1 .. n : k \in K <=> s[k] \in Wide
    BY <1>2, <2>4 DEF Span
  <2>6. Button!gridRow(i) = n + Cardinality(K)
    <3>1. \A S : Button!Cardinality(S) = Cardinality(S)
      BY DEF Button!Cardinality, Cardinality, Button!IsFiniteSet, IsFiniteSet
    <3>2. Button!gridRow(i) = n + Button!Cardinality(K)
      BY DEF Button!gridRow, Button!Index, Index
    <3> QED
      BY <3>1, <3>2, Zenon
  <2> HIDE DEF K, B, s, n
  <2>7. Cardinality(K) = Cardinality(B)
    <3>1. f \in Bijection(K, B)
      <4>1. f \in [K -> B]
        BY <2>2, <2>5 DEF B
      <4>2. \A j, k \in K : f[j] = f[k] => j = k
        BY <2>1, <2>3, <2>4, <2>5 DEF Simple
      <4>3. \A x \in B : \E k \in K : f[k] = x
        BY <2>2, <2>5 DEF B
      <4> HIDE DEF f
      <4> QED
        BY <4>1, <4>2, <4>3 DEF Bijection, Injection, Surjection, IsInjective
    <3> HIDE DEF f
    <3>2. ExistsBijection(K, B)
      BY <3>1 DEF ExistsBijection
    <3>3. IsFiniteSet(K)
      <4>1. IsFiniteSet(1 .. n)
        BY <2>3, FS_Interval
      <4> QED
        BY <2>5, <4>1, FS_Subset
    <3> QED
      BY <3>2, <3>3, FS_Bijection
  <2>8. Cardinality(B) \in Nat
    BY <2>2, RowsNat DEF B
  <2>9. Place(i) = n + Cardinality(B)
    <3>1. Place(i) = (Cardinality(Before(i)) + Cardinality(Before(i) \cap Wide)) + 0
      BY <1>1 DEF Place, Rows
    <3>2. Cardinality(Before(i) \cap Wide) = Cardinality(B)
      BY DEF B
    <3> QED
      BY <2>2, <2>3, <2>8, <3>1, <3>2
  <2> QED
    BY <2>6, <2>7, <2>9
<1>4. ASSUME NEW p \in Exists \cup {Root}, NEW a \in ToSet(children[p]) \cup {First}
      PROVE  (IF a = First THEN 0 ELSE Button!gridRow(a) + Button!gridSpan(a)) = Below(p, a)
  <2>1. CASE a = First
    BY <1>1, <2>1, EarlierFacts
  <2>2. CASE a # First
    <3>1. a \in Exists
      <4>1. p \in DOMAIN children /\ children[p] \in Seq(Exists) /\ a \in ToSet(children[p])
        BY <2>2 DEF Tree
      <4> QED
        BY <4>1, ElementsIn
    <3>2. Below(p, a) = Place(a) + Span(a)
      BY <2>2, EarlierFacts
    <3> QED
      BY <1>2, <1>3, <2>2, <3>1, <3>2
  <2> QED
    BY <2>1, <2>2
<1> QED
  BY <1>1, <1>2, <1>3, <1>4

-----------------------------------------------------------------------------
(* Steps that the browsers have in common keep the invariant.              *)

\* An item goes that is not the last below an item.
LEMMA OneOfManyGoes ==
    ASSUME IInv, browser' = browser, NEW i, CanRemove(i), TreeWithout(i),
           NEW p, p = item[i].parent, p = Root \/ Len(children[p]) > 1,
           at' = Shift(Drop(at, WidgetsOf(i)), p, Place(i) + 1, -1),
           queue' = queue \ {i}, timer' = timer
    PROVE  IInv'
<1> DEFINE rest == Drop(at, WidgetsOf(i))
<1>1. Tree /\ LayoutsAgree /\ ItemsFit /\ Waiting
  BY DEF IInv
<1>2. /\ Tree'
      /\ i \in Exists /\ p \in Exists \cup {Root} /\ p # i
      /\ Exists' = Exists \ {i}
      /\ \A j \in Exists \ {i} :
            /\ Kept(j)
            /\ IF j = p /\ Len(children[p]) = 1
               THEN ~item'[j].box /\ ~item'[j].checked
               ELSE item'[j].box = item[j].box /\ item'[j].checked = item[j].checked
      /\ Len(children[p]) \in Nat \ {0}
      /\ children'[p] = <<>> <=> Len(children[p]) = 1
      /\ \A q \in DOMAIN children \ {p, i} : children'[q] = children[q]
      /\ \A j \in Exists : item[j].parent # i
  BY <1>1, TreeRemoved
<1>3. /\ Root \notin Exists /\ DOMAIN children = Exists \cup {Root} /\ i # First
      /\ \A j \in Exists : item[j].box \in BOOLEAN
  BY <1>1, <1>2, WidgetItemsAssumption DEF Tree, ItemType
<1>4. i \notin Wide
  <2>1. children[i] = <<>> /\ ItemFits(i)
    BY <1>1, <1>2 DEF CanRemove, ItemsFit
  <2> QED
    BY <2>1 DEF ItemFits, Wide
<1>0. p # Root => Len(children[p]) # 1
  <2>1. PICK n \in Nat \ {0} : n = Len(children[p])
    BY <1>2
  <2>2. p # Root => n > 1
    BY <2>1
  <2>3. n > 1 => n # 1
    OBVIOUS
  <2> QED
    BY <2>1, <2>2, <2>3
<1>5. \A j \in Exists \ {i} : item'[j].box = item[j].box /\ item'[j].checked = item[j].checked
  BY <1>2, <1>3, <1>0
<1>6. Wide' = Wide
  BY <1>2, <1>4, <1>5 DEF Wide, Kept
<1>7. /\ \A j \in Exists \ {i} : Moves(j, p, i, -1)
      /\ \A q \in (Exists \ {i}) \cup {Root} : Offset(q)' = Offset(q)
  BY <1>1, <1>4, <1>6, PlacesRemoved
<1>8. /\ DOMAIN rest = DOMAIN at \ WidgetsOf(i)
      /\ \A w \in DOMAIN rest : rest[w] = at[w]
  BY DEF Drop
<1>9. Agrees(rest) /\ \A w \in DOMAIN rest : w[1] \in Exists \ {i}
  BY <1>1, <1>8 DEF LayoutsAgree, Agrees
<1>10. i \in ToSet(children[p]) \cup {First} /\ Below(p, i) = Place(i) + 1
  <2>1. i \in ToSet(children[p])
    BY <1>1, <1>2, BeforeFacts
  <2>2. Below(p, i) = Place(i) + Span(i) /\ Span(i) = 1
    BY <1>1, <1>2, <1>3, <1>4, <2>1, EarlierFacts DEF Span
  <2> QED
    BY <2>1, <2>2
<1> HIDE DEF rest
<1>11. at' = Put(Shift(rest, p, Below(p, i), -1), {}, 0)
  <2>1. at' = Shift(rest, p, Below(p, i), -1)
    BY <1>10 DEF rest
  <2> QED
    BY <2>1 DEF Put, Shift
<1>12. LayoutsAgree'
  <2>1. Staying(rest, p, i, -1)
    BY <1>2, <1>6, <1>7, <1>9 DEF Staying, Agrees
  <2>2. Coming({}, 0)
    BY DEF Coming
  <2> QED
    BY <1>1, <1>2, <1>9, <1>10, <1>11, <2>1, <2>2, RowsMoved
<1>13. \A j \in Exists \ {i} : \A k : Has(j, k)' <=> Has(j, k)
  <2>1. DOMAIN at' = DOMAIN rest
    BY <1>11 DEF Put, Shift
  <2> QED
    BY <1>8, <2>1 DEF Has, WidgetsOf
<1>14. ASSUME NEW j \in Exists \ {i} PROVE ItemFits(j)'
  <2>2. ItemFits(j) /\ (item'[j].box = item[j].box) /\ (item'[j].checked = item[j].checked)
    BY <1>1, <1>5 DEF ItemsFit
  <2>3. children'[j] # <<>> <=> children[j] # <<>>
    <3>1. CASE j = p
      <4>1. Len(children[p]) # 1
        BY <1>3, <1>0, <3>1
      <4>2. children[p] # <<>>
        BY <1>2
      <4> QED
        BY <1>2, <3>1, <4>1, <4>2
    <3>2. CASE j # p
      BY <1>2, <1>3, <3>2
    <3> QED
      BY <3>1, <3>2
  <2> QED
    BY <1>2, <1>13, <2>2, <2>3 DEF ItemFits, Kept
<1>15. Waiting'
  BY <1>1, <1>2 DEF Waiting
<1> QED
  BY <1>2, <1>12, <1>14, <1>15 DEF IInv, ItemsFit

\* The last item below p goes, and the widgets of p as a box with it.
LEMMA LastOneGoes ==
    ASSUME IInv, browser' = browser, NEW i, CanRemove(i), TreeWithout(i),
           NEW p, p = item[i].parent, p # Root, ~(Len(children[p]) > 1),
           \A j \in Exists \ {i} : \A k :
               Has(j, k)' <=> Has(j, k) /\ ~(j = p /\ k \in {"box", "container"} \cup InBox),
           LayoutsAgree', queue' = Requeue(p, i), timer' = TRUE
    PROVE  IInv'
<1>1. Tree /\ LayoutsAgree /\ ItemsFit /\ Waiting
  BY DEF IInv
<1>2. /\ Tree'
      /\ i \in Exists /\ p \in Exists /\ p # i /\ Len(children[p]) = 1
      /\ Exists' = Exists \ {i}
      /\ \A j \in Exists \ {i} :
            /\ Kept(j)
            /\ IF j = p /\ Len(children[p]) = 1
               THEN ~item'[j].box /\ ~item'[j].checked
               ELSE item'[j].box = item[j].box /\ item'[j].checked = item[j].checked
      /\ children'[p] = <<>> <=> Len(children[p]) = 1
      /\ \A q \in DOMAIN children \ {p, i} : children'[q] = children[q]
  <2>1. Len(children[p]) \in Nat \ {0}
    BY <1>1, TreeRemoved
  <2>3. PICK n \in Nat \ {0} : n = Len(children[p])
    BY <2>1
  <2>4. ~(n > 1)
    BY <2>3
  <2>5. n = 1
    BY <2>4
  <2>2. Len(children[p]) = 1
    BY <2>3, <2>5
  <2> QED
    BY <1>1, <2>2, TreeRemoved
<1>3. DOMAIN children = Exists \cup {Root} /\ children[p] # <<>>
  <2>1. Len(<<>>) # 1
    OBVIOUS
  <2> QED
    BY <1>1, <1>2, <2>1 DEF Tree
<1>4. queue' = (queue \cup {p}) \ {i}
  BY DEF Requeue
<1>5. ASSUME NEW j \in Exists \ {i} PROVE ItemFits(j)'
  <2>1. ItemFits(j)
    BY <1>1 DEF ItemsFit
  <2>2. CASE j = p
    BY <1>2, <1>3, <1>4, <2>1, <2>2 DEF ItemFits, Kept, InBox
  <2>3. CASE j # p
    BY <1>2, <1>3, <1>4, <2>1, <2>3 DEF ItemFits, Kept, InBox
  <2> QED
    BY <2>2, <2>3
<1>6. Waiting'
  BY <1>1, <1>2, <1>4 DEF Waiting
<1> QED
  BY <1>2, <1>5, <1>6 DEF IInv, ItemsFit

\* The items in the queue get their widgets K.
LEMMA QueueServed ==
    ASSUME IInv, browser' = browser, children' = children, item' = item,
           NEW K \in SUBSET {"label", "cell"}, "label" \in K,
           browser = "groupBox" => "cell" \in K,
           DOMAIN at' = DOMAIN at \cup (queue \X K),
           \A w \in queue \X K : at'[w] = Place(w[1]),
           \A w \in DOMAIN at \ (queue \X K) : at'[w] = at[w],
           queue' = {}
    PROVE  IInv'
<1>1. Tree /\ LayoutsAgree /\ ItemsFit /\ Waiting
  BY DEF IInv
<1>2. Tree' /\ Exists' = Exists
  BY <1>1 DEF Tree, ItemType, Exists
<1>3. \A j : Place(j)' = Place(j) /\ Offset(j)' = Offset(j)
  BY <1>2 DEF Place, Offset, Before, Wide
<1>4. Wide' = Wide
  BY <1>2 DEF Wide
<1>5. LayoutsAgree'
  <2> DEFINE ws == queue \X K
  <2>1. \A w \in DOMAIN at : w[1] \in Exists /\ (w[2] = "container" => w[1] \in Wide)
                           /\ (w[2] \in InBox => Offset(w[1]) = 2)
    BY <1>1 DEF LayoutsAgree, Agrees
  <2>2. \A w \in ws : /\ w[1] \in Exists /\ w \in WidgetsOf(w[1])
                      /\ w[2] \notin InBox /\ w[2] # "container"
                      /\ w[2] # "header" /\ w[2] # "line"
    <3>1. ASSUME NEW j \in queue, NEW k \in K
          PROVE  /\ j \in Exists /\ <<j, k>> \in WidgetsOf(j)
                 /\ k \notin InBox /\ k # "container" /\ k # "header" /\ k # "line"
      BY <1>1 DEF Waiting, WidgetsOf, InBox
    <3>2. \A w \in ws : w[1] \in queue /\ w[2] \in K /\ w = <<w[1], w[2]>>
      OBVIOUS
    <3> HIDE DEF ws
    <3> QED
      BY <3>1, <3>2
  <2>3. \A w \in ws : at'[w] = RowOf(w)'
    BY <1>3, <2>2 DEF RowOf
  <2> HIDE DEF ws
  <2>4. DOMAIN at' = DOMAIN at \cup ws /\ \A w \in DOMAIN at \ ws : at'[w] = at[w]
    BY DEF ws
  <2>5. Resting(at, ws)
    BY <1>2, <1>3, <1>4, <2>1, <2>2, <2>3, <2>4 DEF Resting
  <2> QED
    BY <1>1, <2>5, RowsStay DEF LayoutsAgree
<1>6. \A j, k : Has(j, k)' <=> Has(j, k) \/ (j \in queue /\ k \in K)
  BY DEF Has
<1>7. ASSUME NEW j \in Exists PROVE ItemFits(j)'
  <2>1. ItemFits(j)
    BY <1>1 DEF ItemsFit
  <2> QED
    BY <1>6, <2>1 DEF ItemFits
<1>8. Waiting'
  BY DEF Waiting
<1> QED
  BY <1>2, <1>5, <1>7, <1>8 DEF IInv, ItemsFit

LEMMA Unchanged ==
    ASSUME IInv, UNCHANGED vars
    PROVE  IInv'
<1> USE DEF vars, itemVars
<1>1. Tree' /\ Exists' = Exists /\ browser' = browser
  BY DEF IInv, Tree, ItemType, Exists
<1>2. LayoutsAgree'
  <2>1. Wide' = Wide /\ \A j : Place(j)' = Place(j) /\ Offset(j)' = Offset(j)
    BY <1>1 DEF Place, Offset, Before, Wide
  <2>2. Resting(at, {})
    BY <1>1, <2>1 DEF IInv, LayoutsAgree, Agrees, Resting
  <2> QED
    BY <2>2, RowsStay DEF IInv, LayoutsAgree
<1>3. ASSUME NEW j \in Exists PROVE ItemFits(j)'
  <2>1. ItemFits(j)
    BY DEF IInv, ItemsFit
  <2>2. \A k : Has(j, k)' <=> Has(j, k)
    BY DEF Has
  <2> QED
    BY <2>1, <2>2 DEF ItemFits
<1>4. Waiting'
  BY <1>1 DEF IInv, Waiting
<1> QED
  BY <1>1, <1>2, <1>3, <1>4 DEF IInv, ItemsFit

\* An editor that is in the row of its item goes.
LEMMA EditorGoes ==
    ASSUME IInv, browser' = browser, NEW i \in Exists, browser = "groupBox" => ~item[i].box,
           item' = [item EXCEPT ![i].editor = FALSE],
           at' = Drop(at, {<<i, "cell">>}),
           UNCHANGED <<children, queue, timer>>
    PROVE  IInv'
<1>1. Tree /\ LayoutsAgree /\ ItemsFit /\ Waiting
  BY DEF IInv
<1> DEFINE m == item'
<1>2. /\ DOMAIN m = Exists
      /\ \A j \in Exists :
            /\ m[j] \in ItemType
            /\ m[j].parent = item[j].parent /\ m[j].box = item[j].box
            /\ m[j].expanded = item[j].expanded /\ m[j].checked = item[j].checked
            /\ m[j].editor = IF j = i THEN FALSE ELSE item[j].editor
  <2>1. item \in [Exists -> ItemType]
    BY <1>1 DEF Tree
  <2> QED
    BY <2>1 DEF ItemType, Exists
<1> HIDE DEF m
<1>3. Tree' /\ Exists' = Exists
  <2>1. Exists' = Exists
    BY <1>2 DEF Exists, m
  <2>2. m \in [Exists -> ItemType]
    BY <1>1, <1>2 DEF Tree, Exists, m
  <2> QED
    BY <1>1, <1>2, <2>1, <2>2 DEF Tree, ItemType, m
<1>4. Wide' = Wide
  BY <1>2, <1>3 DEF Wide, m
<1>5. \A q \in (Exists \cup {Root}) \ {i} : Offset(q)' = Offset(q)
  BY <1>2 DEF Offset, m
<1>6. \A j \in Exists : Before(j)' = Before(j)
  BY <1>2 DEF Before, m
<1>7. browser = "groupBox" => children[i] = <<>>
  BY <1>1 DEF ItemsFit, ItemFits
<1>8. ASSUME NEW j \in Exists PROVE Place(j)' = Place(j)
  <2>1. PICK q \in Exists \cup {Root} : q = item[j].parent
    BY <1>1, BeforeFacts
  <2>2. Offset(q)' = Offset(q)
    <3>1. CASE browser = "groupBox"
      <4>1. j \in ToSet(children[q])
        BY <1>1, <2>1, BeforeFacts
      <4>2. ToSet(<<>>) = {}
        BY DEF ToSet
      <4> QED
        BY <1>5, <1>7, <2>1, <3>1, <4>1, <4>2
    <3>2. CASE browser # "groupBox"
      BY <3>2 DEF Offset
    <3> QED
      BY <3>1, <3>2
  <2> QED
    BY <1>1, <1>2, <1>4, <1>6, <2>1, <2>2, PlacesWiden DEF m
<1>9. \A j, k : Has(j, k)' <=> Has(j, k) /\ ~(j = i /\ k = "cell")
  BY DEF Has, Drop
<1>10. LayoutsAgree'
  <2>1. \A w \in DOMAIN at : /\ w[1] \in Exists /\ w \in WidgetsOf(w[1])
                             /\ w[2] = "container" => w[1] \in Wide
                             /\ w[2] \in InBox => Offset(w[1]) = 2
    BY <1>1 DEF LayoutsAgree, Agrees
  <2>2. DOMAIN at' = DOMAIN at \ {<<i, "cell">>} /\ \A w \in DOMAIN at' : at'[w] = at[w]
    BY DEF Drop
  <2>3. \A w \in DOMAIN at : w[2] \in InBox => w[1] # i
    <3>1. ItemFits(i)
      BY <1>1 DEF ItemsFit
    <3>2. browser = "groupBox" => ~Has(i, "header") /\ ~Has(i, "line")
      BY <3>1 DEF ItemFits
    <3>3. Offset(i) = 2 => browser = "groupBox"
      BY DEF Offset
    <3> QED
      BY <2>1, <3>2, <3>3 DEF Has, InBox, WidgetsOf
  <2> DEFINE new == at'
             rows == Drop(at, {<<i, "cell">>})
  <2>4. Agrees(rows) /\ DOMAIN rows = DOMAIN at \ {<<i, "cell">>}
    BY <1>1 DEF LayoutsAgree, Agrees, Drop
  <2>5. at' = rows
    OBVIOUS
  <2> HIDE DEF rows
  <2>6. \A w \in DOMAIN rows : /\ w[1] \in Exists
                               /\ w[2] = "container" => w[1] \in Wide
                               /\ w[2] \in InBox => Offset(w[1])' = 2
    BY <1>5, <2>1, <2>3, <2>4
  <2>7. Resting(rows, {})
    BY <1>3, <1>4, <1>8, <2>5, <2>6 DEF Resting
  <2> QED
    BY <2>4, <2>7, RowsStay
<1>11. ASSUME NEW j \in Exists PROVE ItemFits(j)'
  <2>1. ItemFits(j)
    BY <1>1 DEF ItemsFit
  <2> QED
    BY <1>2, <1>9, <2>1 DEF ItemFits, m
<1>12. Waiting'
  BY <1>1, <1>3 DEF Waiting
<1> QED
  BY <1>3, <1>10, <1>11, <1>12 DEF IInv, ItemsFit

-----------------------------------------------------------------------------
(* The group box browser keeps the invariant.                              *)

LEMMA GroupBoxOperators ==
    /\ \A rows, ws, r : GroupBox!Put(rows, ws, r) = Put(rows, ws, r)
    /\ \A rows, ws : GroupBox!Drop(rows, ws) = Drop(rows, ws)
    /\ \A rows, q, f : GroupBox!insertRow(rows, q, f) = Shift(rows, q, f, 1)
    /\ \A rows, q, f : GroupBox!removeRow(rows, q, f) = Shift(rows, q, f + 1, -1)
    /\ \A i : GroupBox!WidgetsOf(i) = WidgetsOf(i)
    /\ GroupBox!Exists = Exists
    /\ \A i, p, after : GroupBox!CanInsert(i, p, after) <=> CanInsert(i, p, after)
    /\ \A i : GroupBox!CanRemove(i) <=> CanRemove(i)
BY DEF GroupBox!Put, Put, GroupBox!Drop, Drop, GroupBox!insertRow, GroupBox!removeRow,
       GroupBox!Shift, Shift, GroupBox!Layout, Layout, GroupBox!WidgetsOf, WidgetsOf,
       GroupBox!Exists, Exists, GroupBox!CanInsert, CanInsert, GroupBox!ToSet, ToSet,
       GroupBox!CanRemove, CanRemove

LEMMA GroupBoxTree ==
    ASSUME NEW i, NEW p, NEW after, NEW editor
    PROVE  /\ GroupBox!TreeWith(i, p, after, editor) <=> TreeWith(i, p, after, editor)
           /\ GroupBox!TreeWithout(i) <=> TreeWithout(i)
BY DEF GroupBox!TreeWith, TreeWith, GroupBox!TreeWithout, TreeWithout, GroupBox!Exists, Exists,
       GroupBox!Index, Index, GroupBox!InsertAt, InsertAt, GroupBox!RemoveAt, RemoveAt,
       GroupBox!Without, Without

LEMMA GroupBoxInserts ==
    ASSUME IInv, browser = "groupBox", browser' = browser, NEW i, NEW p, NEW after,
           NEW editor \in BOOLEAN, GroupBox!propertyInserted(i, p, after, editor)
    PROVE  IInv'
<1> DEFINE new == p # Root /\ ~item[p].box
           rest == Drop(at, {<<p, "label">>, <<p, "cell">>})
           headed == Put(rest, {<<p, "header">>}, 0)
           head == IF item[p].editor THEN Put(headed, {<<p, "line">>}, 1) ELSE rest
           boxed == Put(head, {<<p, "box">>}, Place(p))
           old == IF new THEN boxed ELSE at
           row == Below(p, after)
           ws == {<<i, "label">>, <<i, "cell">>}
<1>1. Tree /\ LayoutsAgree /\ ItemsFit /\ Waiting
  BY DEF IInv
<1>2. /\ CanInsert(i, p, after) /\ TreeWith(i, p, after, editor)
      /\ queue' = (IF new THEN queue \ {p} ELSE queue) /\ timer' = timer
  BY GroupBoxOperators, GroupBoxTree DEF GroupBox!propertyInserted
<1>3. /\ Tree'
      /\ i \in Item \ Exists /\ p \in Exists \cup {Root} /\ p # i
      /\ Exists' = Exists \cup {i}
      /\ item'[i] = [parent |-> p, editor |-> editor, box |-> FALSE,
                     expanded |-> FALSE, checked |-> FALSE]
      /\ \A j \in Exists : /\ Kept(j) /\ item'[j].checked = item[j].checked
                           /\ item'[j].box = (item[j].box \/ j = p)
      /\ children'[i] = <<>> /\ children'[p] # <<>>
      /\ \A q \in DOMAIN children \ {p} : children'[q] = children[q]
  BY <1>1, <1>2, TreeInserted
<1>4. /\ item'[i].editor = editor /\ ~item'[i].box /\ ~item'[i].checked
      /\ Root \notin Exists /\ after \in ToSet(children[p]) \cup {First}
      /\ DOMAIN children = Exists \cup {Root}
  BY <1>1, <1>2, <1>3, WidgetItemsAssumption DEF CanInsert, Tree
<1>5. Wide = {} /\ Wide' = Wide
  BY DEF Wide
<1>6. /\ Place(i)' = row
      /\ \A j \in Exists : Moves(j, p, after, 1)
      /\ \A q \in Exists \cup {Root} : Offset(q)' = Offset(q)
  BY <1>1, <1>2, <1>5, PlacesInserted
<1>7. at' = Put(Shift(old, p, row, 1), ws, row)
  <2>1. (IF after = First THEN 0 ELSE GroupBox!Index(children[p], after) + 1)
           + (IF GroupBox!hasHeader(p) THEN 2 ELSE 0) = row
    BY <1>1, <1>3, <1>4, GroupBoxRows
  <2>2. p # Root => GroupBox!Boxed(p) = boxed
    BY <1>1, <1>3, GroupBoxRows, GroupBoxOperators DEF GroupBox!Boxed
  <2>3. (IF new THEN GroupBox!Boxed(p) ELSE at) = old
    BY <2>2
  <2> DEFINE r == (IF after = First THEN 0 ELSE GroupBox!Index(children[p], after) + 1)
                     + (IF GroupBox!hasHeader(p) THEN 2 ELSE 0)
             o == IF new THEN GroupBox!Boxed(p) ELSE at
  <2>4. at' = GroupBox!Put(GroupBox!insertRow(o, p, r), ws, r)
    BY DEF GroupBox!propertyInserted
  <2>5. r = row /\ o = old
    BY <2>1, <2>3
  <2> HIDE DEF old, row, ws, r, o
  <2>6. GroupBox!Put(GroupBox!insertRow(o, p, r), ws, r) = Put(Shift(o, p, r, 1), ws, r)
    BY GroupBoxOperators
  <2> QED
    BY <2>4, <2>5, <2>6
<1> HIDE DEF ws, row
<1>8. /\ \A w : w \in DOMAIN old =>
             \/ w \in DOMAIN at /\ old[w] = at[w]
             \/ new /\ w = <<p, "box">> /\ old[w] = Place(p)
             \/ new /\ w = <<p, "header">> /\ old[w] = 0 /\ item[p].editor
             \/ new /\ w = <<p, "line">> /\ old[w] = 1 /\ item[p].editor
      /\ \A w : w \in DOMAIN old <=>
             \/ w \in DOMAIN at /\ ~(new /\ w \in {<<p, "label">>, <<p, "cell">>})
             \/ new /\ w = <<p, "box">>
             \/ new /\ item[p].editor /\ w \in {<<p, "header">>, <<p, "line">>}
  <2>2. /\ DOMAIN rest = DOMAIN at \ {<<p, "label">>, <<p, "cell">>}
        /\ \A w \in DOMAIN rest : rest[w] = at[w]
    BY DEF Drop
  <2> HIDE DEF rest
  <2>3. /\ DOMAIN headed = DOMAIN rest \cup {<<p, "header">>}
        /\ \A w \in DOMAIN headed : headed[w] = IF w = <<p, "header">> THEN 0 ELSE rest[w]
    BY DEF Put
  <2> HIDE DEF headed
  <2>4. IF item[p].editor
        THEN /\ DOMAIN head = DOMAIN headed \cup {<<p, "line">>}
             /\ \A w \in DOMAIN head : head[w] = IF w = <<p, "line">> THEN 1 ELSE headed[w]
        ELSE head = rest
    BY DEF Put
  <2> HIDE DEF head
  <2>5. /\ DOMAIN boxed = DOMAIN head \cup {<<p, "box">>}
        /\ \A w \in DOMAIN boxed : boxed[w] = IF w = <<p, "box">> THEN Place(p) ELSE head[w]
    BY DEF Put
  <2> HIDE DEF boxed
  <2>6. CASE ~new
    BY <2>6
  <2>7. CASE new /\ item[p].editor
    BY <2>2, <2>3, <2>4, <2>5, <2>7
  <2>8. CASE new /\ ~item[p].editor
    BY <2>2, <2>4, <2>5, <2>8
  <2> HIDE DEF old, new
  <2> QED
    BY <2>6, <2>7, <2>8
<1>9. Agrees(old)
  <2> SUFFICES ASSUME NEW w \in DOMAIN old
               PROVE  /\ w[1] \in Exists /\ w \in WidgetsOf(w[1])
                      /\ old[w] = RowOf(w)
                      /\ w[2] = "container" => w[1] \in Wide
                      /\ w[2] \in InBox => Offset(w[1]) = 2
    BY DEF Agrees
  <2>1. w \in DOMAIN at /\ old[w] = at[w] =>
           /\ w[1] \in Exists /\ w \in WidgetsOf(w[1])
           /\ old[w] = RowOf(w)
           /\ w[2] = "container" => w[1] \in Wide
           /\ w[2] \in InBox => Offset(w[1]) = 2
    BY <1>1 DEF LayoutsAgree, Agrees
  <2>2. new => p \in Exists
    BY <1>3
  <2>3. new /\ item[p].editor => Offset(p) = 2
    BY DEF Offset
  <2> HIDE DEF new, old
  <2>4. new /\ w = <<p, "box">> /\ old[w] = Place(p) =>
           w[1] = p /\ w[2] = "box" /\ w \in WidgetsOf(p) /\ old[w] = RowOf(w)
    BY DEF RowOf, WidgetsOf
  <2>5. new /\ w = <<p, "header">> /\ old[w] = 0 =>
           w[1] = p /\ w[2] = "header" /\ w \in WidgetsOf(p) /\ old[w] = RowOf(w)
    BY DEF RowOf, WidgetsOf
  <2>6. new /\ w = <<p, "line">> /\ old[w] = 1 =>
           w[1] = p /\ w[2] = "line" /\ w \in WidgetsOf(p) /\ old[w] = RowOf(w)
    BY DEF RowOf, WidgetsOf
  <2> QED
    BY <1>8, <2>1, <2>2, <2>3, <2>4, <2>5, <2>6 DEF InBox
<1> HIDE DEF old
<1>10. LayoutsAgree'
  <2>1. Staying(old, p, after, 1)
    BY <1>3, <1>5, <1>6, <1>9 DEF Staying, Agrees
  <2>2. Coming(ws, row)
    BY <1>3, <1>6 DEF Coming, ws, WidgetsOf, InBox, RowOf
  <2> QED
    BY <1>1, <1>3, <1>4, <1>7, <1>9, <2>1, <2>2, RowsMoved DEF row
<1>11. \A j, k : Has(j, k)' <=>
             \/ Has(j, k) /\ ~(new /\ j = p /\ k \in {"label", "cell"})
             \/ new /\ j = p /\ k = "box"
             \/ new /\ item[p].editor /\ j = p /\ k \in {"header", "line"}
             \/ j = i /\ k \in {"label", "cell"}
  <2>1. DOMAIN at' = DOMAIN old \cup ws
    BY <1>7 DEF Put, Shift
  <2> HIDE DEF new
  <2> QED
    BY <1>8, <2>1 DEF ws, Has
<1>12. \A k : ~Has(i, k)
  BY <1>1, <1>3 DEF LayoutsAgree, Agrees, Has
<1>13. ASSUME NEW j \in Exists \cup {i} PROVE ItemFits(j)'
  <2>1. CASE j = i
    <3>1. i \notin queue'
      BY <1>1, <1>2, <1>3 DEF Waiting
    <3> QED
      BY <1>3, <1>4, <1>11, <1>12, <2>1, <3>1 DEF ItemFits
  <2>2. CASE j # i
    <3>1. j \in Exists /\ ItemFits(j) /\ item[j].box \in BOOLEAN
      BY <1>1, <2>2 DEF ItemsFit, Tree, ItemType
    <3>2. CASE j = p
      BY <1>2, <1>3, <1>4, <1>11, <2>2, <3>1, <3>2 DEF ItemFits, Kept
    <3>3. CASE j # p
      BY <1>2, <1>3, <1>4, <1>11, <2>2, <3>1, <3>3 DEF ItemFits, Kept
    <3> QED
      BY <3>2, <3>3
  <2> QED
    BY <2>1, <2>2
<1>14. Waiting'
  BY <1>1, <1>2, <1>3 DEF Waiting
<1> QED
  BY <1>3, <1>10, <1>13, <1>14 DEF IInv, ItemsFit

LEMMA GroupBoxRemoves ==
    ASSUME IInv, browser = "groupBox", browser' = browser, NEW i, GroupBox!propertyRemoved(i)
    PROVE  IInv'
<1> DEFINE rest == Drop(at, WidgetsOf(i))
<1>1. Tree /\ LayoutsAgree /\ ItemsFit /\ Waiting
  BY DEF IInv
<1>2. PICK p : p = item[i].parent
  OBVIOUS
<1>3. CanRemove(i) /\ TreeWithout(i)
  BY GroupBoxOperators, GroupBoxTree DEF GroupBox!propertyRemoved
<1>4. i \in Exists /\ GroupBox!Row(i) = Place(i)
  BY <1>1, <1>3, GroupBoxRows DEF CanRemove
<1>5. CASE p = Root \/ Len(children[p]) > 1
  <2>1. /\ at' = Shift(rest, p, Place(i) + 1, -1)
        /\ queue' = queue \ {i} /\ timer' = timer
    <3>1. /\ at' = GroupBox!removeRow(GroupBox!Drop(at, GroupBox!WidgetsOf(i)), p, GroupBox!Row(i))
          /\ queue' = queue \ {i} /\ timer' = timer
      BY <1>2, <1>5 DEF GroupBox!propertyRemoved
    <3> QED
      BY <1>4, <3>1, GroupBoxOperators
  <2> QED
    BY <1>2, <1>3, <1>5, <2>1, OneOfManyGoes
<1>6. CASE ~(p = Root \/ Len(children[p]) > 1)
  <2> DEFINE ws == {<<p, "box">>, <<p, "header">>, <<p, "line">>}
             rows == Drop(rest, ws)
  <2>1. at' = rows /\ queue' = Requeue(p, i) /\ timer' = TRUE
    <3>1. /\ at' = GroupBox!Drop(GroupBox!Drop(at, GroupBox!WidgetsOf(i)), ws)
          /\ queue' = GroupBox!Requeue(p, i) /\ timer' = TRUE
      BY <1>2, <1>6 DEF GroupBox!propertyRemoved
    <3>2. GroupBox!Requeue(p, i) = Requeue(p, i)
      BY DEF GroupBox!Requeue, Requeue
    <3> HIDE DEF ws
    <3> QED
      BY <3>1, <3>2, GroupBoxOperators
  <2>2. /\ DOMAIN rows = (DOMAIN at \ WidgetsOf(i)) \ ws
        /\ \A w \in DOMAIN rows : rows[w] = at[w]
    BY DEF Drop
  <2>3. /\ i \in Exists /\ p \in Exists /\ p # i
        /\ Exists' = Exists \ {i}
        /\ \A j \in Exists \ {i} : /\ Kept(j) /\ item[j].parent # i
                                   /\ Before(j)' = Before(j) \ {i}
        /\ \A j \in Exists \ {i} : item[j].parent # p
    <3>1. Len(children[p]) \in Nat \ {0}
      BY <1>1, <1>2, <1>3, TreeRemoved
    <3>2. PICK n \in Nat \ {0} : n = Len(children[p])
      BY <3>1
    <3>0. ~(n > 1)
      BY <1>6, <3>2
    <3>3. n = 1
      BY <3>0
    <3>4. /\ i \in Exists /\ item[i].parent \in Exists \cup {Root} /\ item[i].parent # i
          /\ Exists' = Exists \ {i}
          /\ \A j \in Exists \ {i} : Kept(j)
          /\ \A j \in Exists : item[j].parent # i
          /\ \A j \in Exists \ {i} : Before(j)' = Before(j) \ {i}
          /\ Len(children[item[i].parent]) = 1 =>
                \A j \in Exists \ {i} : item[j].parent # item[i].parent
      BY <1>1, <1>3, TreeRemoved
    <3> QED
      BY <1>2, <1>6, <3>2, <3>3, <3>4
  <2>4. Wide = {} /\ Wide' = {}
    BY DEF Wide
  <2>5. \A q \in (Exists \ {i}) \cup {Root} : Offset(q)' = Offset(q)
    BY <1>1, <1>3, <2>4, PlacesRemoved
  <2>6. ASSUME NEW j \in Exists \ {i} PROVE Place(j)' = Place(j)
    <3>1. PICK q : q = item[j].parent
      OBVIOUS
    <3>2. q \in (Exists \ {i}) \cup {Root} /\ item'[j].parent = q
      BY <1>1, <2>3, <3>1, BeforeFacts DEF Kept
    <3>3. Before(j)' = Before(j)
      <4>1. i \notin Before(j)
        BY <1>1, <1>2, <2>3, BeforeFacts
      <4>2. Before(j)' = Before(j) \ {i}
        BY <2>3
      <4> QED
        BY <4>1, <4>2
    <3>4. Offset(q)' = Offset(q)
      BY <2>5, <3>2
    <3> QED
      BY <1>1, <2>4, <3>1, <3>2, <3>3, <3>4, PlacesWiden
  <2> HIDE DEF rows
  <2>7. /\ Agrees(rows) /\ \A w \in DOMAIN rows : w[1] \in Exists \ {i}
        /\ \A w \in DOMAIN rows : w[2] # "container"
        /\ \A w \in DOMAIN rows : w[2] \in InBox => Offset(w[1]) = 2
    BY <1>1, <2>2, <2>4 DEF LayoutsAgree, Agrees
  <2>8. LayoutsAgree'
    <3>1. Resting(rows, {})
      BY <2>1, <2>3, <2>5, <2>6, <2>7 DEF Resting
    <3> QED
      BY <2>7, <3>1, RowsStay
  <2>9. \A j \in Exists \ {i} : \A k :
            Has(j, k)' <=> Has(j, k) /\ ~(j = p /\ k \in {"box", "container"} \cup InBox)
    <3>1. \A j \in Exists \ {i} : \A k : <<j, k>> \notin WidgetsOf(i)
      BY DEF WidgetsOf
    <3>2. ~Has(p, "container")
      BY <1>1, <2>4 DEF LayoutsAgree, Agrees, Has
    <3> QED
      BY <2>1, <2>2, <3>1, <3>2 DEF Has, InBox
  <2> QED
    BY <1>2, <1>3, <1>6, <2>1, <2>8, <2>9, LastOneGoes
<1> QED
  BY <1>5, <1>6

LEMMA GroupBoxUpdates ==
    ASSUME IInv, browser = "groupBox", browser' = browser, GroupBox!slotUpdate
    PROVE  IInv'
<1> DEFINE K == {"label", "cell"}
           ws == queue \X K
<1>1. at' = [w \in DOMAIN at \cup ws |-> IF w \in ws THEN GroupBox!Row(w[1]) ELSE at[w]]
  BY DEF GroupBox!slotUpdate
<1>2. \A w \in ws : w[1] \in Exists
  BY DEF IInv, Waiting
<1>3. \A w \in ws : GroupBox!Row(w[1]) = Place(w[1])
  BY <1>2, GroupBoxRows DEF IInv
<1>4. children' = children /\ item' = item /\ queue' = {}
  BY DEF GroupBox!slotUpdate
<1>5. K \in SUBSET {"label", "cell"} /\ "label" \in K /\ "cell" \in K
  OBVIOUS
<1> HIDE DEF K
<1>6. /\ DOMAIN at' = DOMAIN at \cup ws
      /\ \A w \in ws : at'[w] = Place(w[1])
      /\ \A w \in DOMAIN at \ ws : at'[w] = at[w]
  BY <1>1, <1>3
<1> QED
  BY <1>4, <1>5, <1>6, QueueServed

LEMMA GroupBoxEditorGoes ==
    ASSUME IInv, browser = "groupBox", browser' = browser, ~HeadersDie, NEW i,
           GroupBox!slotEditorDestroyed(i)
    PROVE  IInv'
<1>1. /\ i \in Exists /\ ~item[i].box
      /\ item' = [item EXCEPT ![i].editor = FALSE]
      /\ at' = Drop(at, {<<i, "cell">>})
      /\ UNCHANGED <<children, queue, timer>>
  BY GroupBoxOperators DEF GroupBox!slotEditorDestroyed
<1> QED
  BY <1>1, EditorGoes

-----------------------------------------------------------------------------
(* The button browser keeps the invariant.                                 *)

LEMMA ButtonOperators ==
    /\ \A rows, ws, r : Button!Put(rows, ws, r) = Put(rows, ws, r)
    /\ \A rows, ws : Button!Drop(rows, ws) = Drop(rows, ws)
    /\ \A rows, q, f : Button!insertRow(rows, q, f) = Shift(rows, q, f, 1)
    /\ \A rows, q, f : Button!removeRow(rows, q, f) = Shift(rows, q, f + 1, -1)
    /\ \A i : Button!WidgetsOf(i) = WidgetsOf(i)
    /\ Button!Exists = Exists
    /\ \A i, p, after : Button!CanInsert(i, p, after) <=> CanInsert(i, p, after)
    /\ \A i : Button!CanRemove(i) <=> CanRemove(i)
BY DEF Button!Put, Put, Button!Drop, Drop, Button!insertRow, Button!removeRow,
       Button!Shift, Shift, Button!Layout, Layout, Button!WidgetsOf, WidgetsOf,
       Button!Exists, Exists, Button!CanInsert, CanInsert, Button!ToSet, ToSet,
       Button!CanRemove, CanRemove

LEMMA ButtonTree ==
    ASSUME NEW i, NEW p, NEW after, NEW editor
    PROVE  /\ Button!TreeWith(i, p, after, editor) <=> TreeWith(i, p, after, editor)
           /\ Button!TreeWithout(i) <=> TreeWithout(i)
BY DEF Button!TreeWith, TreeWith, Button!TreeWithout, TreeWithout, Button!Exists, Exists,
       Button!Index, Index, Button!InsertAt, InsertAt, Button!RemoveAt, RemoveAt,
       Button!Without, Without

LEMMA ButtonInserts ==
    ASSUME IInv, browser = "button", browser' = browser, ~ReusesExpanded, NEW i, NEW p,
           NEW after, NEW cell, NEW editor \in BOOLEAN,
           Button!propertyInserted(i, p, after, cell, editor)
    PROVE  IInv'
<1> DEFINE new == p # Root /\ ~item[p].box
           rest == Drop(at, {<<p, "label">>})
           boxed == Put(rest, {<<p, "box">>}, Place(p))
           old == IF new THEN boxed ELSE at
           row == Below(p, after)
           ws == {<<i, "label">>} \cup IF cell THEN {<<i, "cell">>} ELSE {}
<1>1. Tree /\ LayoutsAgree /\ ItemsFit /\ Waiting
  BY DEF IInv
<1>2. /\ CanInsert(i, p, after) /\ TreeWith(i, p, after, editor)
      /\ queue' = (IF new THEN queue \ {p} ELSE queue) /\ timer' = timer
      /\ new => ~item[p].expanded
  BY ButtonOperators, ButtonTree DEF Button!propertyInserted
<1>3. /\ Tree'
      /\ i \in Item \ Exists /\ p \in Exists \cup {Root} /\ p # i
      /\ Exists' = Exists \cup {i}
      /\ item'[i] = [parent |-> p, editor |-> editor, box |-> FALSE,
                     expanded |-> FALSE, checked |-> FALSE]
      /\ \A j \in Exists : /\ Kept(j) /\ item'[j].checked = item[j].checked
                           /\ item'[j].box = (item[j].box \/ j = p)
      /\ children'[i] = <<>> /\ children'[p] # <<>>
      /\ \A q \in DOMAIN children \ {p} : children'[q] = children[q]
  BY <1>1, <1>2, TreeInserted
<1>4. /\ item'[i].editor = editor /\ ~item'[i].box /\ ~item'[i].checked
      /\ Root \notin Exists /\ after \in ToSet(children[p]) \cup {First}
      /\ DOMAIN children = Exists \cup {Root}
      /\ \A j \in Exists : item[j].box \in BOOLEAN
  BY <1>1, <1>2, <1>3, WidgetItemsAssumption DEF CanInsert, Tree, ItemType
<1>5. Wide' = Wide
  <2>1. \A j \in Exists : item'[j].expanded = item[j].expanded
    BY <1>3 DEF Kept
  <2>2. \A j \in Exists : item'[j].box /\ item'[j].expanded <=> item[j].box /\ item[j].expanded
    BY <1>2, <1>3, <1>4, <2>1
  <2> QED
    BY <1>3, <1>4, <2>2 DEF Wide
<1>6. /\ Place(i)' = row
      /\ \A j \in Exists : Moves(j, p, after, 1)
      /\ \A q \in Exists \cup {Root} : Offset(q)' = Offset(q)
  BY <1>1, <1>2, <1>5, PlacesInserted
<1>7. at' = Put(Shift(old, p, row, 1), ws, row)
  <2> DEFINE r == IF after = First THEN 0 ELSE Button!gridRow(after) + Button!gridSpan(after)
             gone == Button!Drop(at, {<<p, "label">>})
             o == IF new THEN Button!Put(gone, {<<p, "box">>}, Button!gridRow(p)) ELSE at
  <2>1. r = row
    BY <1>1, <1>3, <1>4, ButtonRows
  <2>2. new => Button!gridRow(p) = Place(p)
    BY <1>1, <1>3, ButtonRows
  <2>3. o = old
    BY <2>2, ButtonOperators
  <2>4. at' = Button!Put(Button!insertRow(o, p, r), ws, r)
    BY DEF Button!propertyInserted
  <2> HIDE DEF old, row, ws, r, o
  <2>6. Button!Put(Button!insertRow(o, p, r), ws, r) = Put(Shift(o, p, r, 1), ws, r)
    BY ButtonOperators
  <2> QED
    BY <2>1, <2>3, <2>4, <2>6
<1> HIDE DEF ws, row
<1>8. /\ \A w : w \in DOMAIN old =>
             \/ w \in DOMAIN at /\ old[w] = at[w]
             \/ new /\ w = <<p, "box">> /\ old[w] = Place(p)
      /\ \A w : w \in DOMAIN old <=>
             \/ w \in DOMAIN at /\ ~(new /\ w = <<p, "label">>)
             \/ new /\ w = <<p, "box">>
  <2>1. /\ DOMAIN rest = DOMAIN at \ {<<p, "label">>}
        /\ \A w \in DOMAIN rest : rest[w] = at[w]
    BY DEF Drop
  <2> HIDE DEF rest
  <2>2. /\ DOMAIN boxed = DOMAIN rest \cup {<<p, "box">>}
        /\ \A w \in DOMAIN boxed : boxed[w] = IF w = <<p, "box">> THEN Place(p) ELSE rest[w]
    BY DEF Put
  <2> HIDE DEF boxed
  <2>3. CASE ~new
    BY <2>3
  <2>4. CASE new
    BY <2>1, <2>2, <2>4
  <2> HIDE DEF old, new
  <2> QED
    BY <2>3, <2>4
<1>9. Agrees(old)
  <2> SUFFICES ASSUME NEW w \in DOMAIN old
               PROVE  /\ w[1] \in Exists /\ w \in WidgetsOf(w[1])
                      /\ old[w] = RowOf(w)
                      /\ w[2] = "container" => w[1] \in Wide
                      /\ w[2] \in InBox => Offset(w[1]) = 2
    BY DEF Agrees
  <2>1. w \in DOMAIN at /\ old[w] = at[w] =>
           /\ w[1] \in Exists /\ w \in WidgetsOf(w[1])
           /\ old[w] = RowOf(w)
           /\ w[2] = "container" => w[1] \in Wide
           /\ w[2] \in InBox => Offset(w[1]) = 2
    BY <1>1 DEF LayoutsAgree, Agrees
  <2>2. new => p \in Exists
    BY <1>3
  <2> HIDE DEF new, old
  <2>3. new /\ w = <<p, "box">> /\ old[w] = Place(p) =>
           w[1] = p /\ w[2] = "box" /\ w \in WidgetsOf(p) /\ old[w] = RowOf(w)
    BY DEF RowOf, WidgetsOf
  <2> QED
    BY <1>8, <2>1, <2>2, <2>3 DEF InBox
<1> HIDE DEF old
<1>10. LayoutsAgree'
  <2>1. Staying(old, p, after, 1)
    BY <1>3, <1>5, <1>6, <1>9 DEF Staying, Agrees
  <2>2. Coming(ws, row)
    <3>1. \A w \in ws : w[1] = i /\ w[2] \in {"label", "cell"} /\ w \in WidgetsOf(i)
      BY DEF ws, WidgetsOf
    <3> QED
      BY <1>3, <1>6, <3>1 DEF Coming, InBox, RowOf
  <2> QED
    BY <1>1, <1>3, <1>4, <1>7, <1>9, <2>1, <2>2, RowsMoved DEF row
<1>11. \A j, k : Has(j, k)' <=>
             \/ Has(j, k) /\ ~(new /\ j = p /\ k = "label")
             \/ new /\ j = p /\ k = "box"
             \/ j = i /\ (k = "label" \/ (cell /\ k = "cell"))
  <2>1. DOMAIN at' = DOMAIN old \cup ws
    BY <1>7 DEF Put, Shift
  <2> HIDE DEF new
  <2> QED
    BY <1>8, <2>1 DEF ws, Has
<1>12. \A k : ~Has(i, k)
  BY <1>1, <1>3 DEF LayoutsAgree, Agrees, Has
<1>13. ASSUME NEW j \in Exists \cup {i} PROVE ItemFits(j)'
  <2>1. CASE j = i
    <3>1. i \notin queue'
      BY <1>1, <1>2, <1>3 DEF Waiting
    <3> QED
      BY <1>3, <1>4, <1>11, <1>12, <2>1, <3>1 DEF ItemFits
  <2>2. CASE j # i
    <3>1. j \in Exists /\ ItemFits(j) /\ item[j].box \in BOOLEAN
      BY <1>1, <2>2 DEF ItemsFit, Tree, ItemType
    <3>2. CASE j = p
      BY <1>2, <1>3, <1>4, <1>11, <2>2, <3>1, <3>2 DEF ItemFits, Kept
    <3>3. CASE j # p
      BY <1>2, <1>3, <1>4, <1>11, <2>2, <3>1, <3>3 DEF ItemFits, Kept
    <3> QED
      BY <3>2, <3>3
  <2> QED
    BY <2>1, <2>2
<1>14. Waiting'
  BY <1>1, <1>2, <1>3 DEF Waiting
<1> QED
  BY <1>3, <1>10, <1>13, <1>14 DEF IInv, ItemsFit

LEMMA ButtonRemoves ==
    ASSUME IInv, browser = "button", browser' = browser, NEW i, Button!propertyRemoved(i)
    PROVE  IInv'
<1> DEFINE rest == Drop(at, WidgetsOf(i))
<1>1. Tree /\ LayoutsAgree /\ ItemsFit /\ Waiting
  BY DEF IInv
<1>2. PICK p : p = item[i].parent
  OBVIOUS
<1>3. CanRemove(i) /\ TreeWithout(i)
  BY ButtonOperators, ButtonTree DEF Button!propertyRemoved
<1>4. i \in Exists /\ Button!gridRow(i) = Place(i)
  BY <1>1, <1>3, ButtonRows DEF CanRemove
<1>5. CASE p = Root \/ Len(children[p]) > 1
  <2>1. /\ at' = Shift(rest, p, Place(i) + 1, -1)
        /\ queue' = queue \ {i} /\ timer' = timer
    <3>1. /\ at' = Button!removeRow(Button!Drop(at, Button!WidgetsOf(i)), p, Button!gridRow(i))
          /\ queue' = queue \ {i} /\ timer' = timer
      BY <1>2, <1>5 DEF Button!propertyRemoved
    <3> QED
      BY <1>4, <3>1, ButtonOperators
  <2> QED
    BY <1>2, <1>3, <1>5, <2>1, OneOfManyGoes
<1>6. CASE ~(p = Root \/ Len(children[p]) > 1)
  <2> DEFINE ws == {<<p, "box">>, <<p, "container">>}
             rows == Drop(rest, ws)
  <2>1. /\ i \in Exists /\ p \in Exists /\ p # i
        /\ Exists' = Exists \ {i}
        /\ \A j \in Exists \ {i} : /\ Kept(j) /\ item[j].parent # i
                                   /\ Before(j)' = Before(j) \ {i}
        /\ \A j \in Exists \ {i} : item[j].parent # p
        /\ \A j \in Exists \ {i} : IF j = p THEN ~item'[j].box ELSE item'[j].box = item[j].box
    <3>1. Len(children[p]) \in Nat \ {0}
      BY <1>1, <1>2, <1>3, TreeRemoved
    <3>2. PICK n \in Nat \ {0} : n = Len(children[p])
      BY <3>1
    <3>0. ~(n > 1)
      BY <1>6, <3>2
    <3>3. n = 1
      BY <3>0
    <3>4. /\ i \in Exists /\ item[i].parent \in Exists \cup {Root} /\ item[i].parent # i
          /\ Exists' = Exists \ {i}
          /\ \A j \in Exists \ {i} :
                /\ Kept(j)
                /\ IF j = item[i].parent /\ Len(children[item[i].parent]) = 1
                   THEN ~item'[j].box /\ ~item'[j].checked
                   ELSE item'[j].box = item[j].box /\ item'[j].checked = item[j].checked
          /\ \A j \in Exists : item[j].parent # i
          /\ \A j \in Exists \ {i} : Before(j)' = Before(j) \ {i}
          /\ Len(children[item[i].parent]) = 1 =>
                \A j \in Exists \ {i} : item[j].parent # item[i].parent
      BY <1>1, <1>3, TreeRemoved
    <3> QED
      BY <1>2, <1>6, <3>2, <3>3, <3>4
  <2>2. PICK l : l = item[p].parent
    OBVIOUS
  <2>3. /\ at' = IF p \in Wide THEN Shift(rows, l, Place(p) + 1 + 1, -1) ELSE rows
        /\ queue' = Requeue(p, i) /\ timer' = TRUE
    <3> DEFINE gone == Button!Drop(Button!Drop(at, Button!WidgetsOf(i)), ws)
    <3>1. /\ at' = IF Button!gridSpan(p) = 2
                   THEN Button!removeRow(gone, l, Button!gridRow(p) + 1) ELSE gone
          /\ queue' = Button!Requeue(p, i) /\ timer' = TRUE
      BY <1>2, <1>6, <2>2 DEF Button!propertyRemoved
    <3>2. Button!Requeue(p, i) = Requeue(p, i)
      BY DEF Button!Requeue, Requeue
    <3>3. Button!gridRow(p) = Place(p) /\ (Button!gridSpan(p) = 2 <=> p \in Wide)
      BY <1>1, <2>1, ButtonRows DEF Span
    <3>4. gone = rows
      BY ButtonOperators
    <3> HIDE DEF gone, rows
    <3> QED
      BY <3>1, <3>2, <3>3, <3>4, ButtonOperators
  <2>4. /\ DOMAIN rows = (DOMAIN at \ WidgetsOf(i)) \ ws
        /\ \A w \in DOMAIN rows : rows[w] = at[w]
    BY DEF Drop
  <2>5. Wide' = Wide \ {p}
    <3>1. i \notin Wide
      <4>1. children[i] = <<>> /\ ItemFits(i)
        BY <1>1, <1>3, <1>4 DEF CanRemove, ItemsFit
      <4> QED
        BY <4>1 DEF ItemFits, Wide
    <3> QED
      BY <2>1, <3>1 DEF Wide, Kept
  <2>6. \A q : Offset(q) = 0 /\ Offset(q)' = 0
    BY DEF Offset
  <2>7. ASSUME NEW j \in Exists \ {i}
        PROVE  IF p \in Wide THEN Moves(j, l, p, -1) ELSE Place(j)' = Place(j)
    <3>1. PICK q : q = item[j].parent
      OBVIOUS
    <3>2. item'[j].parent = q
      BY <2>1, <3>1 DEF Kept
    <3>3. Before(j)' = Before(j)
      <4>1. i \notin Before(j)
        BY <1>1, <1>2, <2>1, BeforeFacts
      <4>2. Before(j)' = Before(j) \ {i}
        BY <2>1
      <4> QED
        BY <4>1, <4>2
    <3>4. Offset(q)' = Offset(q)
      BY <2>6
    <3>5. p \in Wide => Moves(j, item[p].parent, p, -1)
      BY <1>1, <2>1, <2>5, <3>1, <3>2, <3>3, <3>4, PlacesWiden
    <3>6. p \notin Wide => Place(j)' = Place(j)
      <4>1. p \notin Wide => Wide' = Wide
        BY <2>5
      <4> QED
        BY <1>1, <2>1, <4>1, <3>1, <3>2, <3>3, <3>4, PlacesWiden
    <3> QED
      BY <2>2, <3>5, <3>6
  <2> HIDE DEF rows
  <2>8. /\ Agrees(rows) /\ \A w \in DOMAIN rows : w[1] \in Exists \ {i}
        /\ \A w \in DOMAIN rows : w[2] = "container" => w[1] \in Wide \ {p}
        /\ \A w \in DOMAIN rows : w[2] \notin InBox
    <3>1. \A w \in DOMAIN at : /\ w[1] \in Exists /\ w \in WidgetsOf(w[1]) /\ w[2] \notin InBox
                               /\ (w[2] = "container" => w[1] \in Wide)
      BY <1>1, <2>6 DEF LayoutsAgree, Agrees
    <3>2. \A w \in DOMAIN rows : w[2] = "container" => w[1] # p
      BY <2>4, <3>1 DEF WidgetsOf
    <3>3. Agrees(rows)
      BY <1>1, <2>4 DEF LayoutsAgree, Agrees
    <3>4. \A w \in DOMAIN rows : w[1] # i
      BY <2>4, <3>1
    <3> QED
      BY <2>4, <3>1, <3>2, <3>3, <3>4
  <2>9. LayoutsAgree'
    <3>1. CASE p \in Wide
      <4>1. p \in ToSet(children[l]) \cup {First} /\ l \in Exists \cup {Root} /\ p # First
        BY <1>1, <2>1, <2>2, BeforeFacts, WidgetItemsAssumption DEF Tree
      <4>2. Below(l, p) = Place(p) + 1 + 1
        <5>1. Below(l, p) = Place(p) + Span(p) /\ Span(p) = 2
          BY <1>1, <3>1, <4>1, EarlierFacts DEF Span
        <5>2. Place(p) \in Nat
          BY <1>1, <2>1, PlaceNat
        <5> QED
          BY <5>1, <5>2
      <4>3. at' = Put(Shift(rows, l, Below(l, p), -1), {}, 0)
        <5>1. at' = Shift(rows, l, Below(l, p), -1)
          BY <2>3, <3>1, <4>2
        <5> QED
          BY <5>1 DEF Put, Shift
      <4>4. Staying(rows, l, p, -1)
        BY <2>1, <2>5, <2>7, <2>8, <3>1 DEF Staying
      <4>5. Coming({}, 0)
        BY DEF Coming
      <4> QED
        BY <1>1, <2>8, <4>1, <4>3, <4>4, <4>5, RowsMoved
    <3>2. CASE p \notin Wide
      <4>1. at' = rows
        BY <2>3, <3>2
      <4>2. Resting(rows, {})
        BY <2>1, <2>5, <2>7, <2>8, <3>2, <4>1 DEF Resting
      <4> QED
        BY <2>8, <4>2, RowsStay
    <3> QED
      BY <3>1, <3>2
  <2>10. \A j \in Exists \ {i} : \A k :
             Has(j, k)' <=> Has(j, k) /\ ~(j = p /\ k \in {"box", "container"} \cup InBox)
    <3>1. \A j \in Exists \ {i} : \A k : <<j, k>> \notin WidgetsOf(i)
      BY DEF WidgetsOf
    <3>2. \A k \in InBox : ~Has(p, k)
      BY <1>1, <2>6 DEF LayoutsAgree, Agrees, Has
    <3>3. DOMAIN at' = DOMAIN rows
      BY <2>3 DEF Shift
    <3> QED
      BY <2>4, <3>1, <3>2, <3>3 DEF Has
  <2> QED
    BY <1>2, <1>3, <1>6, <2>3, <2>9, <2>10, LastOneGoes
<1> QED
  BY <1>5, <1>6

LEMMA ButtonUpdates ==
    ASSUME IInv, browser = "button", browser' = browser, Button!slotUpdate
    PROVE  IInv'
<1> DEFINE K == {"label"}
           ws == queue \X K
<1>1. at' = [w \in DOMAIN at \cup ws |-> IF w \in ws THEN Button!gridRow(w[1]) ELSE at[w]]
  BY DEF Button!slotUpdate
<1>2. \A w \in ws : w[1] \in Exists
  BY DEF IInv, Waiting
<1>3. \A w \in ws : Button!gridRow(w[1]) = Place(w[1])
  BY <1>2, ButtonRows DEF IInv
<1>4. children' = children /\ item' = item /\ queue' = {}
  BY DEF Button!slotUpdate
<1>5. K \in SUBSET {"label", "cell"} /\ "label" \in K
  OBVIOUS
<1> HIDE DEF K
<1>6. /\ DOMAIN at' = DOMAIN at \cup ws
      /\ \A w \in ws : at'[w] = Place(w[1])
      /\ \A w \in DOMAIN at \ ws : at'[w] = at[w]
  BY <1>1, <1>3
<1> QED
  BY <1>4, <1>5, <1>6, QueueServed

LEMMA ButtonEditorGoes ==
    ASSUME IInv, browser = "button", browser' = browser, NEW i, Button!slotEditorDestroyed(i)
    PROVE  IInv'
<1>1. /\ i \in Exists
      /\ item' = [item EXCEPT ![i].editor = FALSE]
      /\ at' = Drop(at, {<<i, "cell">>})
      /\ UNCHANGED <<children, queue, timer>>
  BY ButtonOperators DEF Button!slotEditorDestroyed
<1> QED
  BY <1>1, EditorGoes

LEMMA ButtonUnfolds ==
    ASSUME IInv, browser = "button", browser' = browser, NEW i \in Exists, item[i].box,
           NEW e \in BOOLEAN, Button!Unfold(i, e),
           item' = [item EXCEPT ![i].expanded = e, ![i].checked = e],
           UNCHANGED <<children, queue, timer>>
    PROVE  IInv'
<1> DEFINE m == item'
<1>1. Tree /\ LayoutsAgree /\ ItemsFit /\ Waiting
  BY DEF IInv
<1>2. /\ DOMAIN m = Exists
      /\ \A j \in Exists :
            /\ m[j] \in ItemType
            /\ m[j].parent = item[j].parent /\ m[j].box = item[j].box
            /\ m[j].editor = item[j].editor
            /\ m[j].expanded = IF j = i THEN e ELSE item[j].expanded
            /\ m[j].checked = IF j = i THEN e ELSE item[j].checked
  <2>1. item \in [Exists -> ItemType]
    BY <1>1 DEF Tree
  <2> QED
    BY <2>1 DEF ItemType, Exists
<1> HIDE DEF m
<1>3. Tree' /\ Exists' = Exists
  <2>1. Exists' = Exists
    BY <1>2 DEF Exists, m
  <2>2. m \in [Exists -> ItemType]
    BY <1>1, <1>2 DEF Tree, Exists, m
  <2> QED
    BY <1>1, <1>2, <2>1, <2>2 DEF Tree, ItemType, m
<1>4. Wide' = IF e THEN Wide \cup {i} ELSE Wide \ {i}
  BY <1>2, <1>3 DEF Wide, m
<1>5. \A q : Offset(q) = 0 /\ Offset(q)' = 0
  BY DEF Offset
<1>6. \A j \in Exists : Before(j)' = Before(j)
  BY <1>2 DEF Before, m
<1>7. PICK l : l = item[i].parent
  OBVIOUS
<1>8. /\ i \in ToSet(children[l]) \cup {First} /\ l \in Exists \cup {Root} /\ i # First
      /\ Place(i) \in Nat /\ Button!gridRow(i) = Place(i)
      /\ Below(l, i) = Place(i) + Span(i)
  <2>1. i \in ToSet(children[l]) \cup {First} /\ l \in Exists \cup {Root} /\ i # First
    BY <1>1, <1>7, BeforeFacts, WidgetItemsAssumption DEF Tree
  <2> QED
    BY <1>1, <2>1, PlaceNat, ButtonRows, EarlierFacts
<1>9. ASSUME NEW j \in Exists
      PROVE  /\ i \notin Wide /\ Wide' = Wide \cup {i} => Moves(j, l, i, 1)
             /\ i \in Wide /\ Wide' = Wide \ {i} => Moves(j, l, i, -1)
             /\ Wide' = Wide => Place(j)' = Place(j)
  <2>1. PICK q : q = item[j].parent
    OBVIOUS
  <2>2. item'[j].parent = q /\ Before(j)' = Before(j) /\ Offset(q)' = Offset(q)
    BY <1>2, <1>5, <1>6, <2>1 DEF m
  <2> QED
    BY <1>1, <1>7, <2>1, <2>2, PlacesWiden
<1>10. /\ \A w \in DOMAIN at : /\ w[1] \in Exists /\ w \in WidgetsOf(w[1]) /\ w[2] \notin InBox
                               /\ (w[2] = "container" => w[1] \in Wide)
       /\ Agrees(at)
  BY <1>1, <1>5 DEF LayoutsAgree, Agrees
<1>11. i \in Wide <=> item[i].expanded
  BY DEF Wide
<1>12. CASE item[i].expanded = e
  <2>1. at' = at
    BY <1>12 DEF Button!Unfold
  <2>2. Wide' = Wide
    BY <1>4, <1>11, <1>12
  <2>3. Resting(at, {})
    BY <1>3, <1>9, <1>10, <2>1, <2>2 DEF Resting
  <2>4. LayoutsAgree'
    BY <1>10, <2>3, RowsStay
  <2>5. ASSUME NEW j \in Exists PROVE ItemFits(j)'
    <3>1. ItemFits(j)
      BY <1>1 DEF ItemsFit
    <3>2. \A k : Has(j, k)' <=> Has(j, k)
      BY <2>1 DEF Has
    <3> QED
      BY <1>2, <1>12, <3>1, <3>2 DEF ItemFits, m
  <2> QED
    BY <1>1, <1>3, <2>4, <2>5 DEF IInv, ItemsFit, Waiting
<1>13. CASE ~item[i].expanded /\ e
  <2> DEFINE ws == {<<i, "container">>}
             r == Place(i) + 1
  <2>1. i \notin Wide /\ Wide' = Wide \cup {i} /\ Below(l, i) = r
    <3>1. i \notin Wide
      BY <1>11, <1>13
    <3>2. Span(i) = 1
      BY <3>1 DEF Span
    <3> QED
      BY <1>4, <1>8, <1>13, <3>1, <3>2
  <2>2. at' = Put(Shift(at, l, Below(l, i), 1), ws, r)
    <3>1. at' = Button!Put(Button!insertRow(at, l, Button!gridRow(i) + 1), ws,
                           Button!gridRow(i) + 1)
      BY <1>7, <1>13 DEF Button!Unfold
    <3> HIDE DEF ws
    <3> QED
      BY <1>8, <2>1, <3>1, ButtonOperators
  <2>3. Staying(at, l, i, 1)
    BY <1>3, <1>9, <1>10, <2>1 DEF Staying
  <2>4. Coming(ws, r)
    <3>1. Place(i)' = Place(i)
      <4>1. i \in Earlier(i)
        BY <1>8 DEF Earlier
      <4> QED
        BY <1>8, <1>9, <2>1, <4>1 DEF Moves
    <3>2. RowOf(<<i, "container">>)' = r
      BY <3>1 DEF RowOf
    <3> QED
      BY <1>3, <2>1, <3>2 DEF Coming, WidgetsOf, InBox
  <2> HIDE DEF ws, r
  <2>5. LayoutsAgree'
    BY <1>1, <1>8, <1>10, <2>2, <2>3, <2>4, RowsMoved
  <2>6. \A j, k : Has(j, k)' <=> Has(j, k) \/ (j = i /\ k = "container")
    BY <2>2 DEF Has, Put, Shift, ws
  <2>7. ASSUME NEW j \in Exists PROVE ItemFits(j)'
    <3>1. ItemFits(j)
      BY <1>1 DEF ItemsFit
    <3> QED
      BY <1>2, <1>13, <2>6, <3>1 DEF ItemFits, m
  <2> QED
    BY <1>1, <1>3, <2>5, <2>7 DEF IInv, ItemsFit, Waiting
<1>14. CASE item[i].expanded /\ ~e
  <2> DEFINE ws == {<<i, "container">>}
             rows == Drop(at, ws)
  <2>1. i \in Wide /\ Wide' = Wide \ {i} /\ Below(l, i) = Place(i) + 1 + 1
    <3>1. i \in Wide
      BY <1>11, <1>14
    <3>2. Span(i) = 2
      BY <3>1 DEF Span
    <3> QED
      BY <1>4, <1>8, <1>14, <3>1, <3>2
  <2>2. at' = Put(Shift(rows, l, Below(l, i), -1), {}, 0)
    <3>1. at' = Button!removeRow(Button!Drop(at, ws), l, Button!gridRow(i) + 1)
      BY <1>7, <1>14 DEF Button!Unfold
    <3> HIDE DEF ws
    <3>2. at' = Shift(rows, l, Below(l, i), -1)
      BY <1>8, <2>1, <3>1, ButtonOperators
    <3> HIDE DEF rows
    <3> QED
      BY <3>2 DEF Put, Shift
  <2>3. /\ DOMAIN rows = DOMAIN at \ ws /\ Agrees(rows)
        /\ \A w \in DOMAIN rows : w[2] = "container" => w[1] # i
    <3>1. DOMAIN rows = DOMAIN at \ ws /\ \A w \in DOMAIN rows : rows[w] = at[w]
      BY DEF Drop
    <3>2. Agrees(rows)
      BY <1>10, <3>1 DEF Agrees
    <3>3. ASSUME NEW w \in DOMAIN rows, w[2] = "container" PROVE w[1] # i
      <4>1. w \in WidgetsOf(w[1]) /\ w \notin ws
        BY <1>10, <3>1
      <4>2. PICK k \in {"label", "cell", "box", "container", "header", "line"} : w = <<w[1], k>>
        BY <4>1 DEF WidgetsOf
      <4>3. w = <<w[1], "container">>
        BY <3>3, <4>2
      <4> QED
        BY <4>1, <4>3
    <3>4. \A w \in DOMAIN rows : w[2] = "container" => w[1] # i
      BY <3>3
    <3> QED
      BY <3>1, <3>2, <3>4
  <2> HIDE DEF rows
  <2>4. Staying(rows, l, i, -1)
    BY <1>3, <1>9, <1>10, <2>1, <2>3 DEF Staying
  <2>5. LayoutsAgree'
    <3>1. Coming({}, 0)
      BY DEF Coming
    <3> QED
      BY <1>1, <1>8, <2>2, <2>3, <2>4, <3>1, RowsMoved
  <2>6. \A j, k : Has(j, k)' <=> Has(j, k) /\ ~(j = i /\ k = "container")
    BY <2>2, <2>3 DEF Has, Put, Shift
  <2>7. ASSUME NEW j \in Exists PROVE ItemFits(j)'
    <3>1. ItemFits(j)
      BY <1>1 DEF ItemsFit
    <3> QED
      BY <1>2, <1>14, <2>6, <3>1 DEF ItemFits, m
  <2> QED
    BY <1>1, <1>3, <2>5, <2>7 DEF IInv, ItemsFit, Waiting
<1>15. item[i].expanded \in BOOLEAN
  BY <1>1 DEF Tree, ItemType
<1> QED
  BY <1>12, <1>13, <1>14, <1>15

LEMMA ButtonExpands ==
    ASSUME IInv, browser = "button", browser' = browser, NEW i, NEW e \in BOOLEAN,
           Button!setExpanded(i, e)
    PROVE  IInv'
<1>1. /\ i \in Exists /\ Button!Unfold(i, e)
      /\ item' = IF item[i].box /\ item[i].expanded # e
                 THEN [item EXCEPT ![i].expanded = e, ![i].checked = e] ELSE item
      /\ UNCHANGED <<children, queue, timer>>
  BY ButtonOperators DEF Button!setExpanded
<1>2. CASE item[i].box /\ item[i].expanded # e
  <2>1. item' = [item EXCEPT ![i].expanded = e, ![i].checked = e]
    BY <1>1, <1>2
  <2> QED
    BY <1>1, <1>2, <2>1, ButtonUnfolds
<1>3. CASE ~(item[i].box /\ item[i].expanded # e)
  <2>1. item' = item
    BY <1>1, <1>3
  <2>2. at' = at
    BY <1>1, <1>3 DEF Button!Unfold
  <2> QED
    BY <1>1, <2>1, <2>2, Unchanged DEF vars, itemVars
<1> QED
  BY <1>2, <1>3

LEMMA ButtonToggles ==
    ASSUME IInv, browser = "button", browser' = browser, NEW i, Button!slotToggled(i)
    PROVE  IInv'
<1>1. PICK e : e = ~item[i].checked
  OBVIOUS
<1>2. /\ i \in Exists /\ item[i].box /\ Button!Unfold(i, e)
      /\ item' = [item EXCEPT ![i].expanded = e, ![i].checked = e]
      /\ UNCHANGED <<children, queue, timer>>
  BY <1>1, ButtonOperators DEF Button!slotToggled
<1>3. e \in BOOLEAN
  BY <1>1
<1> QED
  BY <1>2, <1>3, ButtonUnfolds

-----------------------------------------------------------------------------
(* The theorems.                                                           *)

LEMMA InvInit == Init => IInv
<1> SUFFICES ASSUME Init PROVE IInv
  OBVIOUS
<1>1. /\ children = [r \in {Root} |-> <<>>] /\ item = [i \in {} |-> {}]
      /\ at = [w \in {} |-> 0] /\ queue = {} /\ browser \in {"groupBox", "button"}
  BY DEF Init, NoItems
<1>2. Exists = {}
  BY <1>1 DEF Exists
<1>3. Tree
  <2>1. <<>> \in Seq(Exists) /\ Simple(<<>>)
    BY DEF Simple
  <2> QED
    BY <1>1, <1>2, <2>1 DEF Tree, Exists
<1>4. LayoutsAgree
  BY <1>1 DEF LayoutsAgree, Agrees
<1> QED
  BY <1>1, <1>2, <1>3, <1>4 DEF IInv, ItemsFit, Waiting

LEMMA InvStep ==
    ASSUME IInv, [Next]_vars, ~HeadersDie, ~ReusesExpanded
    PROVE  IInv'
<1>1. CASE UNCHANGED vars
  BY <1>1, Unchanged
<1>2. CASE Next
  <2>1. browser' = browser /\ ((browser = "groupBox" /\ GroupBox!Next)
                                 \/ (browser = "button" /\ Button!Next))
    BY <1>2 DEF Next
  <2>2. CASE browser = "groupBox" /\ GroupBox!Next
    <3>1. CASE \E i, p, after : \E editor \in BOOLEAN :
                   GroupBox!propertyInserted(i, p, after, editor)
      BY <2>1, <2>2, <3>1, GroupBoxInserts
    <3>2. CASE \E i : GroupBox!propertyRemoved(i)
      BY <2>1, <2>2, <3>2, GroupBoxRemoves
    <3>3. CASE \E i : GroupBox!slotEditorDestroyed(i)
      BY <2>1, <2>2, <3>3, GroupBoxEditorGoes
    <3>4. CASE GroupBox!slotUpdate
      BY <2>1, <2>2, <3>4, GroupBoxUpdates
    <3> QED
      BY <2>2, <3>1, <3>2, <3>3, <3>4 DEF GroupBox!Next
  <2>3. CASE browser = "button" /\ Button!Next
    <3>1. CASE \E i, p, after, cell : \E editor \in BOOLEAN :
                   Button!propertyInserted(i, p, after, cell, editor)
      BY <2>1, <2>3, <3>1, ButtonInserts
    <3>2. CASE \E i : Button!propertyRemoved(i)
      BY <2>1, <2>3, <3>2, ButtonRemoves
    <3>3. CASE \E i : Button!slotEditorDestroyed(i)
      BY <2>1, <2>3, <3>3, ButtonEditorGoes
    <3>4. CASE \E i : Button!slotToggled(i)
      BY <2>1, <2>3, <3>4, ButtonToggles
    <3>5. CASE \E i : \E e \in BOOLEAN : Button!setExpanded(i, e)
      BY <2>1, <2>3, <3>5, ButtonExpands
    <3>6. CASE Button!slotUpdate
      BY <2>1, <2>3, <3>6, ButtonUpdates
    <3> QED
      BY <2>3, <3>1, <3>2, <3>3, <3>4, <3>5, <3>6 DEF Button!Next
  <2> QED
    BY <2>1, <2>2, <2>3
<1> QED
  BY <1>1, <1>2

\* The invariant implies the properties.
LEMMA InvPlaced == IInv => WidgetsPlaced
<1> SUFFICES ASSUME IInv PROVE WidgetsPlaced
  OBVIOUS
<1>1. Tree /\ LayoutsAgree /\ ItemsFit /\ Waiting
  BY DEF IInv
<1>2. NothingLost
  <2>1. \A i \in Exists :
            /\ item[i].box <=> children[i] # <<>>
            /\ <<i, "box">> \in DOMAIN at <=> item[i].box
            /\ <<i, "label">> \in DOMAIN at <=> ~item[i].box /\ i \notin queue
            /\ i \in queue => children[i] = <<>>
    BY <1>1 DEF ItemsFit, ItemFits, Has
  <2>2. DOMAIN at \subseteq UNION {WidgetsOf(i) : i \in Exists}
    BY <1>1 DEF LayoutsAgree, Agrees
  <2> QED
    BY <1>1, <2>1, <2>2 DEF NothingLost, Waiting
<1>3. browser = "groupBox" => GroupBox!EditorsPlaced
  BY <1>1, GroupBoxOperators DEF GroupBox!EditorsPlaced, ItemsFit, ItemFits, Has
<1>4. browser = "button" => Button!ExpandedShown
  <2> SUFFICES ASSUME browser = "button", NEW i \in Exists
               PROVE  LET seen == <<i, "container">> \in DOMAIN at IN
                      /\ item[i].box => (item[i].expanded <=> seen) /\ item[i].checked = seen
                      /\ seen => /\ item[i].box
                                 /\ at[<<i, "container">>] = at[<<i, "box">>] + 1
    BY ButtonOperators DEF Button!ExpandedShown
  <2>1. ItemFits(i) /\ item[i].checked \in BOOLEAN
    BY <1>1 DEF ItemsFit, Tree, ItemType
  <2>2. Has(i, "container") => at[<<i, "container">>] = Place(i) + 1
    BY <1>1 DEF LayoutsAgree, Agrees, RowOf, Has
  <2>3. Has(i, "box") => at[<<i, "box">>] = Place(i)
    BY <1>1 DEF LayoutsAgree, Agrees, RowOf, Has
  <2> QED
    BY <2>1, <2>2, <2>3 DEF ItemFits, Has
<1> QED
  BY <1>2, <1>3, <1>4 DEF WidgetsPlaced

LEMMA InvOrder == IInv => RowsInOrder
<1> SUFFICES ASSUME IInv PROVE RowsInOrder
  OBVIOUS
<1>1. Tree /\ LayoutsAgree
  BY DEF IInv
<1> DEFINE Kinds == {"label", "cell", "box", "container", "header", "line"}
<1>2. ASSUME NEW i \in Exists, NEW w \in (WidgetsOf(i) \cap DOMAIN at) \ ({i} \X InBox)
      PROVE  /\ Place(i) \in Nat /\ Span(i) \in {1, 2}
             /\ at[w] \in Nat /\ at[w] >= Place(i) /\ at[w] < Place(i) + Span(i)
  <2>1. w[1] = i /\ w[2] \in Kinds /\ w[2] \notin InBox
    <3>1. PICK k \in Kinds : w = <<i, k>>
      BY DEF WidgetsOf
    <3> QED
      BY <3>1
  <2>2. at[w] = RowOf(w) /\ (w[2] = "container" => i \in Wide)
    BY <1>1, <2>1 DEF LayoutsAgree, Agrees
  <2>3. at[w] = IF w[2] = "container" THEN Place(i) + 1 ELSE Place(i)
    BY <2>1, <2>2 DEF RowOf, InBox
  <2>4. Place(i) \in Nat /\ Span(i) = IF i \in Wide THEN 2 ELSE 1
    BY <1>1, PlaceNat DEF Span
  <2> QED
    BY <2>2, <2>3, <2>4
<1>3. ASSUME NEW p \in DOMAIN children, NEW j \in DOMAIN children[p], NEW k \in DOMAIN children[p],
             j < k,
             NEW v \in (WidgetsOf(children[p][j]) \cap DOMAIN at)
                          \ ({children[p][j]} \X InBox),
             NEW w \in (WidgetsOf(children[p][k]) \cap DOMAIN at)
                          \ ({children[p][k]} \X InBox)
      PROVE  at[v] < at[w]
  <2>1. PICK s : s = children[p]
    OBVIOUS
  <2>2. s \in Seq(Exists) /\ Simple(s) /\ DOMAIN s = 1 .. Len(s)
    BY <1>1, <2>1 DEF Tree
  <2>3. PICK i, h : i = s[j] /\ h = s[k]
    OBVIOUS
  <2>4. /\ i \in Exists /\ h \in Exists
        /\ item[i].parent = p /\ item[h].parent = p
    BY <1>1, <2>1, <2>2, <2>3, ElementsIn DEF Tree
  <2>5. i \in Before(h)
    <3>1. \A g \in 1 .. Len(s) : s[g] \in Preceding(s, s[k]) <=> g < k
      <4>1. Ranked(s, k)
        BY <2>1, <2>2, PrecedingIs
      <4> QED
        BY <4>1 DEF Ranked
    <3>2. s[j] \in Preceding(s, s[k])
      BY <1>3, <2>1, <2>2, <3>1
    <3> QED
      BY <2>1, <2>3, <2>4, <3>2 DEF Before
  <2>6. Place(i) + Span(i) <= Place(h)
    BY <1>1, <2>4, <2>5, PlaceOrder
  <2>7. /\ Place(i) \in Nat /\ Span(i) \in {1, 2}
        /\ at[v] \in Nat /\ at[v] < Place(i) + Span(i)
    BY <1>2, <2>1, <2>3, <2>4
  <2>8. Place(h) \in Nat /\ at[w] \in Nat /\ at[w] >= Place(h)
    BY <1>2, <2>1, <2>3, <2>4
  <2> QED
    BY <2>6, <2>7, <2>8
<1>4. ASSUME NEW p \in DOMAIN children, NEW j \in DOMAIN children[p],
             NEW v \in ({p} \X InBox) \cap DOMAIN at,
             NEW w \in (WidgetsOf(children[p][j]) \cap DOMAIN at)
                          \ ({children[p][j]} \X InBox)
      PROVE  at[v] < at[w]
  <2>1. PICK i : i = children[p][j]
    OBVIOUS
  <2>2. i \in Exists /\ item[i].parent = p
    BY <1>1, <2>1, ElementsIn DEF Tree
  <2>3. at[w] \in Nat /\ at[w] >= Place(i) /\ Place(i) \in Nat
    BY <1>2, <2>1, <2>2
  <2>4. Offset(p) = 2 /\ at[v] \in {0, 1}
    <3>1. v[1] = p /\ v[2] \in InBox
      OBVIOUS
    <3>2. at[v] = RowOf(v) /\ Offset(v[1]) = 2
      BY <1>1, <3>1 DEF LayoutsAgree, Agrees
    <3> QED
      BY <3>1, <3>2 DEF RowOf, InBox
  <2>5. Offset(p) <= Place(i)
    BY <1>1, <2>2, PlaceNat
  <2> QED
    BY <2>3, <2>4, <2>5
<1>5. ASSUME NEW i \in Exists, NEW v \in ({i} \X {"label", "cell", "box"}) \cap DOMAIN at
      PROVE  at[v] = Place(i)
  <2>1. v[1] = i /\ v[2] \in {"label", "cell", "box"}
    OBVIOUS
  <2> QED
    BY <1>1, <2>1 DEF LayoutsAgree, Agrees, RowOf
<1>6. ASSUME NEW p \in DOMAIN children, NEW j \in DOMAIN children[p], NEW k \in DOMAIN children[p]
      PROVE  LET Rows2(n) == {at[w] : w \in (WidgetsOf(children[p][n]) \cap DOMAIN at)
                                          \ ({children[p][n]} \X {"header", "line"})}
                 Header  == {at[w] : w \in ({p} \X {"header", "line"}) \cap DOMAIN at}
             IN  /\ j < k => \A x \in Rows2(j), y \in Rows2(k) : x < y
                 /\ \A x \in Header, y \in Rows2(j) : x < y
  BY <1>3, <1>4 DEF InBox
<1> QED
  BY <1>5, <1>6 DEF RowsInOrder

\* In every layout, of either browser, the rows of the items are in the order
\* of the items, below the header if there is one: as long as the editor that
\* heads a box is not destroyed by others, and no item that lost its last
\* child while it was expanded gets another.
THEOREM RowsAreInOrder ==
    ASSUME ~HeadersDie, ~ReusesExpanded
    PROVE  Spec => []RowsInOrder
<1>1. IInv /\ [Next]_vars => IInv'
  BY InvStep
<1> QED
  BY <1>1, InvInit, InvOrder, PTL DEF Spec

\* Under the same conditions every item has its box or its label or waits for
\* it, editors are where their items are, and what is expanded is seen.
THEOREM WidgetsArePlaced ==
    ASSUME ~HeadersDie, ~ReusesExpanded
    PROVE  Spec => []WidgetsPlaced
<1>1. IInv /\ [Next]_vars => IInv'
  BY InvStep
<1> QED
  BY <1>1, InvInit, InvPlaced, PTL DEF Spec
=============================================================================

----------------------- MODULE PropertyBrowser_proofs -----------------------
(***************************************************************************)
(* What PropertyBrowser guarantees for any number of properties: that no   *)
(* property is ever below itself and no pointer dangles, whatever callers  *)
(* insert where; and, if they insert top-level properties after top-level  *)
(* ones, that the items mirror the properties and that the browser heeds   *)
(* the signals of exactly the properties that it shows.                    *)
(***************************************************************************)
EXTENDS PropertyBrowser, SequenceTheorems, FiniteSetTheorems, TLAPS

-----------------------------------------------------------------------------
\* No element twice.
Simple(s) == \A j, k \in DOMAIN s : s[j] = s[k] => j = k

\* The types: a list of sub-properties has no property twice.
Typed ==
    /\ Exists \subseteq Property /\ Browser \in DOMAIN sub
    /\ sub \in [DOMAIN sub -> Seq(Exists)]
    /\ \A p \in DOMAIN sub : Simple(sub[p])
    /\ parents \in [Exists -> SUBSET Exists]
    /\ toParents \in [Exists -> SUBSET DOMAIN sub]

\* No property is below itself.
Acyclic == \A x \in DOMAIN sub : \A y \in Sub(x) : x \notin Below(y)

\* A property and its parents agree.
ParentsAgree == \A p \in Exists : parents[p] = {q \in Exists : p \in Sub(q)}

\* The registered properties are those below the browser.
ParentsShown ==
    \A p \in Exists : toParents[p] = {q \in Below(Browser) : p \in Sub(q)}

\* A descent of one property to the next.
IsPath(i) == \A k \in 1 .. Len(i) - 1 : i[k + 1] \in Sub(i[k])

\* Every item is a path from the browser, and those above it are items; the
\* children of an item are the items one step longer.
ItemsArePaths ==
    /\ <<Browser>> \in Item
    /\ \A i \in Item :
          /\ i \in Seq(DOMAIN sub) /\ i # <<>> /\ i[1] = Browser /\ IsPath(i)
          /\ \A k \in 1 .. Len(i) : SubSeq(i, 1, k) \in Item
          /\ children[i] \in Seq(Exists) /\ Simple(children[i])
          /\ \A x \in Exists : x \in ToSet(children[i]) <=> Append(i, x) \in Item

\* The inductive invariant,
IInv == Typed /\ Acyclic /\ ParentsAgree /\ ParentsShown /\ ItemsArePaths

\* and what it needs to be that of ItemsMirrorProperties.
SameOrder == \A i \in Item : children[i] = sub[Last(i)]

-----------------------------------------------------------------------------
(* Induction over the natural numbers, and along a sequence.               *)

\* A set of natural numbers with 0 and every successor of a member is Nat.
LEMMA Induction ==
    ASSUME NEW S \in SUBSET Nat, 0 \in S, \A n \in S : n + 1 \in S
    PROVE  S = Nat
<1> DEFINE T == Nat \ S
<1> SUFFICES ASSUME T # {} PROVE FALSE
  OBVIOUS
<1>1. T \subseteq Nat
  OBVIOUS
<1> HIDE DEF T
<1>2. PICK x \in T : \A y \in T : <<y, x>> \notin OpToRel(<, Nat)
  BY <1>1, NatLessThanWellFounded, WFMin
<1> USE DEF T
<1>3. x \in Nat /\ x # 0
  OBVIOUS
<1>4. x - 1 \in T
  <2>1. x - 1 \in Nat /\ x - 1 + 1 = x
    BY <1>3
  <2> QED
    BY <2>1
<1>5. <<x - 1, x>> \in OpToRel(<, Nat)
  BY <1>2, <1>3 DEF OpToRel
<1> QED
  BY <1>2, <1>4, <1>5

\* What passes from each element of d to the next passes to all of them.
LEMMA Along ==
    ASSUME NEW d, NEW m \in Nat, NEW C, d[1] \in C,
           \A k \in 1 .. m - 1 : d[k] \in C => d[k + 1] \in C
    PROVE  \A k \in 1 .. m : d[k] \in C
<1> DEFINE S == {n \in Nat : n + 1 <= m => d[n + 1] \in C}
<1>1. 0 \in S
  OBVIOUS
<1>2. ASSUME NEW n \in S PROVE n + 1 \in S
  OBVIOUS
<1> HIDE DEF S
<1>3. S = Nat
  <2>1. S \in SUBSET Nat
    BY DEF S
  <2> QED
    BY <1>1, <1>2, <2>1, Induction
<1> USE DEF S
<1>4. ASSUME NEW k \in 1 .. m PROVE d[k] \in C
  <2>1. k - 1 \in S
    BY <1>3
  <2> QED
    BY <2>1
<1> QED
  BY <1>4

-----------------------------------------------------------------------------
(* Sequences.                                                              *)

LEMMA ElementsIn ==
    ASSUME NEW S, NEW s \in Seq(S)
    PROVE  /\ ToSet(s) \subseteq S
           /\ \A x : x \in ToSet(s) <=> \E k \in 1 .. Len(s) : s[k] = x
  BY DEF ToSet

LEMMA SeqIn ==
    ASSUME NEW S, NEW s \in Seq(S), NEW T, \A k \in 1 .. Len(s) : s[k] \in T
    PROVE  s \in Seq(T)
<1>1. Len(s) \in Nat /\ s \in [1 .. Len(s) -> S]
  BY LenProperties
<1>2. s \in [1 .. Len(s) -> T]
  BY <1>1
<1> QED
  BY <1>1, <1>2

LEMMA AppendElements ==
    ASSUME NEW S, NEW s \in Seq(S), NEW x \in S
    PROVE  /\ Append(s, x) \in Seq(S) /\ Append(s, x) # <<>>
           /\ Len(Append(s, x)) = Len(s) + 1
           /\ Last(Append(s, x)) = x
           /\ Front(Append(s, x)) = s
           /\ \A k \in 1 .. Len(s) : Append(s, x)[k] = s[k]
<1>1. /\ Append(s, x) \in Seq(S) /\ Append(s, x) # <<>>
      /\ Len(Append(s, x)) = Len(s) + 1
      /\ \A k \in 1 .. Len(s) : Append(s, x)[k] = s[k]
      /\ Append(s, x)[Len(s) + 1] = x
  BY AppendProperties
<1>2. Front(Append(s, x)) = s
  <2>1. \A k \in 1 .. Len(s) : Append(s, x)[k] \in S
    BY <1>1
  <2>2. /\ SubSeq(Append(s, x), 1, Len(s)) \in Seq(S)
        /\ Len(SubSeq(Append(s, x), 1, Len(s))) = Len(s)
        /\ \A k \in 1 .. Len(s) : SubSeq(Append(s, x), 1, Len(s))[k] = s[k]
    BY <1>1, <2>1, SubSeqProperties
  <2> QED
    BY <1>1, <2>2, SeqEqual DEF Front
<1> QED
  BY <1>1, <1>2 DEF Last

LEMMA InsertAtElements ==
    ASSUME NEW S, NEW s \in Seq(S), NEW n \in 1 .. Len(s) + 1, NEW e \in S
    PROVE  /\ InsertAt(s, n, e) \in Seq(S)
           /\ Len(InsertAt(s, n, e)) = Len(s) + 1
           /\ \A k \in 1 .. Len(s) + 1 :
                 InsertAt(s, n, e)[k] = IF k < n THEN s[k] ELSE IF k = n THEN e ELSE s[k - 1]
<1> DEFINE a == SubSeq(s, 1, n - 1)
           b == SubSeq(s, n, Len(s))
<1>1. Len(s) \in Nat /\ n \in Nat /\ \A k \in 1 .. Len(s) : s[k] \in S
  OBVIOUS
<1>2. /\ a \in Seq(S) /\ Len(a) = n - 1
      /\ \A k \in 1 .. n - 1 : a[k] = s[k]
  <2>1. \A k \in 1 .. n - 1 : s[k] \in S
    BY <1>1
  <2> QED
    BY <1>1, <2>1, SubSeqProperties
<1>3. /\ b \in Seq(S) /\ Len(b) = Len(s) - n + 1
      /\ \A k \in 1 .. Len(s) - n + 1 : b[k] = s[n + k - 1]
  <2>1. \A k \in n .. Len(s) : s[k] \in S
    BY <1>1
  <2> QED
    BY <1>1, <2>1, SubSeqProperties
<1> HIDE DEF a, b
<1>4. <<e>> \in Seq(S) /\ Len(<<e>>) = 1 /\ <<e>>[1] = e
  OBVIOUS
<1>5. /\ a \o <<e>> \in Seq(S) /\ Len(a \o <<e>>) = n
      /\ \A k \in 1 .. n : (a \o <<e>>)[k] = IF k < n THEN s[k] ELSE e
  <2>1. /\ a \o <<e>> \in Seq(S) /\ Len(a \o <<e>>) = n
        /\ \A k \in 1 .. n : (a \o <<e>>)[k] = IF k <= n - 1 THEN a[k] ELSE <<e>>[k - (n - 1)]
    BY <1>1, <1>2, <1>4, ConcatProperties
  <2> QED
    BY <1>1, <1>2, <1>4, <2>1
<1> DEFINE c == a \o <<e>>
<1>6. c \in Seq(S) /\ Len(c) = n /\ \A k \in 1 .. n : c[k] = IF k < n THEN s[k] ELSE e
  BY <1>5
<1>7. InsertAt(s, n, e) = c \o b
  BY DEF InsertAt, a, b
<1> HIDE DEF c
<1>8. /\ c \o b \in Seq(S) /\ Len(c \o b) = n + (Len(s) - n + 1)
      /\ \A k \in 1 .. n + (Len(s) - n + 1) :
            (c \o b)[k] = IF k <= n THEN c[k] ELSE b[k - n]
  BY <1>3, <1>6, ConcatProperties
<1>9. n + (Len(s) - n + 1) = Len(s) + 1
  BY <1>1
<1>10. ASSUME NEW k \in 1 .. Len(s) + 1
       PROVE  (c \o b)[k] = IF k < n THEN s[k] ELSE IF k = n THEN e ELSE s[k - 1]
  <2>1. CASE k <= n
    <3>1. (c \o b)[k] = c[k] /\ k \in 1 .. n
      BY <1>1, <1>8, <1>9, <2>1
    <3> QED
      BY <1>1, <1>6, <2>1, <3>1
  <2>2. CASE k > n
    <3>1. k - n \in 1 .. Len(s) - n + 1 /\ n + (k - n) - 1 = k - 1
      BY <1>1, <2>2
    <3>2. (c \o b)[k] = b[k - n]
      BY <1>1, <1>8, <1>9, <2>2
    <3> QED
      BY <1>1, <1>3, <2>2, <3>1, <3>2
  <2>3. k <= n \/ k > n
    BY <1>1
  <2> QED
    BY <2>1, <2>2, <2>3
<1> QED
  BY <1>7, <1>8, <1>9, <1>10

\* Inserting adds the property to the list, wherever it goes.
LEMMA InsertAfterElements ==
    ASSUME NEW S, NEW s \in Seq(S), NEW after, NEW e \in S
    PROVE  /\ InsertAfter(s, after, e) \in Seq(S)
           /\ ToSet(InsertAfter(s, after, e)) = ToSet(s) \cup {e}
           /\ Simple(s) /\ e \notin ToSet(s) => Simple(InsertAfter(s, after, e))
<1> DEFINE n == IF \E k \in DOMAIN s : s[k] = after
                THEN 1 + CHOOSE k \in 1 .. Len(s) : s[k] = after ELSE 1
           t == InsertAfter(s, after, e)
<1>1. n \in 1 .. Len(s) + 1 /\ Len(s) \in Nat
  OBVIOUS
<1>2. t = InsertAt(s, n, e)
  BY DEF InsertAfter
<1> HIDE DEF n, t
<1>3. /\ t \in Seq(S) /\ Len(t) = Len(s) + 1
      /\ \A k \in 1 .. Len(s) + 1 :
            t[k] = IF k < n THEN s[k] ELSE IF k = n THEN e ELSE s[k - 1]
  <2>1. /\ InsertAt(s, n, e) \in Seq(S) /\ Len(InsertAt(s, n, e)) = Len(s) + 1
        /\ \A k \in 1 .. Len(s) + 1 : InsertAt(s, n, e)[k] =
              IF k < n THEN s[k] ELSE IF k = n THEN e ELSE s[k - 1]
    BY <1>1, InsertAtElements
  <2> QED
    BY <1>2, <2>1
<1>4. ToSet(t) \subseteq ToSet(s) \cup {e}
  <2> SUFFICES ASSUME NEW k \in 1 .. Len(s) + 1 PROVE t[k] \in ToSet(s) \cup {e}
    BY <1>3, ElementsIn
  <2>1. CASE k < n
    BY <1>1, <1>3, <2>1, ElementsIn
  <2>2. CASE k = n
    BY <1>1, <1>3, <2>2
  <2>3. CASE k > n
    <3>1. k - 1 \in 1 .. Len(s) /\ t[k] = s[k - 1]
      BY <1>1, <1>3, <2>3
    <3> QED
      BY <3>1, ElementsIn
  <2> QED
    BY <1>1, <2>1, <2>2, <2>3
<1>5. ToSet(s) \cup {e} \subseteq ToSet(t)
  <2>1. e \in ToSet(t)
    BY <1>1, <1>3, ElementsIn
  <2>2. ASSUME NEW k \in 1 .. Len(s) PROVE s[k] \in ToSet(t)
    <3>1. CASE k < n
      <4>1. k \in 1 .. Len(t) /\ t[k] = s[k]
        BY <1>1, <1>3, <3>1
      <4> QED
        BY <1>3, <4>1, ElementsIn
    <3>2. CASE k >= n
      <4>1. k + 1 \in 1 .. Len(t) /\ t[k + 1] = s[k]
        BY <1>1, <1>3, <3>2
      <4> QED
        BY <1>3, <4>1, ElementsIn
    <3> QED
      BY <1>1, <3>1, <3>2
  <2> QED
    BY <2>1, <2>2, ElementsIn
<1>6. ASSUME Simple(s), e \notin ToSet(s) PROVE Simple(t)
  <2>1. \A k \in 1 .. Len(s) : s[k] # e
    BY <1>6, ElementsIn
  <2>2. ASSUME NEW j \in 1 .. Len(t), NEW k \in 1 .. Len(t), j < k PROVE t[j] # t[k]
    <3>1. /\ j # n => LET x == IF j < n THEN j ELSE j - 1
                      IN  x \in 1 .. Len(s) /\ t[j] = s[x]
          /\ k # n => LET x == IF k < n THEN k ELSE k - 1
                      IN  x \in 1 .. Len(s) /\ t[k] = s[x]
      BY <1>1, <1>3, <2>2
    <3> QED
      BY <1>1, <1>3, <1>6, <2>1, <2>2, <3>1 DEF Simple
  <2>3. DOMAIN t = 1 .. Len(t)
    BY <1>3
  <2> QED
    BY <1>1, <1>3, <2>2, <2>3 DEF Simple
<1> QED
  BY <1>3, <1>4, <1>5, <1>6 DEF t

\* Removing takes the property from a list that has it once at most.
LEMMA WithoutElements ==
    ASSUME NEW S, NEW s \in Seq(S), Simple(s), NEW e
    PROVE  /\ Without(s, e) \in Seq(S)
           /\ ToSet(Without(s, e)) = ToSet(s) \ {e}
           /\ Simple(Without(s, e))
           /\ e \notin ToSet(s) => Without(s, e) = s
<1>1. CASE e \notin ToSet(s)
  <2>1. ~\E k \in 1 .. Len(s) : s[k] = e
    BY <1>1, ElementsIn
  <2>2. Without(s, e) = s
    BY <2>1 DEF Without, RemoveFirst
  <2> QED
    BY <1>1, <2>2
<1>2. CASE e \in ToSet(s)
  <2>1. PICK n \in 1 .. Len(s) : s[n] = e
    BY <1>2, ElementsIn
  <2>2. Len(s) \in Nat /\ DOMAIN s = 1 .. Len(s) /\ \A k \in 1 .. Len(s) : s[k] \in S
    OBVIOUS
  <2>3. {k \in 1 .. Len(s) : s[k] = e} = {n}
    BY <2>1, <2>2 DEF Simple
  <2>4. Min({n}) = n
    BY <2>1, <2>2 DEF Min
  <2> DEFINE t == RemoveAt(s, n)
             a == SubSeq(s, 1, n - 1)
             b == SubSeq(s, n + 1, Len(s))
  <2>5. Without(s, e) = t
    BY <2>1, <2>3, <2>4 DEF Without, RemoveFirst, SelectInSeq
  <2>6. /\ a \in Seq(S) /\ Len(a) = n - 1
        /\ \A k \in 1 .. n - 1 : a[k] = s[k]
    <3>1. \A k \in 1 .. n - 1 : s[k] \in S
      BY <2>2
    <3> QED
      BY <2>2, <3>1, SubSeqProperties
  <2>7. /\ b \in Seq(S) /\ Len(b) = Len(s) - n
        /\ \A k \in 1 .. Len(s) - n : b[k] = s[n + k]
    <3>1. \A k \in n + 1 .. Len(s) : s[k] \in S
      BY <2>2
    <3>2. /\ b \in Seq(S) /\ Len(b) = IF n + 1 <= Len(s) THEN Len(s) - (n + 1) + 1 ELSE 0
          /\ \A k \in 1 .. Len(s) - (n + 1) + 1 : b[k] = s[n + 1 + k - 1]
      BY <2>2, <3>1, SubSeqProperties
    <3> DEFINE m == Len(s)
    <3>m. m \in Nat /\ n \in 1 .. m
      BY <2>2
    <3> HIDE DEF m
    <3>3. m - (n + 1) + 1 = m - n /\ (n + 1 <= m \/ m - n = 0)
      BY <3>m
    <3>4. \A k \in 1 .. m - n : n + 1 + k - 1 = n + k
      BY <3>m
    <3> USE DEF m
    <3> QED
      BY <3>2, <3>3, <3>4
  <2>8. t = a \o b
    BY DEF RemoveAt
  <2> HIDE DEF a, b, t
  <2>9. /\ t \in Seq(S) /\ Len(t) = Len(s) - 1
        /\ \A k \in 1 .. Len(s) - 1 : t[k] = IF k < n THEN s[k] ELSE s[k + 1]
    <3>1. /\ a \o b \in Seq(S) /\ Len(a \o b) = (n - 1) + (Len(s) - n)
          /\ \A k \in 1 .. (n - 1) + (Len(s) - n) :
                (a \o b)[k] = IF k <= n - 1 THEN a[k] ELSE b[k - (n - 1)]
      <4>1. /\ a \o b \in Seq(S) /\ Len(a \o b) = Len(a) + Len(b)
            /\ \A k \in 1 .. Len(a) + Len(b) :
                  (a \o b)[k] = IF k <= Len(a) THEN a[k] ELSE b[k - Len(a)]
        BY <2>6, <2>7, ConcatProperties
      <4> QED
        BY <2>6, <2>7, <4>1
    <3>2. (n - 1) + (Len(s) - n) = Len(s) - 1
      BY <2>2
    <3>3. ASSUME NEW k \in 1 .. Len(s) - 1
          PROVE  t[k] = IF k < n THEN s[k] ELSE s[k + 1]
      <4>1. CASE k < n
        BY <2>2, <2>6, <2>8, <3>1, <3>2, <4>1
      <4>2. CASE k >= n
        <5>1. k - (n - 1) \in 1 .. Len(s) - n /\ n + (k - (n - 1)) = k + 1
          BY <2>2, <4>2
        <5>2. t[k] = b[k - (n - 1)]
          BY <2>2, <2>8, <3>1, <3>2, <4>2
        <5> QED
          BY <2>2, <2>7, <4>2, <5>1, <5>2
      <4>3. k < n \/ k >= n
        BY <2>2
      <4> QED
        BY <4>1, <4>2, <4>3
    <3> QED
      BY <2>8, <3>1, <3>2, <3>3
  <2>10. \A k \in 1 .. Len(t) :
            LET x == IF k < n THEN k ELSE k + 1
            IN  x \in 1 .. Len(s) \ {n} /\ t[k] = s[x]
    BY <2>2, <2>9
  <2>11. ToSet(t) \subseteq ToSet(s) \ {e}
    <3> SUFFICES ASSUME NEW k \in 1 .. Len(t) PROVE t[k] \in ToSet(s) \ {e}
      BY <2>9, ElementsIn
    <3>1. PICK x \in 1 .. Len(s) : x # n /\ t[k] = s[x]
      BY <2>10
    <3> QED
      BY <2>1, <2>2, <3>1, ElementsIn DEF Simple
  <2>12. ToSet(s) \ {e} \subseteq ToSet(t)
    <3> SUFFICES ASSUME NEW k \in 1 .. Len(s), s[k] # e PROVE s[k] \in ToSet(t)
      BY ElementsIn
    <3>1. PICK x \in 1 .. Len(t) : t[x] = s[k]
      <4>1. CASE k < n
        BY <2>2, <2>9, <4>1
      <4>2. CASE k > n
        <5>1. k - 1 \in 1 .. Len(t) /\ t[k - 1] = s[k]
          BY <2>2, <2>9, <4>2
        <5> QED
          BY <5>1
      <4>3. k < n \/ k > n
        BY <2>1, <2>2
      <4> QED
        BY <4>1, <4>2, <4>3
    <3> QED
      BY <2>9, <3>1, ElementsIn
  <2>13. Simple(t)
    <3> SUFFICES ASSUME NEW j \in 1 .. Len(t), NEW k \in 1 .. Len(t), t[j] = t[k]
                 PROVE  j = k
      BY <2>9 DEF Simple
    <3>1. (IF j < n THEN j ELSE j + 1) = (IF k < n THEN k ELSE k + 1)
      BY <2>2, <2>10 DEF Simple
    <3> QED
      BY <2>2, <3>1
  <2> QED
    BY <1>2, <2>5, <2>9, <2>11, <2>12, <2>13
<1> QED
  BY <1>1, <1>2

LEMMA ConcatElements ==
    ASSUME NEW S, NEW i \in Seq(S), NEW d \in Seq(S), d # <<>>
    PROVE  /\ i \o d \in Seq(S) /\ i \o d # <<>> /\ Len(i \o d) = Len(i) + Len(d)
           /\ \A k \in 1 .. Len(i) : (i \o d)[k] = i[k]
           /\ \A k \in 1 .. Len(d) : (i \o d)[Len(i) + k] = d[k]
           /\ Last(i \o d) = Last(d)
<1> DEFINE j == i \o d
           m == Len(i)
           n == Len(d)
<1>1. m \in Nat /\ n \in Nat \ {0}
  BY EmptySeq
<1>2. /\ j \in Seq(S) /\ Len(j) = m + n
      /\ \A k \in 1 .. m + n : j[k] = IF k <= m THEN i[k] ELSE d[k - m]
  BY ConcatProperties
<1> HIDE DEF j, m, n
<1>3. ASSUME NEW k \in 1 .. m PROVE j[k] = i[k]
  <2>1. k \in 1 .. m + n /\ k <= m
    BY <1>1
  <2> QED
    BY <1>2, <2>1
<1>4. ASSUME NEW k \in 1 .. n PROVE j[m + k] = d[k]
  <2> DEFINE x == m + k
  <2>1. x \in 1 .. m + n /\ ~(x <= m) /\ x - m = k
    BY <1>1
  <2> HIDE DEF x
  <2>2. j[x] = d[k]
    BY <1>2, <2>1
  <2> QED
    BY <2>2 DEF x
<1>5. j[m + n] = d[n]
  <2>1. n \in 1 .. n
    BY <1>1
  <2> QED
    BY <1>4, <2>1
<1>6. j # <<>>
  BY <1>1, <1>2, EmptySeq
<1> QED
  BY <1>2, <1>3, <1>4, <1>5, <1>6 DEF j, m, n, Last

LEMMA PrefixElements ==
    ASSUME NEW S, NEW s \in Seq(S), NEW n \in 1 .. Len(s)
    PROVE  /\ SubSeq(s, 1, n) \in Seq(S) /\ SubSeq(s, 1, n) # <<>>
           /\ Len(SubSeq(s, 1, n)) = n
           /\ \A k \in 1 .. n : SubSeq(s, 1, n)[k] = s[k]
<1>1. /\ Len(s) \in Nat /\ n \in Nat \ {0}
      /\ \A k \in 1 .. n : s[k] \in S /\ 1 + k - 1 = k
  OBVIOUS
<1>2. /\ SubSeq(s, 1, n) \in Seq(S) /\ Len(SubSeq(s, 1, n)) = n
      /\ \A k \in 1 .. n - 1 + 1 : SubSeq(s, 1, n)[k] = s[1 + k - 1]
  BY <1>1, SubSeqProperties
<1>3. n - 1 + 1 = n
  BY <1>1
<1> QED
  BY <1>1, <1>2, <1>3, EmptySeq

\* The prefixes of a concatenation.
LEMMA ConcatPrefix ==
    ASSUME NEW S, NEW i \in Seq(S), NEW d \in Seq(S), d # <<>>
    PROVE  /\ \A k \in 1 .. Len(i) : SubSeq(i \o d, 1, k) = SubSeq(i, 1, k)
           /\ \A k \in 1 .. Len(d) :
                 SubSeq(i \o d, 1, Len(i) + k) = i \o SubSeq(d, 1, k)
<1> DEFINE j == i \o d
           m == Len(i)
           n == Len(d)
<1>1. m \in Nat /\ n \in Nat \ {0}
  BY EmptySeq
<1>2. /\ j \in Seq(S) /\ Len(j) = m + n
      /\ \A k \in 1 .. m : j[k] = i[k]
      /\ \A k \in 1 .. n : j[m + k] = d[k]
  BY ConcatElements
<1>c. ASSUME NEW e \in Seq(S), e # <<>>
      PROVE  /\ i \o e \in Seq(S) /\ Len(i \o e) = Len(i) + Len(e)
             /\ \A x \in 1 .. Len(i) : (i \o e)[x] = i[x]
             /\ \A x \in 1 .. Len(e) : (i \o e)[Len(i) + x] = e[x]
  BY <1>c, ConcatElements
<1> HIDE DEF j
<1>3. ASSUME NEW k \in 1 .. m PROVE SubSeq(j, 1, k) = SubSeq(i, 1, k)
  <2>1. k \in 1 .. Len(j) /\ k \in Nat /\ \A x \in 1 .. k : x \in 1 .. m
    BY <1>1, <1>2
  <2>2. /\ SubSeq(j, 1, k) \in Seq(S) /\ Len(SubSeq(j, 1, k)) = k
        /\ \A x \in 1 .. k : SubSeq(j, 1, k)[x] = j[x]
    BY <1>2, <2>1, PrefixElements
  <2>3. /\ SubSeq(i, 1, k) \in Seq(S) /\ Len(SubSeq(i, 1, k)) = k
        /\ \A x \in 1 .. k : SubSeq(i, 1, k)[x] = i[x]
    BY PrefixElements
  <2> QED
    BY <1>2, <2>1, <2>2, <2>3, SeqEqual
<1>4. ASSUME NEW k \in 1 .. n PROVE SubSeq(j, 1, m + k) = i \o SubSeq(d, 1, k)
  <2> DEFINE e == SubSeq(d, 1, k)
  <2>1. m + k \in 1 .. Len(j) /\ k \in Nat
    BY <1>1, <1>2
  <2>2. /\ SubSeq(j, 1, m + k) \in Seq(S) /\ Len(SubSeq(j, 1, m + k)) = m + k
        /\ \A x \in 1 .. m + k : SubSeq(j, 1, m + k)[x] = j[x]
    BY <1>2, <2>1, PrefixElements
  <2>3. /\ e \in Seq(S) /\ e # <<>> /\ Len(e) = k
        /\ \A x \in 1 .. k : e[x] = d[x]
    BY PrefixElements
  <2> HIDE DEF e
  <2>4. /\ i \o e \in Seq(S) /\ Len(i \o e) = m + k
        /\ \A x \in 1 .. m : (i \o e)[x] = i[x]
        /\ \A x \in 1 .. k : (i \o e)[m + x] = e[x]
    <3>1. /\ i \o e \in Seq(S) /\ Len(i \o e) = Len(i) + Len(e)
          /\ \A x \in 1 .. Len(i) : (i \o e)[x] = i[x]
          /\ \A x \in 1 .. Len(e) : (i \o e)[Len(i) + x] = e[x]
      BY <1>c, <2>3
    <3> QED
      BY <2>3, <3>1
  <2> HIDE DEF m, n
  <2>5. ASSUME NEW x \in 1 .. m + k PROVE SubSeq(j, 1, m + k)[x] = (i \o e)[x]
    <3>1. CASE x \in 1 .. m
      BY <1>2, <2>2, <2>4, <3>1
    <3>2. CASE x \notin 1 .. m
      <4>1. x - m \in 1 .. k /\ x - m \in 1 .. n /\ m + (x - m) = x
        BY <1>1, <2>1, <3>2
      <4>2. j[x] = d[x - m] /\ (i \o e)[x] = e[x - m] /\ e[x - m] = d[x - m]
        BY <1>2, <2>3, <2>4, <4>1
      <4> QED
        BY <2>2, <4>2
    <3> QED
      BY <3>1, <3>2
  <2> QED
    BY <2>2, <2>4, <2>5, SeqEqual DEF e
<1> QED
  BY <1>3, <1>4 DEF j

-----------------------------------------------------------------------------
(* Graphs: what is below what when edges come and go.  A graph g is sub in *)
(* the state before a step or after it.                                    *)
Graph(g) == \A x \in DOMAIN g : ToSet(g[x]) \subseteq DOMAIN g

ClosedIn(g, C) == \A x \in C : ToSet(g[x]) \subseteq C

BelowIn(g, p) ==
    {x \in DOMAIN g : \A C \in SUBSET DOMAIN g : p \in C /\ ClosedIn(g, C) => x \in C}

NoCycle(g) == \A x \in DOMAIN g : \A y \in ToSet(g[x]) : x \notin BelowIn(g, y)

LEMMA BelowLeast ==
    ASSUME NEW g, NEW p, NEW C \in SUBSET DOMAIN g, p \in C, ClosedIn(g, C)
    PROVE  BelowIn(g, p) \subseteq C
  BY DEF BelowIn

LEMMA BelowClosed ==
    ASSUME NEW g, Graph(g), NEW p \in DOMAIN g
    PROVE  /\ p \in BelowIn(g, p) /\ BelowIn(g, p) \subseteq DOMAIN g
           /\ ClosedIn(g, BelowIn(g, p))
<1>1. p \in BelowIn(g, p) /\ BelowIn(g, p) \subseteq DOMAIN g
  BY DEF BelowIn
<1>2. ASSUME NEW x \in BelowIn(g, p), NEW y \in ToSet(g[x]) PROVE y \in BelowIn(g, p)
  <2>1. y \in DOMAIN g
    BY <1>1, <1>2 DEF Graph
  <2>2. ASSUME NEW C \in SUBSET DOMAIN g, p \in C, ClosedIn(g, C) PROVE y \in C
    BY <1>2, <2>2 DEF BelowIn, ClosedIn
  <2> QED
    BY <2>1, <2>2 DEF BelowIn
<1> QED
  BY <1>1, <1>2 DEF ClosedIn

LEMMA BelowTransitive ==
    ASSUME NEW g, Graph(g), NEW p \in DOMAIN g, NEW x \in BelowIn(g, p)
    PROVE  BelowIn(g, x) \subseteq BelowIn(g, p)
  BY BelowClosed, BelowLeast

\* What is below b depends on nothing but what is below b.
LEMMA SameBelow ==
    ASSUME NEW g, NEW h, Graph(g), Graph(h), NEW b \in DOMAIN g,
           \A x \in BelowIn(g, b) : x \in DOMAIN h /\ h[x] = g[x]
    PROVE  BelowIn(h, b) = BelowIn(g, b)
<1>1. b \in BelowIn(g, b) /\ BelowIn(g, b) \subseteq DOMAIN g /\ ClosedIn(g, BelowIn(g, b))
  BY BelowClosed
<1>2. BelowIn(g, b) \subseteq DOMAIN h /\ ClosedIn(h, BelowIn(g, b))
  BY <1>1 DEF ClosedIn
<1>3. BelowIn(h, b) \subseteq BelowIn(g, b)
  BY <1>1, <1>2, BelowLeast
<1>4. b \in BelowIn(h, b) /\ ClosedIn(h, BelowIn(h, b))
  BY <1>1, <1>2, BelowClosed
<1>5. BelowIn(h, b) \subseteq DOMAIN g /\ ClosedIn(g, BelowIn(h, b))
  BY <1>1, <1>3, <1>4 DEF ClosedIn
<1>6. BelowIn(g, b) \subseteq BelowIn(h, b)
  BY <1>4, <1>5, BelowLeast
<1> QED
  BY <1>3, <1>6

\* A property that is created is below nothing, and nothing is below it.
LEMMA NewVertex ==
    ASSUME NEW g, NEW h, Graph(g), Graph(h), NoCycle(g),
           \A x \in DOMAIN g : x \in DOMAIN h /\ h[x] = g[x],
           \A x \in DOMAIN h \ DOMAIN g : ToSet(h[x]) = {}
    PROVE  NoCycle(h)
<1> SUFFICES ASSUME NEW x \in DOMAIN h, NEW y \in ToSet(h[x]) PROVE x \notin BelowIn(h, y)
  BY DEF NoCycle
<1>1. x \in DOMAIN g /\ y \in ToSet(g[x]) /\ y \in DOMAIN g
  BY DEF Graph
<1>2. BelowIn(h, y) = BelowIn(g, y)
  BY <1>1, BelowClosed, SameBelow
<1> QED
  BY <1>1, <1>2 DEF NoCycle

\* Edges and vertices that go make no cycle.
LEMMA FewerEdges ==
    ASSUME NEW g, NEW h, Graph(g), Graph(h), DOMAIN h \subseteq DOMAIN g,
           \A x \in DOMAIN h : ToSet(h[x]) \subseteq ToSet(g[x])
    PROVE  /\ \A b \in DOMAIN h : BelowIn(h, b) \subseteq BelowIn(g, b)
           /\ NoCycle(g) => NoCycle(h)
<1>1. ASSUME NEW b \in DOMAIN h PROVE BelowIn(h, b) \subseteq BelowIn(g, b)
  <2> DEFINE C == BelowIn(g, b) \cap DOMAIN h
  <2>1. b \in BelowIn(g, b) /\ ClosedIn(g, BelowIn(g, b))
    BY BelowClosed
  <2>2. C \in SUBSET DOMAIN h /\ b \in C /\ ClosedIn(h, C)
    BY <2>1 DEF ClosedIn, Graph
  <2> HIDE DEF C
  <2>3. BelowIn(h, b) \subseteq C
    BY <2>2, BelowLeast
  <2> QED
    BY <2>3 DEF C
<1>2. ASSUME NoCycle(g) PROVE NoCycle(h)
  BY <1>1, <1>2 DEF NoCycle, Graph
<1> QED
  BY <1>1, <1>2

\* An edge from q to p makes no cycle if q is not below p; what is below p is
\* then below what q is below.
LEMMA NewEdge ==
    ASSUME NEW g, NEW h, Graph(g), NoCycle(g), DOMAIN h = DOMAIN g,
           NEW q \in DOMAIN g, NEW p \in DOMAIN g, q \notin BelowIn(g, p),
           \A x \in DOMAIN g \ {q} : h[x] = g[x],
           ToSet(h[q]) = ToSet(g[q]) \cup {p}
    PROVE  /\ NoCycle(h)
           /\ \A b \in DOMAIN g : BelowIn(h, b) =
                 IF q \in BelowIn(g, b) THEN BelowIn(g, b) \cup BelowIn(g, p)
                 ELSE BelowIn(g, b)
<1>1. Graph(h)
  BY DEF Graph
<1>2. /\ p \in BelowIn(g, p) /\ BelowIn(g, p) \subseteq DOMAIN g
      /\ ClosedIn(g, BelowIn(g, p))
  BY BelowClosed
<1>3. ASSUME NEW b \in DOMAIN g
      PROVE  /\ q \notin BelowIn(g, b) => BelowIn(h, b) = BelowIn(g, b)
             /\ q \in BelowIn(g, b) => BelowIn(h, b) = BelowIn(g, b) \cup BelowIn(g, p)
  <2>1. b \in BelowIn(g, b) /\ BelowIn(g, b) \subseteq DOMAIN g /\ ClosedIn(g, BelowIn(g, b))
    BY BelowClosed
  <2>2. CASE q \notin BelowIn(g, b)
    <3>1. \A x \in BelowIn(g, b) : x \in DOMAIN h /\ h[x] = g[x]
      BY <2>1, <2>2
    <3> QED
      BY <1>1, <2>2, <3>1, SameBelow
  <2>3. CASE q \in BelowIn(g, b)
    <3> DEFINE C == BelowIn(g, b) \cup BelowIn(g, p)
    <3>1. C \in SUBSET DOMAIN h /\ b \in C /\ ClosedIn(h, C)
      BY <1>2, <2>1, <2>3 DEF ClosedIn
    <3> HIDE DEF C
    <3>2. BelowIn(h, b) \subseteq C
      BY <3>1, BelowLeast
    <3>3. b \in BelowIn(h, b) /\ BelowIn(h, b) \subseteq DOMAIN h /\ ClosedIn(h, BelowIn(h, b))
      BY <1>1, BelowClosed
    <3>4. \A x \in DOMAIN g : ToSet(g[x]) \subseteq ToSet(h[x])
      OBVIOUS
    <3>5. ClosedIn(g, BelowIn(h, b))
      BY <3>3, <3>4 DEF ClosedIn
    <3>6. BelowIn(g, b) \subseteq BelowIn(h, b)
      BY <3>3, <3>5, BelowLeast
    <3>7. p \in BelowIn(h, b)
      BY <2>3, <3>3, <3>6 DEF ClosedIn
    <3>8. BelowIn(g, p) \subseteq BelowIn(h, b)
      BY <3>3, <3>5, <3>7, BelowLeast
    <3> QED
      BY <2>3, <3>2, <3>6, <3>8 DEF C
  <2> QED
    BY <2>2, <2>3
<1>4. NoCycle(h)
  <2> SUFFICES ASSUME NEW x \in DOMAIN g, NEW y \in ToSet(h[x]), x \in BelowIn(h, y)
               PROVE  FALSE
    BY DEF NoCycle
  <2>1. y \in DOMAIN g
    BY <1>1 DEF Graph
  <2>2. CASE y \in ToSet(g[x])
    <3>1. x \notin BelowIn(g, y)
      BY <2>2 DEF NoCycle
    <3>2. q \in BelowIn(g, y) /\ x \in BelowIn(g, p)
      BY <1>3, <2>1, <3>1
    <3>3. y \in BelowIn(g, p)
      BY <1>2, <2>2, <3>2 DEF ClosedIn
    <3> QED
      BY <3>2, <3>3, BelowTransitive
  <2>3. CASE y \notin ToSet(g[x])
    <3>1. x = q /\ y = p
      BY <2>3
    <3>2. BelowIn(h, p) = BelowIn(g, p)
      BY <1>3
    <3> QED
      BY <3>1, <3>2
  <2> QED
    BY <2>2, <2>3
<1> QED
  BY <1>3, <1>4

-----------------------------------------------------------------------------
(* The graph of the properties.                                            *)

LEMMA SubGraph ==
    ASSUME Typed, Acyclic
    PROVE  /\ Graph(sub) /\ NoCycle(sub) /\ Browser \notin Exists
           /\ \A p \in DOMAIN sub : /\ Sub(p) \subseteq Exists
                                    /\ Below(p) = BelowIn(sub, p)
                                    /\ p \in Below(p) /\ Below(p) \subseteq DOMAIN sub
                                    /\ IsClosed(Below(p))
           /\ \A p \in Exists : Below(p) \subseteq Exists
<1>1. \A p \in DOMAIN sub : Sub(p) \subseteq Exists
  <2> SUFFICES ASSUME NEW p \in DOMAIN sub PROVE Sub(p) \subseteq Exists
    OBVIOUS
  <2>1. sub[p] \in Seq(Exists)
    BY DEF Typed
  <2> QED
    BY <2>1, ElementsIn DEF Sub
<1>2. Graph(sub)
  BY <1>1 DEF Graph, Sub, Exists
<1>3. \A p : Below(p) = BelowIn(sub, p)
  BY DEF Below, BelowIn, IsClosed, ClosedIn, Sub
<1>4. \A p \in DOMAIN sub : /\ p \in Below(p) /\ Below(p) \subseteq DOMAIN sub
                            /\ IsClosed(Below(p))
  BY <1>2, <1>3, BelowClosed DEF IsClosed, ClosedIn, Sub
<1>5. NoCycle(sub)
  BY <1>3 DEF NoCycle, Acyclic, Sub
<1>6. ASSUME NEW p \in Exists PROVE Below(p) \subseteq Exists
  <2>1. Exists \in SUBSET DOMAIN sub /\ ClosedIn(sub, Exists)
    BY <1>1 DEF Exists, ClosedIn, Sub
  <2> QED
    BY <1>3, <2>1, BelowLeast
<1> QED
  BY <1>1, <1>2, <1>3, <1>4, <1>5, <1>6 DEF Exists

LEMMA ExistsFinite ==
    ASSUME Typed
    PROVE  /\ IsFiniteSet(Exists) /\ IsFiniteSet(DOMAIN sub)
           /\ Cardinality(Exists) \in Nat
<1>1. IsFiniteSet(Exists)
  BY ConstantsAssumption, FS_Subset DEF Typed
<1>2. DOMAIN sub = Exists \cup {Browser}
  BY DEF Typed, Exists
<1> QED
  BY <1>1, <1>2, FS_AddElement, FS_CardinalityType

\* The registered properties are those below the browser.
LEMMA RegisteredIsShown ==
    ASSUME Typed, Acyclic, ParentsShown, NEW q \in DOMAIN sub
    PROVE  Registered(q) <=> q \in Below(Browser)
<1> DEFINE R == Below(Browser)
<1>1. Browser \in DOMAIN sub
  BY DEF Typed
<1>2. Browser \in R /\ R \subseteq DOMAIN sub /\ IsClosed(R)
  BY <1>1, SubGraph
<1>3. CASE q = Browser
  BY <1>2, <1>3 DEF Registered
<1>4. CASE q # Browser
  <2>1. q \in Exists
    BY <1>4 DEF Exists
  <2>2. ASSUME Registered(q) PROVE q \in R
    <3>1. PICK x \in R : q \in Sub(x)
      BY <1>4, <2>1, <2>2 DEF Registered, ParentsShown
    <3> QED
      BY <1>2, <3>1 DEF IsClosed
  <2>3. ASSUME q \in R, ~Registered(q) PROVE FALSE
    <3>1. \A x \in R : q \notin Sub(x)
      BY <2>1, <2>3 DEF Registered, ParentsShown
    <3>2. /\ R \ {q} \in SUBSET DOMAIN sub /\ Browser \in R \ {q}
          /\ ClosedIn(sub, R \ {q})
      BY <1>2, <1>4, <3>1 DEF IsClosed, ClosedIn, Sub
    <3>3. R \subseteq R \ {q}
      BY <1>1, <3>2, BelowLeast, SubGraph
    <3> QED
      BY <2>3, <3>3
  <2> QED
    BY <2>2, <2>3
<1> QED
  BY <1>3, <1>4

\* Up from any property one comes to the end: there are finitely many, and
\* none is above itself.
LEMMA WellFounded ==
    ASSUME Typed, Acyclic, NEW U \in SUBSET DOMAIN sub,
           \A x \in U : \E y \in U : x \in Sub(y)
    PROVE  U = {}
<1> DEFINE N == Cardinality(DOMAIN sub)
           size(x) == Cardinality(Below(x))
           T == {n \in Nat : \E x \in U : n = N - size(x)}
<1>1. \A x \in DOMAIN sub : size(x) \in Nat /\ size(x) <= N
  BY ExistsFinite, SubGraph, FS_Subset, FS_CardinalityType
<1>2. N \in Nat
  BY ExistsFinite, FS_CardinalityType
<1>3. ASSUME NEW x \in U, NEW y \in U, x \in Sub(y) PROVE size(x) < size(y)
  <2>1. x \in Below(y) /\ Below(x) \subseteq Below(y)
    <3>1. x \in Below(y)
      BY <1>3, SubGraph DEF IsClosed
    <3> QED
      BY <3>1, SubGraph, BelowTransitive
  <2>2. y \in Below(y) /\ y \notin Below(x)
    BY <1>3, SubGraph DEF Acyclic
  <2>3. IsFiniteSet(Below(y))
    BY ExistsFinite, SubGraph, FS_Subset
  <2>4. size(x) <= size(y) /\ size(x) # size(y)
    BY <2>1, <2>2, <2>3, FS_Subset
  <2> QED
    BY <1>1, <2>4
<1> SUFFICES ASSUME U # {} PROVE FALSE
  OBVIOUS
<1>4. \A x \in U : N - size(x) \in T
  BY <1>1, <1>2
<1>5. T \subseteq Nat /\ T # {}
  BY <1>4
<1> HIDE DEF N, size, T
<1>6. PICK n \in T : \A m \in T : <<m, n>> \notin OpToRel(<, Nat)
  BY <1>5, NatLessThanWellFounded, WFMin
<1>7. PICK x \in U : n = N - size(x)
  BY DEF T
<1>8. PICK y \in U : x \in Sub(y)
  OBVIOUS
<1>9. N - size(y) < n
  BY <1>1, <1>2, <1>3, <1>7, <1>8
<1>10. N - size(y) \in T /\ N - size(y) \in Nat /\ n \in Nat
  BY <1>4, <1>5
<1>11. <<N - size(y), n>> \in OpToRel(<, Nat)
  BY <1>9, <1>10 DEF OpToRel
<1> QED
  BY <1>6, <1>10, <1>11

-----------------------------------------------------------------------------
(* Paths and descents.                                                     *)

\* A path stays below where it starts.
LEMMA PathBelow ==
    ASSUME NEW i, Len(i) \in Nat, IsPath(i), NEW C, IsClosed(C), i[1] \in C
    PROVE  \A k \in 1 .. Len(i) : i[k] \in C
<1>1. \A k \in 1 .. Len(i) - 1 : i[k] \in C => i[k + 1] \in C
  BY DEF IsPath, IsClosed
<1> QED
  BY <1>1, Along

\* No path has a property twice,
LEMMA PathSimple ==
    ASSUME Typed, Acyclic, NEW i \in Seq(DOMAIN sub), IsPath(i)
    PROVE  Simple(i)
<1> SUFFICES ASSUME NEW j \in 1 .. Len(i), NEW k \in 1 .. Len(i), j < k, i[j] = i[k]
             PROVE  FALSE
  BY DEF Simple
<1> DEFINE e == [n \in 1 .. k - j |-> i[j + n]]
           C == Below(i[j + 1])
<1>1. j + 1 \in 1 .. Len(i) /\ k - j \in Nat \ {0} /\ i[j + 1] \in Sub(i[j])
  BY DEF IsPath
<1>2. i[j + 1] \in DOMAIN sub /\ i[j] \in DOMAIN sub
  BY <1>1
<1>3. i[j + 1] \in C /\ IsClosed(C)
  BY <1>2, SubGraph
<1>4. i[j] \notin C
  BY <1>1, <1>2 DEF Acyclic
<1>5. \A n \in 1 .. k - j - 1 : e[n + 1] \in Sub(e[n])
  BY <1>1 DEF IsPath
<1>6. e[1] = i[j + 1]
  BY <1>1
<1> HIDE DEF C, e
<1>7. \A n \in 1 .. k - j : e[n] \in C
  <2>1. e[1] \in C /\ \A n \in 1 .. k - j - 1 : e[n] \in C => e[n + 1] \in C
    BY <1>3, <1>5, <1>6 DEF IsClosed
  <2> QED
    BY <1>1, <2>1, Along
<1>8. e[k - j] = i[k]
  BY <1>1 DEF e
<1> QED
  BY <1>1, <1>4, <1>7, <1>8

\* so that none is longer than there are properties.
LEMMA PathLength ==
    ASSUME Typed, Acyclic, NEW d \in Seq(Exists), IsPath(d)
    PROVE  d \in SeqOf(Exists, Cardinality(Exists))
<1>1. d \in Seq(DOMAIN sub)
  BY DEF Exists
<1>2. Simple(d)
  BY <1>1, PathSimple
<1>3. d \in [1 .. Len(d) -> Exists] /\ Len(d) \in Nat
  BY LenProperties
<1>4. d \in Injection(1 .. Len(d), Exists)
  BY <1>2, <1>3 DEF Injection, IsInjective, Simple
<1>5. Cardinality(1 .. Len(d)) = Len(d)
  <2>1. Cardinality(1 .. Len(d)) = IF 1 > Len(d) THEN 0 ELSE Len(d) - 1 + 1
    BY <1>3, FS_Interval
  <2> QED
    BY <1>3, <2>1
<1>6. Len(d) <= Cardinality(Exists)
  BY <1>4, <1>5, ExistsFinite, FS_Injection
<1>7. Len(d) \in 0 .. Cardinality(Exists)
  BY <1>3, <1>6, ExistsFinite
<1> QED
  BY <1>3, <1>7 DEF SeqOf

\* The descents from p are the paths from p.
LEMMA DescentsArePaths ==
    ASSUME Typed, Acyclic, NEW p \in Exists
    PROVE  \A d : d \in Descents(p) <=>
                     d \in Seq(Exists) /\ d # <<>> /\ d[1] = p /\ IsPath(d)
<1>1. ASSUME NEW d \in SeqOf(Exists, Cardinality(Exists)) PROVE d \in Seq(Exists)
  <2>1. PICK m \in 0 .. Cardinality(Exists) : d \in [1 .. m -> Exists]
    BY DEF SeqOf
  <2>2. m \in Nat
    BY ExistsFinite
  <2> QED
    BY <2>1, <2>2
<1> QED
  BY <1>1, PathLength DEF Descents, IsPath

\* A descent goes on to every sub-property of its last property.
LEMMA DescentGoesOn ==
    ASSUME NEW S, NEW d \in Seq(S), d # <<>>, NEW x \in S
    PROVE  IsPath(Append(d, x)) <=> IsPath(d) /\ x \in Sub(Last(d))
<1>1. /\ Len(d) \in Nat \ {0} /\ Len(Append(d, x)) = Len(d) + 1
      /\ Append(d, x)[Len(d) + 1] = x
      /\ \A k \in 1 .. Len(d) : Append(d, x)[k] = d[k]
  BY AppendProperties, EmptySeq
<1>2. ASSUME IsPath(Append(d, x)) PROVE IsPath(d) /\ x \in Sub(Last(d))
  <2>1. \A k \in 1 .. Len(d) : Append(d, x)[k + 1] \in Sub(Append(d, x)[k])
    BY <1>1, <1>2 DEF IsPath
  <2>2. ASSUME NEW k \in 1 .. Len(d) - 1 PROVE d[k + 1] \in Sub(d[k])
    <3>1. k \in 1 .. Len(d) /\ k + 1 \in 1 .. Len(d)
      BY <1>1
    <3> QED
      BY <1>1, <2>1, <3>1
  <2>3. x \in Sub(d[Len(d)])
    <3>1. Len(d) \in 1 .. Len(d)
      BY <1>1
    <3> QED
      BY <1>1, <2>1, <3>1
  <2> QED
    BY <2>2, <2>3 DEF IsPath, Last
<1>3. ASSUME IsPath(d), x \in Sub(Last(d)) PROVE IsPath(Append(d, x))
  <2> SUFFICES ASSUME NEW k \in 1 .. Len(d)
               PROVE  Append(d, x)[k + 1] \in Sub(Append(d, x)[k])
    BY <1>1 DEF IsPath
  <2>1. CASE k = Len(d)
    BY <1>1, <1>3, <2>1 DEF Last
  <2>2. CASE k # Len(d)
    <3>1. k \in 1 .. Len(d) - 1 /\ k + 1 \in 1 .. Len(d)
      BY <1>1, <2>2
    <3> QED
      BY <1>1, <1>3, <3>1 DEF IsPath
  <2> QED
    BY <2>1, <2>2
<1> QED
  BY <1>2, <1>3

-----------------------------------------------------------------------------
(* The registered properties.                                              *)

\* What insertSubTree() goes through is what is new on the screen.
LEMMA FreshIsNew ==
    ASSUME Typed, Acyclic, ParentsShown, NEW p \in Exists
    PROVE  Fresh(p) = Below(p) \ Below(Browser)
<1>1. /\ Browser \in DOMAIN sub /\ Exists \subseteq DOMAIN sub
      /\ Below(Browser) \subseteq DOMAIN sub /\ IsClosed(Below(Browser))
      /\ p \in Below(p) /\ Below(p) \subseteq Exists /\ IsClosed(Below(p))
      /\ \A x \in DOMAIN sub : Sub(x) \subseteq Exists
  <2>1. Browser \in DOMAIN sub /\ Exists \subseteq DOMAIN sub
    BY DEF Typed, Exists
  <2> QED
    BY <2>1, SubGraph
<1>2. Fresh(p) \subseteq Below(p) \ Below(Browser)
  <2> SUFFICES ASSUME NEW d \in Descents(p), \A k \in 1 .. Len(d) : ~Registered(d[k])
               PROVE  Last(d) \in Below(p) \ Below(Browser)
    BY DEF Fresh
  <2>1. d \in Seq(Exists) /\ d # <<>> /\ d[1] = p /\ IsPath(d)
    BY DescentsArePaths
  <2>2. Len(d) \in Nat /\ Len(d) \in 1 .. Len(d) /\ d[Len(d)] \in Exists
    BY <2>1
  <2>3. d[Len(d)] \in Below(p)
    BY <1>1, <2>1, <2>2, PathBelow
  <2>4. ~Registered(d[Len(d)])
    BY <2>2
  <2> QED
    BY <1>1, <2>2, <2>3, <2>4, RegisteredIsShown DEF Last
<1>3. Below(p) \ Below(Browser) \subseteq Fresh(p)
  <2> DEFINE C == Fresh(p) \cup Below(Browser)
  <2>1. C \subseteq DOMAIN sub
    BY <1>1, <1>2
  <2>2. p \in C
    <3> SUFFICES ASSUME p \notin Below(Browser) PROVE p \in Fresh(p)
      OBVIOUS
    <3>1. <<p>> \in Descents(p)
      <4>1. <<p>> \in Seq(Exists) /\ <<p>> # <<>> /\ <<p>>[1] = p /\ Len(<<p>>) = 1
        OBVIOUS
      <4>2. IsPath(<<p>>)
        BY <4>1 DEF IsPath
      <4> QED
        BY <4>1, <4>2, DescentsArePaths
    <3>2. ~Registered(p)
      BY <1>1, RegisteredIsShown
    <3>3. Last(<<p>>) = p /\ \A k \in 1 .. Len(<<p>>) : ~Registered(<<p>>[k])
      BY <3>2 DEF Last
    <3> QED
      BY <3>1, <3>3 DEF Fresh
  <2>3. ASSUME NEW x \in C, NEW y \in Sub(x) PROVE y \in C
    <3>1. CASE x \in Below(Browser)
      BY <1>1, <3>1 DEF IsClosed
    <3>2. CASE x \in Fresh(p) /\ y \notin Below(Browser)
      <4>1. PICK d \in Descents(p) : x = Last(d) /\ \A k \in 1 .. Len(d) : ~Registered(d[k])
        BY <3>2 DEF Fresh
      <4>2. d \in Seq(Exists) /\ d # <<>> /\ d[1] = p /\ IsPath(d)
        BY DescentsArePaths
      <4>3. y \in Exists /\ ~Registered(y)
        BY <1>1, <2>1, <2>3, <3>2, RegisteredIsShown
      <4>4. /\ Append(d, y) \in Seq(Exists) /\ Append(d, y) # <<>>
            /\ Len(Append(d, y)) = Len(d) + 1 /\ Last(Append(d, y)) = y
            /\ \A k \in 1 .. Len(d) : Append(d, y)[k] = d[k]
        BY <4>2, <4>3, AppendElements
      <4>5. IsPath(Append(d, y))
        BY <2>3, <4>1, <4>2, <4>3, DescentGoesOn
      <4>6. Len(d) \in Nat \ {0} /\ Append(d, y)[1] = p
        BY <4>2, <4>4, EmptySeq
      <4>7. Append(d, y) \in Descents(p)
        BY <4>4, <4>5, <4>6, DescentsArePaths
      <4>8. ASSUME NEW k \in 1 .. Len(d) + 1 PROVE ~Registered(Append(d, y)[k])
        <5>1. CASE k = Len(d) + 1
          BY <4>3, <4>4, <5>1 DEF Last
        <5>2. CASE k # Len(d) + 1
          <6>1. k \in 1 .. Len(d)
            BY <4>6, <5>2
          <6> QED
            BY <4>1, <4>4, <6>1
        <5> QED
          BY <5>1, <5>2
      <4> QED
        BY <4>4, <4>7, <4>8 DEF Fresh
    <3> QED
      BY <2>3, <3>1, <3>2
  <2> HIDE DEF C
  <2>4. ClosedIn(sub, C)
    BY <2>3 DEF ClosedIn, Sub
  <2>5. Below(p) \subseteq C
    BY <1>1, <2>1, <2>2, <2>4, BelowLeast, SubGraph
  <2> QED
    BY <2>5 DEF C
<1> QED
  BY <1>2, <1>3

\* insertSubTree() makes the parents those that are shown with p under q.
LEMMA InsertSubTreeShows ==
    ASSUME Typed, Acyclic, ParentsShown, NEW p \in Exists, NEW q \in DOMAIN sub
    PROVE  InsertSubTree(p, q) =
             [x \in Exists |-> {y \in Below(Browser) \cup Below(p) : x \in Sub(y)}
                                 \cup IF x = p THEN {q} ELSE {}]
<1>1. \A x \in Exists : toParents[x] = {y \in Below(Browser) : x \in Sub(y)}
  BY DEF ParentsShown
<1>2. ASSUME NEW x \in Exists
      PROVE  toParents[x] \cup {y \in Fresh(p) : x \in Sub(y)} =
                {y \in Below(Browser) \cup Below(p) : x \in Sub(y)}
  BY <1>1, FreshIsNew
<1> QED
  BY <1>2 DEF InsertSubTree

\* What is below y, and what is below the browser, when p is taken from the
\* properties in from.
Cut(p, from, y) == IF y \in from THEN Sub(y) \ {p} ELSE Sub(y)

CutClosed(p, from, C) == \A y \in C : Cut(p, from, y) \subseteq C

Kept(p, from) ==
    {x \in DOMAIN sub :
        \A C \in SUBSET DOMAIN sub : Browser \in C /\ CutClosed(p, from, C) => x \in C}

LEMMA KeptClosed ==
    ASSUME Typed, Acyclic, NEW p \in Exists, NEW from
    PROVE  /\ Browser \in Kept(p, from) /\ Kept(p, from) \subseteq Below(Browser)
           /\ CutClosed(p, from, Kept(p, from))
<1> DEFINE K == Kept(p, from)
<1>1. /\ Browser \in DOMAIN sub /\ Browser \in Below(Browser)
      /\ Below(Browser) \subseteq DOMAIN sub /\ IsClosed(Below(Browser))
      /\ \A x \in DOMAIN sub : Sub(x) \subseteq DOMAIN sub
  <2>1. Browser \in DOMAIN sub
    BY DEF Typed
  <2> QED
    BY <2>1, SubGraph DEF Exists
<1>2. Browser \in K /\ K \subseteq DOMAIN sub
  BY <1>1 DEF Kept
<1>3. K \subseteq Below(Browser)
  <2>1. CutClosed(p, from, Below(Browser))
    BY <1>1 DEF CutClosed, Cut, IsClosed
  <2> QED
    BY <1>1, <2>1 DEF Kept
<1>4. ASSUME NEW x \in K, NEW y \in Cut(p, from, x) PROVE y \in K
  <2>1. y \in DOMAIN sub
    BY <1>1, <1>2, <1>4 DEF Cut
  <2>2. ASSUME NEW C \in SUBSET DOMAIN sub, Browser \in C, CutClosed(p, from, C)
        PROVE  y \in C
    BY <1>4, <2>2 DEF Kept, CutClosed
  <2> QED
    BY <2>1, <2>2 DEF Kept
<1> QED
  BY <1>2, <1>3, <1>4 DEF CutClosed

LEMMA KeptLeast ==
    ASSUME NEW p, NEW from, NEW C \in SUBSET DOMAIN sub, Browser \in C, CutClosed(p, from, C)
    PROVE  Kept(p, from) \subseteq C
  BY DEF Kept

\* A property that is kept, other than the browser, is kept under another one.
LEMMA KeptUnder ==
    ASSUME Typed, Acyclic, NEW p \in Exists, NEW from, NEW x \in Exists,
           \A y \in Kept(p, from) : x \notin Cut(p, from, y)
    PROVE  x \notin Kept(p, from)
<1> DEFINE C == Kept(p, from) \ {x}
<1>1. /\ Browser \in Kept(p, from) /\ Kept(p, from) \subseteq DOMAIN sub
      /\ CutClosed(p, from, Kept(p, from)) /\ x # Browser
  BY KeptClosed DEF Kept, Exists
<1>2. C \in SUBSET DOMAIN sub /\ Browser \in C /\ CutClosed(p, from, C)
  BY <1>1 DEF CutClosed
<1> HIDE DEF C
<1>3. Kept(p, from) \subseteq C
  BY <1>2, KeptLeast
<1> QED
  BY <1>3 DEF C

\* What loses its last parent is what is not kept: no more is unregistered,
LEMMA UnregisteredIsLost ==
    ASSUME Typed, Acyclic, ParentsShown, NEW p \in Below(Browser) \ {Browser},
           NEW from \in SUBSET Below(Browser)
    PROVE  Unregistered(p, from) \subseteq Below(Browser) \ Kept(p, from)
<1> DEFINE G == Below(Browser) \ Kept(p, from)
<1>1. /\ Below(Browser) \subseteq DOMAIN sub /\ IsClosed(Below(Browser)) /\ p \in Exists
      /\ Browser \in DOMAIN sub
  BY SubGraph DEF Typed, Exists
<1>2. /\ Browser \in Kept(p, from) /\ Kept(p, from) \subseteq Below(Browser)
      /\ CutClosed(p, from, Kept(p, from))
  BY <1>1, KeptClosed
<1>3. G \in SUBSET Exists
  BY <1>1, <1>2 DEF Exists
<1>4. ASSUME toParents[p] \subseteq from PROVE p \in G
  <2>1. \A y \in Kept(p, from) : p \notin Cut(p, from, y)
    BY <1>1, <1>2, <1>4 DEF Cut, ParentsShown
  <2> QED
    BY <1>1, <2>1, KeptUnder
<1>5. ASSUME NEW q \in Exists, {y \in G : q \in Sub(y)} # {},
             toParents[q] \subseteq {y \in G : q \in Sub(y)}
      PROVE  q \in G
  <2>1. q \in Below(Browser)
    BY <1>1, <1>5 DEF IsClosed
  <2>2. \A y \in Kept(p, from) : q \notin Cut(p, from, y)
    BY <1>2, <1>5 DEF Cut, ParentsShown
  <2> QED
    BY <1>1, <2>1, <2>2, KeptUnder
<1> HIDE DEF G
<1>6. Loses(G, p, from)
  BY <1>4, <1>5 DEF Loses
<1> QED
  BY <1>3, <1>6 DEF Unregistered, G

\* and no less, since up from what is lost one comes to p.
LEMMA LostIsUnregistered ==
    ASSUME Typed, Acyclic, ParentsShown, NEW p \in Below(Browser) \ {Browser},
           NEW from \in SUBSET Below(Browser),
           NEW G \in SUBSET Exists, Loses(G, p, from),
           toParents[p] \subseteq from \/ G = {}
    PROVE  Below(Browser) \ Kept(p, from) \subseteq G
<1> DEFINE K == Kept(p, from)
           U == (Below(Browser) \ K) \ G
<1>1. /\ Below(Browser) \subseteq DOMAIN sub /\ IsClosed(Below(Browser)) /\ p \in Exists
      /\ Browser \in DOMAIN sub
  BY SubGraph DEF Typed, Exists
<1>2. Browser \in K /\ K \subseteq Below(Browser) /\ CutClosed(p, from, K)
  BY <1>1, KeptClosed
<1>3. ASSUME NEW x \in U PROVE \E y \in U : x \in Sub(y)
  <2>1. x \in Exists /\ x \in Below(Browser) /\ x \notin K /\ x \notin G
    BY <1>1, <1>2 DEF Exists
  <2>2. toParents[x] = {y \in Below(Browser) : x \in Sub(y)} /\ toParents[x] # {}
    <3>1. Registered(x)
      BY <1>1, <2>1, RegisteredIsShown
    <3> QED
      BY <2>1, <3>1 DEF Registered, ParentsShown, Exists
  <2>3. \A y \in K : x \notin Cut(p, from, y)
    BY <1>2, <2>1 DEF CutClosed
  <2>4. CASE x = p
    <3>1. ~(toParents[p] \subseteq from) /\ G = {}
      BY <2>1, <2>4 DEF Loses
    <3>2. PICK y \in toParents[p] : y \notin from
      BY <3>1
    <3>3. y \in Below(Browser) /\ x \in Sub(y)
      BY <2>2, <2>4
    <3>4. y \notin K
      BY <2>3, <3>2, <3>3 DEF Cut
    <3> QED
      BY <3>1, <3>3, <3>4
  <2>5. CASE x # p
    <3>1. \A y \in toParents[x] : y \notin K
      BY <2>2, <2>3, <2>5 DEF Cut
    <3>2. PICK y \in toParents[x] : y \notin G
      <4> SUFFICES ASSUME toParents[x] \subseteq G PROVE FALSE
        OBVIOUS
      <4>1. toParents[x] \subseteq {y \in G : x \in Sub(y)}
        BY <2>2
      <4> QED
        BY <2>1, <2>2, <4>1 DEF Loses
    <3> QED
      BY <2>2, <3>1, <3>2
  <2> QED
    BY <2>4, <2>5
<1>4. U \in SUBSET DOMAIN sub
  BY <1>1
<1> HIDE DEF U
<1>5. U = {}
  BY <1>3, <1>4, WellFounded
<1> QED
  BY <1>5 DEF U

LEMMA UnregisteredIs ==
    ASSUME Typed, Acyclic, ParentsShown, NEW p \in Below(Browser) \ {Browser},
           NEW from \in SUBSET Below(Browser)
    PROVE  Unregistered(p, from) = Below(Browser) \ Kept(p, from)
<1>1. Unregistered(p, from) \subseteq Below(Browser) \ Kept(p, from)
  BY UnregisteredIsLost
<1>2. /\ Below(Browser) \ Kept(p, from) \subseteq Exists
      /\ p \in Exists
  BY SubGraph, KeptClosed DEF Typed, Exists
<1>3. CASE toParents[p] \subseteq from
  <2>1. ASSUME NEW G \in SUBSET Exists, Loses(G, p, from)
        PROVE  Below(Browser) \ Kept(p, from) \subseteq G
    BY <1>3, <2>1, LostIsUnregistered
  <2>2. Below(Browser) \ Kept(p, from) \subseteq Unregistered(p, from)
    BY <1>2, <2>1 DEF Unregistered
  <2> QED
    BY <1>1, <2>2
<1>4. CASE ~(toParents[p] \subseteq from)
  <2>1. {} \in SUBSET Exists /\ Loses({}, p, from)
    BY <1>4 DEF Loses
  <2>2. Below(Browser) \ Kept(p, from) \subseteq {}
    BY <2>1, LostIsUnregistered
  <2> QED
    BY <1>1, <2>2
<1> QED
  BY <1>3, <1>4

\* removeSubTree() leaves the parents that are kept with p under none of from.
LEMMA RemoveSubTreeKeeps ==
    ASSUME Typed, Acyclic, ParentsShown, NEW p \in Exists,
           NEW from \in SUBSET Below(Browser)
    PROVE  RemoveSubTree(p, from) =
             [x \in Exists |-> {y \in Kept(p, from) : x \in Cut(p, from, y)}]
<1> DEFINE K == Kept(p, from)
<1>1. /\ Below(Browser) \subseteq DOMAIN sub /\ IsClosed(Below(Browser)) /\ p \in DOMAIN sub
      /\ Browser \in DOMAIN sub /\ p # Browser
  BY SubGraph DEF Typed, Exists
<1>2. Browser \in K /\ K \subseteq Below(Browser) /\ CutClosed(p, from, K)
  BY KeptClosed
<1>3. \A x \in Exists : toParents[x] = {y \in Below(Browser) : x \in Sub(y)}
  BY DEF ParentsShown
<1>4. CASE ~Registered(p)
  <2>1. p \notin Below(Browser)
    BY <1>1, <1>4, RegisteredIsShown
  <2>2. \A y \in Below(Browser) : Cut(p, from, y) = Sub(y)
    BY <1>1, <2>1 DEF Cut, IsClosed
  <2>3. \A C \in SUBSET Below(Browser) : CutClosed(p, from, C) => ClosedIn(sub, C)
    BY <2>2 DEF CutClosed, ClosedIn, Sub
  <2>4. Below(Browser) \subseteq K
    <3>1. K \in SUBSET DOMAIN sub /\ ClosedIn(sub, K)
      BY <1>1, <1>2, <2>3
    <3> QED
      BY <1>1, <1>2, <3>1, BelowLeast, SubGraph
  <2>5. K = Below(Browser)
    BY <1>2, <2>4
  <2> HIDE DEF K
  <2>6. ASSUME NEW x \in Exists
        PROVE  toParents[x] = {y \in K : x \in Cut(p, from, y)}
    BY <1>3, <2>2, <2>5
  <2>7. toParents = [x \in Exists |-> {y \in K : x \in Cut(p, from, y)}]
    BY <2>6 DEF Typed
  <2> QED
    BY <1>4, <2>7 DEF RemoveSubTree, K
<1>5. CASE Registered(p)
  <2> DEFINE gone == Unregistered(p, from)
  <2>1. p \in Below(Browser)
    BY <1>1, <1>5, RegisteredIsShown
  <2>2. gone = Below(Browser) \ K
    BY <1>1, <2>1, UnregisteredIs
  <2> HIDE DEF gone, K
  <2>3. ASSUME NEW x \in Exists, x \in gone
        PROVE  {y \in K : x \in Cut(p, from, y)} = {}
    BY <1>2, <2>2, <2>3 DEF CutClosed
  <2>4. ASSUME NEW x \in Exists
        PROVE  toParents[x] \ ({y \in gone : x \in Sub(y)} \cup IF x = p THEN from ELSE {})
                 = {y \in K : x \in Cut(p, from, y)}
    <3>1. CASE x = p
      BY <1>2, <1>3, <2>2, <3>1 DEF Cut
    <3>2. CASE x # p
      BY <1>2, <1>3, <2>2, <3>2 DEF Cut
    <3> QED
      BY <3>1, <3>2
  <2>5. RemoveSubTree(p, from) =
          [x \in Exists |-> IF x \in gone THEN {}
             ELSE toParents[x] \ ({y \in gone : x \in Sub(y)} \cup IF x = p THEN from ELSE {})]
    BY <1>5 DEF RemoveSubTree, gone
  <2> QED
    BY <2>3, <2>4, <2>5 DEF K
<1> QED
  BY <1>4, <1>5

-----------------------------------------------------------------------------
(* The items.                                                              *)

\* An item is a path of what is shown, longer than one but for the browser's.
LEMMA ItemElements ==
    ASSUME Typed, Acyclic, ItemsArePaths, NEW i \in Item
    PROVE  /\ i \in Seq(DOMAIN sub) /\ Len(i) \in Nat \ {0} /\ IsPath(i)
           /\ \A k \in 1 .. Len(i) : i[k] \in Below(Browser) /\ i[k] \in DOMAIN sub
           /\ Last(i) \in Below(Browser)
           /\ i # <<Browser>> => Len(i) - 1 \in 1 .. Len(i)
<1>1. i \in Seq(DOMAIN sub) /\ i # <<>> /\ i[1] = Browser /\ IsPath(i)
  BY DEF ItemsArePaths
<1>2. Len(i) \in Nat \ {0}
  BY <1>1, EmptySeq
<1>3. Browser \in Below(Browser) /\ IsClosed(Below(Browser)) /\ Below(Browser) \subseteq DOMAIN sub
  BY SubGraph DEF Typed
<1>4. \A k \in 1 .. Len(i) : i[k] \in Below(Browser)
  BY <1>1, <1>2, <1>3, PathBelow
<1>5. Len(i) \in 1 .. Len(i)
  BY <1>2
<1>6. ASSUME i # <<Browser>> PROVE Len(i) - 1 \in 1 .. Len(i)
  <2>1. Len(i) # 1
    <3> SUFFICES ASSUME Len(i) = 1 PROVE FALSE
      OBVIOUS
    <3>1. <<Browser>> \in Seq(DOMAIN sub) /\ Len(<<Browser>>) = 1 /\ <<Browser>>[1] = Browser
      BY DEF Typed
    <3>2. i = <<Browser>>
      BY <1>1, <3>1, SeqEqual
    <3> QED
      BY <1>6, <3>2
  <2> QED
    BY <1>2, <2>1
<1> QED
  BY <1>1, <1>2, <1>3, <1>4, <1>5, <1>6 DEF Last

\* The item above an item.
LEMMA ItemAbove ==
    ASSUME Typed, Acyclic, ItemsArePaths, NEW i \in Item, i # <<Browser>>
    PROVE  /\ Front(i) \in Item /\ Last(Front(i)) = i[Len(i) - 1]
           /\ Last(i) \in Sub(Last(Front(i))) /\ i = Append(Front(i), Last(i))
<1>1. /\ i \in Seq(DOMAIN sub) /\ Len(i) \in Nat \ {0} /\ IsPath(i)
      /\ Len(i) - 1 \in 1 .. Len(i)
  BY ItemElements
<1>2. Front(i) \in Item
  BY <1>1 DEF ItemsArePaths, Front
<1>3. /\ Front(i) \in Seq(DOMAIN sub) /\ Len(Front(i)) = Len(i) - 1
      /\ \A k \in 1 .. Len(i) - 1 : Front(i)[k] = i[k]
  BY <1>1, PrefixElements DEF Front
<1>4. Last(Front(i)) = i[Len(i) - 1]
  <2>1. Len(i) - 1 \in 1 .. Len(i) - 1
    BY <1>1
  <2> QED
    BY <1>3, <2>1 DEF Last
<1>5. Last(i) \in Sub(i[Len(i) - 1])
  <2>1. Len(i) - 1 \in 1 .. Len(i) - 1 /\ Len(i) - 1 + 1 = Len(i)
    BY <1>1
  <2> QED
    BY <1>1, <2>1 DEF IsPath, Last
<1>6. i = Append(Front(i), Last(i))
  <2> DEFINE t == Append(Front(i), Last(i))
  <2>1. Last(i) \in DOMAIN sub /\ Last(i) = i[Len(i)]
    <3>1. Len(i) \in 1 .. Len(i)
      BY <1>1
    <3> QED
      BY <1>1, <3>1 DEF Last
  <2>2. /\ t \in Seq(DOMAIN sub) /\ Len(t) = Len(Front(i)) + 1
        /\ \A k \in 1 .. Len(Front(i)) : t[k] = Front(i)[k]
        /\ t[Len(Front(i)) + 1] = Last(i)
    BY <1>3, <2>1, AppendProperties
  <2> HIDE DEF t
  <2>3. Len(t) = Len(i) /\ t[Len(i)] = i[Len(i)]
    BY <1>1, <1>3, <2>1, <2>2
  <2>4. ASSUME NEW k \in 1 .. Len(i) PROVE t[k] = i[k]
    <3>1. CASE k = Len(i)
      BY <2>3, <3>1
    <3>2. CASE k # Len(i)
      <4>1. k \in 1 .. Len(i) - 1
        BY <1>1, <3>2
      <4> QED
        BY <1>3, <2>2, <4>1
    <3> QED
      BY <3>1, <3>2
  <2>5. i = t
    BY <1>1, <2>2, <2>3, <2>4, SeqEqual
  <2> QED
    BY <2>5 DEF t
<1> QED
  BY <1>2, <1>4, <1>5, <1>6

\* A property comes under an item by a sub-property.
LEMMA ItemBelow ==
    ASSUME Typed, Acyclic, ItemsArePaths, NEW i \in Item, NEW x, Append(i, x) \in Item,
           x \in DOMAIN sub
    PROVE  x \in Sub(Last(i))
<1>1. i \in Seq(DOMAIN sub) /\ i # <<>>
  BY DEF ItemsArePaths
<1>2. IsPath(Append(i, x))
  BY DEF ItemsArePaths
<1> QED
  BY <1>1, <1>2, DescentGoesOn

-----------------------------------------------------------------------------
(* The steps.                                                              *)

\* What the parts of the invariant say after a step.
LEMMA After ==
    ASSUME Typed'
    PROVE  /\ Graph(sub')
           /\ NoCycle(sub') => Acyclic'
           /\ Below(Browser)' = BelowIn(sub', Browser)
           /\ \A x \in DOMAIN sub' : ToSet(sub'[x]) \subseteq Exists'
<1>1. ASSUME NEW x \in DOMAIN sub' PROVE ToSet(sub'[x]) \subseteq Exists'
  <2>1. sub'[x] \in Seq(Exists')
    BY DEF Typed
  <2> QED
    BY <2>1, ElementsIn
<1>2. Graph(sub')
  BY <1>1 DEF Graph, Exists
<1>3. Below(Browser)' = BelowIn(sub', Browser)
  BY DEF Below, BelowIn, IsClosed, ClosedIn, Sub
<1>4. ASSUME NoCycle(sub') PROVE Acyclic'
  BY <1>4 DEF NoCycle, Acyclic, Below, BelowIn, IsClosed, ClosedIn, Sub
<1> QED
  BY <1>1, <1>2, <1>3, <1>4

\* What happens to properties that are not on the screen leaves it alone.
LEMMA OffScreen ==
    ASSUME Typed, Acyclic, ParentsShown, ItemsArePaths, Typed',
           \A x \in Below(Browser) : x \in DOMAIN sub' /\ sub'[x] = sub[x],
           Exists \subseteq Exists', children' = children,
           \A x \in Exists : toParents'[x] = toParents[x],
           \A x \in Exists' \ Exists : toParents'[x] = {}
    PROVE  ParentsShown' /\ ItemsArePaths' /\ (SameOrder => SameOrder')
<1> DEFINE R == Below(Browser)
<1>1. /\ Browser \in DOMAIN sub /\ Browser \in R /\ R \subseteq DOMAIN sub
      /\ Browser \in DOMAIN sub' /\ Exists = DOMAIN sub \ {Browser}
      /\ Exists' = DOMAIN sub' \ {Browser}
      /\ \A x \in DOMAIN sub : Sub(x) \subseteq Exists
  <2>1. Browser \in DOMAIN sub /\ Browser \in DOMAIN sub'
    BY DEF Typed
  <2> QED
    BY <2>1, SubGraph DEF Exists
<1>2. Below(Browser)' = R
  <2>1. Graph(sub) /\ R = BelowIn(sub, Browser)
    BY <1>1, SubGraph
  <2>2. Graph(sub') /\ Below(Browser)' = BelowIn(sub', Browser)
    BY After
  <2>3. \A x \in BelowIn(sub, Browser) : x \in DOMAIN sub' /\ sub'[x] = sub[x]
    BY <2>1
  <2>4. BelowIn(sub', Browser) = BelowIn(sub, Browser)
    <3> HIDE DEF R
    <3> QED
      BY <1>1, <2>1, <2>2, <2>3, SameBelow
  <2> QED
    BY <2>1, <2>2, <2>4
<1>3. \A x \in R : Sub(x)' = Sub(x)
  BY DEF Sub
<1> HIDE DEF R
<1>4. ParentsShown'
  <2> SUFFICES ASSUME NEW x \in Exists'
               PROVE  toParents'[x] = {y \in R : x \in Sub(y)'}
    BY <1>2 DEF ParentsShown
  <2>1. CASE x \in Exists
    BY <1>3, <2>1 DEF ParentsShown, R
  <2>2. CASE x \notin Exists
    BY <1>1, <1>3, <2>2
  <2> QED
    BY <2>1, <2>2
<1>5. \A i \in Item : /\ \A k \in 1 .. Len(i) : i[k] \in R
                      /\ Last(i) \in R /\ Len(i) \in Nat \ {0}
  BY ItemElements DEF R
<1>6. DOMAIN sub \subseteq DOMAIN sub' /\ Item' = Item
  BY <1>1 DEF Item
<1>7. ItemsArePaths'
  <2> SUFFICES ASSUME NEW i \in Item
               PROVE  /\ i \in Seq(DOMAIN sub') /\ i # <<>> /\ i[1] = Browser /\ IsPath(i)'
                      /\ \A k \in 1 .. Len(i) : SubSeq(i, 1, k) \in Item
                      /\ children[i] \in Seq(Exists') /\ Simple(children[i])
                      /\ \A x \in Exists' :
                            x \in ToSet(children[i]) <=> Append(i, x) \in Item
    BY <1>6 DEF ItemsArePaths
  <2>1. /\ i \in Seq(DOMAIN sub) /\ i # <<>> /\ i[1] = Browser /\ IsPath(i)
        /\ \A k \in 1 .. Len(i) : SubSeq(i, 1, k) \in Item
        /\ children[i] \in Seq(Exists) /\ Simple(children[i])
        /\ \A x \in Exists : x \in ToSet(children[i]) <=> Append(i, x) \in Item
    BY DEF ItemsArePaths
  <2>2. i \in Seq(DOMAIN sub') /\ children[i] \in Seq(Exists')
    BY <1>6, <2>1, SeqMonotonic
  <2>3. IsPath(i)'
    <3> SUFFICES ASSUME NEW k \in 1 .. Len(i) - 1 PROVE i[k + 1] \in Sub(i[k])'
      BY DEF IsPath
    <3>1. i[k + 1] \in Sub(i[k])
      BY <2>1 DEF IsPath
    <3>2. k \in 1 .. Len(i)
      BY <1>5
    <3>3. i[k] \in R
      BY <1>5, <3>2
    <3> QED
      BY <1>3, <3>1, <3>3
  <2>4. ASSUME NEW x \in Exists' \ Exists
        PROVE  x \notin ToSet(children[i]) /\ Append(i, x) \notin Item
    <3>1. x \notin ToSet(children[i])
      BY <2>1, <2>4, ElementsIn
    <3>2. ASSUME Append(i, x) \in Item PROVE FALSE
      <4>1. Len(Append(i, x)) = Len(i) + 1 /\ Append(i, x)[Len(i) + 1] = x
        BY <2>2, <1>1, <2>4, AppendProperties
      <4>2. Len(i) + 1 \in 1 .. Len(Append(i, x))
        BY <1>5, <4>1
      <4>3. x \in R
        BY <1>5, <3>2, <4>1, <4>2
      <4> QED
        BY <1>1, <2>4, <4>3 DEF R
    <3> QED
      BY <3>1, <3>2
  <2> QED
    BY <2>1, <2>2, <2>3, <2>4
<1>8. ASSUME SameOrder PROVE SameOrder'
  <2> SUFFICES ASSUME NEW i \in Item PROVE children[i] = sub'[Last(i)]
    BY <1>6 DEF SameOrder
  <2> QED
    BY <1>5, <1>8 DEF SameOrder, R
<1> QED
  BY <1>4, <1>7, <1>8

\* p becomes a sub-property of q, which is not below it.
LEMMA InsertGraph ==
    ASSUME Typed, Acyclic, NEW q \in DOMAIN sub, NEW p \in Exists, NEW after,
           q \notin Below(p), p \notin Sub(q),
           sub' = [sub EXCEPT ![q] = InsertAfter(@, after, p)],
           parents' \in [Exists -> SUBSET Exists],
           toParents' \in [Exists -> SUBSET DOMAIN sub]
    PROVE  /\ Typed' /\ Acyclic'
           /\ DOMAIN sub' = DOMAIN sub /\ Exists' = Exists
           /\ \A x \in DOMAIN sub : x # q => sub'[x] = sub[x]
           /\ sub'[q] = InsertAfter(sub[q], after, p)
           /\ \A x \in DOMAIN sub : ToSet(sub'[x]) =
                 IF x = q THEN Sub(x) \cup {p} ELSE Sub(x)
           /\ Below(Browser)' = IF q \in Below(Browser)
                                THEN Below(Browser) \cup Below(p) ELSE Below(Browser)
<1>1. /\ sub \in [DOMAIN sub -> Seq(Exists)] /\ \A x \in DOMAIN sub : Simple(sub[x])
      /\ Exists \subseteq Property /\ Browser \in DOMAIN sub
      /\ Exists = DOMAIN sub \ {Browser}
  BY DEF Typed, Exists
<1>2. /\ InsertAfter(sub[q], after, p) \in Seq(Exists)
      /\ ToSet(InsertAfter(sub[q], after, p)) = Sub(q) \cup {p}
      /\ Simple(InsertAfter(sub[q], after, p))
  <2>1. sub[q] \in Seq(Exists) /\ Simple(sub[q])
    BY <1>1
  <2> QED
    BY <2>1, InsertAfterElements DEF Sub
<1>3. /\ DOMAIN sub' = DOMAIN sub /\ Exists' = Exists
      /\ \A x \in DOMAIN sub : x # q => sub'[x] = sub[x]
      /\ sub'[q] = InsertAfter(sub[q], after, p)
      /\ sub' \in [DOMAIN sub -> Seq(Exists)]
  BY <1>1, <1>2 DEF Exists
<1>4. Typed'
  BY <1>1, <1>2, <1>3 DEF Typed
<1>5. \A x \in DOMAIN sub : ToSet(sub'[x]) = IF x = q THEN Sub(x) \cup {p} ELSE Sub(x)
  BY <1>2, <1>3 DEF Sub
<1>6. p \in DOMAIN sub /\ q \notin BelowIn(sub, p)
  BY <1>1, SubGraph
<1>7. /\ NoCycle(sub')
      /\ BelowIn(sub', Browser) =
            IF q \in BelowIn(sub, Browser) THEN BelowIn(sub, Browser) \cup BelowIn(sub, p)
            ELSE BelowIn(sub, Browser)
  <2> DEFINE h == sub'
  <2>1. Graph(sub) /\ NoCycle(sub) /\ ToSet(h[q]) = ToSet(sub[q]) \cup {p}
    BY <1>5, SubGraph DEF Sub
  <2>2. DOMAIN h = DOMAIN sub /\ \A x \in DOMAIN sub \ {q} : h[x] = sub[x]
    BY <1>3
  <2> HIDE DEF h
  <2>3. /\ NoCycle(h)
        /\ \A b \in DOMAIN sub : BelowIn(h, b) =
              IF q \in BelowIn(sub, b) THEN BelowIn(sub, b) \cup BelowIn(sub, p)
              ELSE BelowIn(sub, b)
    BY <1>6, <2>1, <2>2, NewEdge
  <2> QED
    BY <1>1, <2>3 DEF h
<1>8. Acyclic' /\ Below(Browser)' = BelowIn(sub', Browser)
  BY <1>4, <1>7, After
<1>9. Below(Browser) = BelowIn(sub, Browser) /\ Below(p) = BelowIn(sub, p)
  BY <1>1, <1>6, SubGraph
<1>10. Below(Browser)' = IF q \in Below(Browser)
                         THEN Below(Browser) \cup Below(p) ELSE Below(Browser)
  BY <1>7, <1>8, <1>9
<1> QED
  BY <1>3, <1>4, <1>5, <1>8, <1>10

\* insertSubTree() keeps up with a sub-property that is inserted on the screen.
LEMMA InsertParents ==
    ASSUME Typed, Acyclic, ParentsShown, NEW q \in Below(Browser), NEW p \in Exists,
           NEW after, q \notin Below(p), p \notin Sub(q),
           sub' = [sub EXCEPT ![q] = InsertAfter(@, after, p)],
           parents' \in [Exists -> SUBSET Exists],
           toParents' = InsertSubTree(p, q)
    PROVE  toParents' \in [Exists -> SUBSET DOMAIN sub] /\ ParentsShown'
<1>1. /\ Browser \in DOMAIN sub /\ p \in DOMAIN sub /\ q \in DOMAIN sub
      /\ Below(Browser) \subseteq DOMAIN sub /\ Below(p) \subseteq DOMAIN sub
  <2>1. Browser \in DOMAIN sub /\ p \in DOMAIN sub
    BY DEF Typed, Exists
  <2> QED
    BY <2>1, SubGraph
<1>2. toParents' = [x \in Exists |-> {y \in Below(Browser) \cup Below(p) : x \in Sub(y)}
                                       \cup IF x = p THEN {q} ELSE {}]
  BY <1>1, InsertSubTreeShows
<1>3. toParents' \in [Exists -> SUBSET DOMAIN sub]
  BY <1>1, <1>2
<1>4. /\ Exists' = Exists /\ Below(Browser)' = Below(Browser) \cup Below(p)
      /\ \A y \in DOMAIN sub :
            ToSet(sub'[y]) = IF y = q THEN Sub(y) \cup {p} ELSE Sub(y)
  BY <1>1, <1>3, InsertGraph
<1>5. ASSUME NEW x \in Exists
      PROVE  toParents'[x] = {y \in Below(Browser) \cup Below(p) : x \in ToSet(sub'[y])}
  <2> DEFINE h == sub'
  <2>1. \A y \in Below(Browser) \cup Below(p) :
           x \in ToSet(h[y]) <=> (x \in Sub(y) \/ (y = q /\ x = p))
    BY <1>1, <1>4
  <2> HIDE DEF h
  <2>2. toParents'[x] = {y \in Below(Browser) \cup Below(p) : x \in Sub(y)}
                          \cup IF x = p THEN {q} ELSE {}
    BY <1>2
  <2>3. toParents'[x] = {y \in Below(Browser) \cup Below(p) : x \in ToSet(h[y])}
    BY <2>1, <2>2
  <2> QED
    BY <2>3 DEF h
<1>6. ParentsShown'
  BY <1>4, <1>5 DEF ParentsShown, Sub
<1> QED
  BY <1>3, <1>6

\* What createBrowserIndexes() makes of the items in at.
ItemsMade(p, at) == {i \o d : i \in at, d \in Descents(p)}

ChildrenMade(p, after, at) ==
    [i \in Item \cup ItemsMade(p, at) |->
       IF i \in at THEN InsertAfter(children[i], after, p)
       ELSE IF i \in Item THEN children[i] ELSE sub[Last(i)]]

\* They go on where the descents do.
LEMMA MadeGoesOn ==
    ASSUME NEW S, NEW i \in Seq(S), NEW d \in Seq(S), NEW x \in S,
           NEW p, NEW at, i \in at, Append(d, x) \in Descents(p), NEW j \in {i \o d}
    PROVE  Append(j, x) \in ItemsMade(p, at)
<1>1. <<x>> \in Seq(S) /\ i \o d \in Seq(S)
  BY ConcatProperties
<1>2. Append(i \o d, x) = (i \o d) \o <<x>>
  BY <1>1, AppendIsConcat
<1>3. Append(d, x) = d \o <<x>>
  BY AppendIsConcat
<1>4. Append(i \o d, x) = i \o Append(d, x)
  BY <1>1, <1>2, <1>3, ConcatAssociative
<1>5. Append(j, x) = i \o Append(d, x)
  BY <1>4
<1> DEFINE e == Append(d, x)
           t == Append(j, x)
<1>6. e \in Descents(p) /\ t = i \o e
  BY <1>5
<1> HIDE DEF e, t
<1>7. t \in ItemsMade(p, at)
  BY <1>6 DEF ItemsMade
<1> QED
  BY <1>7 DEF t

\* A prefix of a descent is a descent.
LEMMA DescentPrefix ==
    ASSUME Typed, Acyclic, NEW p \in Exists, NEW d \in Descents(p), NEW k \in 1 .. Len(d)
    PROVE  SubSeq(d, 1, k) \in Descents(p)
<1>1. d \in Seq(Exists) /\ d # <<>> /\ d[1] = p /\ IsPath(d)
  BY DescentsArePaths
<1>2. /\ SubSeq(d, 1, k) \in Seq(Exists) /\ SubSeq(d, 1, k) # <<>>
      /\ Len(SubSeq(d, 1, k)) = k /\ \A n \in 1 .. k : SubSeq(d, 1, k)[n] = d[n]
  BY <1>1, PrefixElements
<1>3. Len(d) \in Nat /\ k \in Nat \ {0} /\ k <= Len(d)
  BY <1>1
<1>4. SubSeq(d, 1, k)[1] = p
  <2>1. 1 \in 1 .. k
    BY <1>3
  <2> QED
    BY <1>1, <1>2, <2>1
<1>5. IsPath(SubSeq(d, 1, k))
  <2> SUFFICES ASSUME NEW n \in 1 .. k - 1
               PROVE  SubSeq(d, 1, k)[n + 1] \in Sub(SubSeq(d, 1, k)[n])
    BY <1>2 DEF IsPath
  <2>1. n \in 1 .. k /\ n + 1 \in 1 .. k /\ n \in 1 .. Len(d) - 1
    BY <1>3
  <2>2. d[n + 1] \in Sub(d[n])
    BY <1>1, <2>1 DEF IsPath
  <2> QED
    BY <1>2, <2>1, <2>2
<1> QED
  BY <1>1, <1>2, <1>4, <1>5, DescentsArePaths

\* The items made are paths, under an item that is there and not there before.
LEMMA MadeElements ==
    ASSUME Typed, Acyclic, ItemsArePaths, NEW q \in DOMAIN sub, NEW p \in Exists,
           q \notin Below(p), p \notin Sub(q),
           NEW i \in Items(q), NEW d \in Descents(p)
    PROVE  /\ i \in Item /\ i \in Seq(DOMAIN sub) /\ Len(i) \in Nat \ {0} /\ i[Len(i)] = q
           /\ d \in Seq(Exists) /\ d \in Seq(DOMAIN sub) /\ Len(d) \in Nat \ {0} /\ d # <<>>
           /\ d[1] = p /\ IsPath(d) /\ Last(d) \in Below(p) /\ Last(d) \in Exists
           /\ i \o d \in Seq(DOMAIN sub) /\ i \o d # <<>>
           /\ Len(i \o d) = Len(i) + Len(d)
           /\ \A k \in 1 .. Len(i) : (i \o d)[k] = i[k]
           /\ \A k \in 1 .. Len(d) : (i \o d)[Len(i) + k] = d[k]
           /\ Last(i \o d) = Last(d) /\ (i \o d)[1] = Browser
           /\ ~IsPath(i \o d)
<1>1. i \in Item /\ Last(i) = q
  BY DEF Items
<1>2. /\ i \in Seq(DOMAIN sub) /\ Len(i) \in Nat \ {0} /\ i[1] = Browser
      /\ i[Len(i)] = q
  BY <1>1, ItemElements DEF ItemsArePaths, Last
<1>3. d \in Seq(Exists) /\ d # <<>> /\ d[1] = p /\ IsPath(d)
  BY DescentsArePaths
<1>4. Len(d) \in Nat \ {0} /\ d \in Seq(DOMAIN sub)
  BY <1>3, EmptySeq DEF Exists
<1>5. Last(d) \in Below(p) /\ Last(d) \in Exists
  <2>1. p \in DOMAIN sub
    BY DEF Exists
  <2>2. IsClosed(Below(p)) /\ p \in Below(p) /\ Below(p) \subseteq Exists
    BY <2>1, SubGraph
  <2>3. Len(d) \in 1 .. Len(d)
    BY <1>4
  <2>4. d[Len(d)] \in Below(p)
    BY <1>3, <1>4, <2>2, <2>3, PathBelow
  <2> QED
    BY <2>2, <2>4 DEF Last
<1>6. /\ i \o d \in Seq(DOMAIN sub) /\ i \o d # <<>>
      /\ Len(i \o d) = Len(i) + Len(d)
      /\ \A k \in 1 .. Len(i) : (i \o d)[k] = i[k]
      /\ \A k \in 1 .. Len(d) : (i \o d)[Len(i) + k] = d[k]
      /\ Last(i \o d) = Last(d)
  BY <1>2, <1>3, <1>4, ConcatElements
<1> DEFINE j == i \o d
           m == Len(i)
           n == Len(d)
<1>7. j[1] = Browser /\ j[m] = q /\ j[m + 1] = p /\ m \in 1 .. m + n - 1
  <2>1. 1 \in 1 .. m /\ m \in 1 .. m /\ 1 \in 1 .. n
    BY <1>2, <1>4
  <2>2. m \in 1 .. m + n - 1
    BY <1>2, <1>4
  <2> HIDE DEF j
  <2> QED
    BY <1>2, <1>3, <1>6, <2>1, <2>2 DEF j
<1>8. ~IsPath(j)
  <2> SUFFICES ASSUME IsPath(j) PROVE FALSE
    OBVIOUS
  <2>1. Len(j) = m + n
    BY <1>6
  <2> HIDE DEF j
  <2>2. j[m + 1] \in Sub(j[m])
    BY <1>7, <2>1 DEF IsPath
  <2> QED
    BY <1>7, <2>2
<1> QED
  BY <1>1, <1>2, <1>3, <1>4, <1>5, <1>6, <1>7, <1>8

\* They are paths when p is a sub-property of q.
LEMMA MadePath ==
    ASSUME Typed, Acyclic, ItemsArePaths, NEW q \in DOMAIN sub, NEW p \in Exists,
           q \notin Below(p), p \notin Sub(q),
           NEW i \in Items(q), NEW d \in Descents(p),
           \A y \in DOMAIN sub : ToSet(sub'[y]) = IF y = q THEN Sub(y) \cup {p} ELSE Sub(y)
    PROVE  IsPath(i)' /\ IsPath(i \o d)'
<1> DEFINE j == i \o d
           m == Len(i)
           n == Len(d)
<1>1. /\ i \in Item /\ i \in Seq(DOMAIN sub) /\ m \in Nat \ {0} /\ i[m] = q
      /\ d \in Seq(DOMAIN sub) /\ n \in Nat \ {0} /\ d[1] = p /\ IsPath(d) /\ Len(j) = m + n
      /\ \A k \in 1 .. m : j[k] = i[k]
      /\ \A k \in 1 .. n : j[m + k] = d[k]
  BY MadeElements
<1>2. IsPath(i)
  BY <1>1 DEF ItemsArePaths
<1>3. /\ \A y \in DOMAIN sub : Sub(y) \subseteq Sub(y)'
      /\ p \in Sub(q)'
  BY DEF Sub
<1>4. \A k \in 1 .. m - 1 : i[k + 1] \in Sub(i[k])'
  <2> SUFFICES ASSUME NEW k \in 1 .. m - 1 PROVE i[k + 1] \in Sub(i[k])'
    OBVIOUS
  <2>1. i[k + 1] \in Sub(i[k])
    BY <1>2 DEF IsPath
  <2>2. k \in 1 .. m
    BY <1>1
  <2>3. i[k] \in DOMAIN sub
    BY <1>1, <2>2
  <2> QED
    BY <1>3, <2>1, <2>3
<1>5. \A k \in 1 .. n - 1 : d[k + 1] \in Sub(d[k])'
  <2> SUFFICES ASSUME NEW k \in 1 .. n - 1 PROVE d[k + 1] \in Sub(d[k])'
    OBVIOUS
  <2>1. d[k + 1] \in Sub(d[k]) /\ d[k] \in DOMAIN sub
    BY <1>1 DEF IsPath
  <2> QED
    BY <1>3, <2>1
<1> HIDE DEF j, m, n
<1>6. ASSUME NEW k \in 1 .. m + n - 1 PROVE j[k + 1] \in Sub(j[k])'
  <2>1. CASE k < m
    <3>1. k \in 1 .. m - 1 /\ k \in 1 .. m /\ k + 1 \in 1 .. m
      BY <1>1, <2>1
    <3>2. j[k] = i[k] /\ j[k + 1] = i[k + 1]
      BY <1>1, <3>1
    <3> QED
      BY <1>4, <3>1, <3>2
  <2>2. CASE k = m
    <3>1. m \in 1 .. m /\ 1 \in 1 .. n
      BY <1>1
    <3>2. j[k] = q /\ j[k + 1] = p
      BY <1>1, <2>2, <3>1
    <3> QED
      BY <1>3, <3>2
  <2>3. CASE k > m
    <3> DEFINE x == k - m
    <3>1. x \in 1 .. n - 1 /\ x \in 1 .. n /\ x + 1 \in 1 .. n /\ k = m + x /\ k + 1 = m + (x + 1)
      BY <1>1, <2>3
    <3> HIDE DEF x
    <3>2. j[k] = d[x] /\ j[k + 1] = d[x + 1]
      BY <1>1, <3>1
    <3> QED
      BY <1>5, <3>1, <3>2
  <2> QED
    BY <1>1, <2>1, <2>2, <2>3
<1>7. IsPath(j)'
  <2>1. ASSUME NEW s, \A k \in 1 .. Len(s) - 1 : s[k + 1] \in Sub(s[k])'
        PROVE  IsPath(s)'
    BY <2>1 DEF IsPath
  <2>2. \A k \in 1 .. Len(j) - 1 : j[k + 1] \in Sub(j[k])'
    BY <1>1, <1>6
  <2> QED
    BY <2>1, <2>2
<1>8. IsPath(i)'
  BY <1>4 DEF IsPath, m
<1> QED
  BY <1>7, <1>8 DEF j

\* Where a path ends after a step.
LEMMA PathEnd ==
    ASSUME NEW S, NEW d \in Seq(S), d # <<>>, NEW x \in S, IsPath(Append(d, x))'
    PROVE  x \in Sub(Last(d))'
<1> DEFINE t == Append(d, x)
<1>1. /\ Len(d) \in Nat \ {0} /\ Len(t) = Len(d) + 1 /\ t[Len(d) + 1] = x
      /\ \A k \in 1 .. Len(d) : t[k] = d[k]
  BY AppendProperties, EmptySeq
<1>2. \A k \in 1 .. Len(t) - 1 : t[k + 1] \in Sub(t[k])'
  BY DEF IsPath
<1> HIDE DEF t
<1>3. Len(d) \in 1 .. Len(t) - 1 /\ Len(d) \in 1 .. Len(d)
  BY <1>1
<1>4. t[Len(d) + 1] \in Sub(t[Len(d)])'
  BY <1>2, <1>3
<1>5. t[Len(d)] = d[Len(d)]
  BY <1>1, <1>3
<1> QED
  BY <1>1, <1>4, <1>5 DEF Last

\* An item made under one that was there is that of p itself.
LEMMA MadeUnderOld ==
    ASSUME Typed, Acyclic, ItemsArePaths, NEW q \in DOMAIN sub, NEW p \in Exists,
           q \notin Below(p), p \notin Sub(q), NEW at \in SUBSET Items(q),
           NEW j \in Item, NEW x \in Exists, Append(j, x) \in ItemsMade(p, at)
    PROVE  j \in at /\ x = p
<1> DEFINE t == Append(j, x)
<1>0. t \in ItemsMade(p, at)
  OBVIOUS
<1> HIDE DEF t
<1>p. PICK i \in at, d \in Descents(p) : t = i \o d
  BY <1>0 DEF ItemsMade
<1> DEFINE m == Len(i)
           n == Len(d)
           l == Len(j)
<1>1. /\ i \in Seq(DOMAIN sub) /\ m \in Nat \ {0} /\ i[m] = q
      /\ n \in Nat \ {0} /\ d[1] = p /\ Len(t) = m + n
      /\ \A k \in 1 .. m : t[k] = i[k]
      /\ \A k \in 1 .. n : t[m + k] = d[k]
  <2>1. i \in Items(q)
    OBVIOUS
  <2>2. /\ i \in Seq(DOMAIN sub) /\ m \in Nat \ {0} /\ i[m] = q
        /\ n \in Nat \ {0} /\ d[1] = p /\ Len(i \o d) = m + n
        /\ \A k \in 1 .. m : (i \o d)[k] = i[k]
        /\ \A k \in 1 .. n : (i \o d)[m + k] = d[k]
    BY <2>1, MadeElements
  <2> QED
    BY <1>p, <2>2
<1>2. j \in Seq(DOMAIN sub) /\ l \in Nat \ {0} /\ IsPath(j)
  BY ItemElements
<1>3. Len(t) = l + 1 /\ t[l + 1] = x /\ \A k \in 1 .. l : t[k] = j[k]
  <2>1. x \in DOMAIN sub
    BY DEF Exists
  <2> QED
    BY <1>2, <2>1, AppendProperties DEF t
<1>4. 1 \in 1 .. n /\ m \in 1 .. m /\ t[m + 1] = p
  BY <1>1
<1>5. CASE n = 1
  <2>1. l = m
    BY <1>1, <1>2, <1>3, <1>5
  <2>2. \A k \in 1 .. l : i[k] = j[k]
    BY <1>1, <1>3, <2>1
  <2>3. j = i
    BY <1>1, <1>2, <2>1, <2>2, SeqEqual
  <2> QED
    BY <1>3, <1>4, <2>1, <2>3
<1>6. CASE n # 1
  <2>1. m \in 1 .. l - 1 /\ m \in 1 .. l /\ m + 1 \in 1 .. l
    <3>1. m \in Nat \ {0} /\ n \in Nat \ {0} /\ l \in Nat \ {0} /\ l + 1 = m + n
      BY <1>1, <1>2, <1>3
    <3> HIDE DEF m, n, l
    <3> QED
      BY <1>6, <3>1
  <2>2. j[m] = q /\ j[m + 1] = p
    BY <1>1, <1>3, <1>4, <2>1
  <2>3. j[m + 1] \in Sub(j[m])
    BY <1>2, <2>1 DEF IsPath
  <2> QED
    BY <2>2, <2>3
<1> QED
  BY <1>5, <1>6

\* The items of p, with those below them, under items of q: the items stay the
\* paths that they are.
LEMMA InsertItems ==
    ASSUME Typed, Acyclic, ItemsArePaths, NEW q \in DOMAIN sub, NEW p \in Exists,
           NEW after, q \notin Below(p), p \notin Sub(q),
           DOMAIN sub' = DOMAIN sub, Exists' = Exists,
           \A y \in DOMAIN sub : ToSet(sub'[y]) = IF y = q THEN Sub(y) \cup {p} ELSE Sub(y),
           NEW at \in SUBSET Items(q),
           children' = ChildrenMade(p, after, at)
    PROVE  ItemsArePaths'
<1> DEFINE new == ItemsMade(p, at)
<1>c. children' = [i \in Item \cup new |->
                     IF i \in at THEN InsertAfter(children[i], after, p)
                     ELSE IF i \in Item THEN children[i] ELSE sub[Last(i)]]
  BY DEF ChildrenMade
<1>1. ASSUME NEW j \in new
      PROVE  \E i \in at, d \in Descents(p) :
                i \in Items(q) /\ i \in Item /\ j = i \o d
  <2>1. PICK i \in at, d \in Descents(p) : j = i \o d
    BY DEF ItemsMade
  <2>2. i \in Items(q)
    OBVIOUS
  <2> QED
    BY <2>1, <2>2 DEF Items
<1>2. ASSUME NEW j \in new
      PROVE  /\ j \notin Item /\ j \in Seq(DOMAIN sub) /\ j # <<>> /\ j[1] = Browser
             /\ ~IsPath(j) /\ IsPath(j)' /\ Last(j) \in Exists /\ Last(j) \in Below(p)
  <2>1. PICK i \in at, d \in Descents(p) : i \in Items(q) /\ i \in Item /\ j = i \o d
    BY <1>1
  <2>2. /\ j \in Seq(DOMAIN sub) /\ j # <<>> /\ j[1] = Browser /\ ~IsPath(j)
        /\ Last(j) \in Exists /\ Last(j) \in Below(p)
    BY <2>1, MadeElements
  <2>3. IsPath(j)'
    BY <2>1, MadePath
  <2>4. j \notin Item
    BY <2>2, ItemElements
  <2> QED
    BY <2>2, <2>3, <2>4
<1>3. Item' = Item \cup new
  BY <1>c DEF Item
<1>4. q \in DOMAIN sub /\ p \in DOMAIN sub /\ <<p>> \in Descents(p)
  <2>1. <<p>> \in Seq(Exists) /\ <<p>> # <<>> /\ <<p>>[1] = p /\ Len(<<p>>) = 1
    OBVIOUS
  <2>2. IsPath(<<p>>)
    BY <2>1 DEF IsPath
  <2> QED
    BY <2>1, <2>2, DescentsArePaths DEF Exists
<1>5. \A y \in DOMAIN sub : Sub(y) \subseteq Sub(y)' /\ (y # q => Sub(y)' = Sub(y))
  BY DEF Sub
<1>0. \A i \in at : \A d \in Descents(p) : i \o d \in new
  BY DEF ItemsMade
<1> HIDE DEF new
<1>6. ASSUME NEW j \in new
      PROVE  /\ \A k \in 1 .. Len(j) : SubSeq(j, 1, k) \in Item'
             /\ children'[j] \in Seq(Exists) /\ Simple(children'[j])
             /\ \A x \in Exists : x \in ToSet(children'[j]) <=> Append(j, x) \in Item'
  <2>1. PICK i \in at, d \in Descents(p) : i \in Items(q) /\ i \in Item /\ j = i \o d
    BY <1>1
  <2>2. /\ i \in Seq(DOMAIN sub) /\ d \in Seq(DOMAIN sub) /\ d \in Seq(Exists) /\ d # <<>>
        /\ Len(i) \in Nat /\ Len(d) \in Nat /\ Len(j) = Len(i) + Len(d)
        /\ Last(j) = Last(d) /\ Last(d) \in Below(p) /\ Last(d) \in Exists /\ IsPath(d)
        /\ d[1] = p
    BY <2>1, MadeElements
  <2>3. ASSUME NEW k \in 1 .. Len(j) PROVE SubSeq(j, 1, k) \in Item'
    <3>1. CASE k \in 1 .. Len(i)
      <4>1. SubSeq(j, 1, k) = SubSeq(i, 1, k)
        BY <2>1, <2>2, <3>1, ConcatPrefix
      <4> QED
        BY <1>3, <2>1, <3>1, <4>1 DEF ItemsArePaths
    <3>2. CASE k \notin 1 .. Len(i)
      <4> DEFINE n == k - Len(i)
      <4>1. n \in 1 .. Len(d) /\ Len(i) + n = k
        BY <2>2, <3>2
      <4> HIDE DEF n
      <4>2. SubSeq(i \o d, 1, Len(i) + n) = i \o SubSeq(d, 1, n)
        BY <2>2, <4>1, ConcatPrefix
      <4>3. SubSeq(d, 1, n) \in Descents(p)
        BY <4>1, DescentPrefix
      <4>4. i \o SubSeq(d, 1, n) \in new
        BY <1>0, <2>1, <4>3
      <4> QED
        BY <1>3, <2>1, <4>1, <4>2, <4>4
    <3> QED
      BY <3>1, <3>2
  <2>4. children'[j] = sub[Last(j)]
    <3>1. j \notin Item /\ j \notin at
      BY <1>2 DEF Items
    <3> QED
      BY <1>c, <3>1
  <2>5. children'[j] \in Seq(Exists) /\ Simple(children'[j]) /\ Last(j) \in DOMAIN sub
    <3>1. Last(j) \in DOMAIN sub
      BY <2>2 DEF Exists
    <3> QED
      BY <2>4, <3>1 DEF Typed
  <2>6. ASSUME NEW x \in Exists, x \in ToSet(children'[j]) PROVE Append(j, x) \in Item'
    <3>1. x \in Sub(Last(d)) /\ x \in DOMAIN sub
      BY <2>2, <2>4, <2>6 DEF Sub, Exists
    <3>2. Append(d, x) \in Descents(p)
      <4>1. /\ Append(d, x) \in Seq(Exists) /\ Append(d, x) # <<>>
            /\ \A k \in 1 .. Len(d) : Append(d, x)[k] = d[k]
        BY <2>2, AppendElements
      <4>2. 1 \in 1 .. Len(d)
        BY <2>2, EmptySeq
      <4>3. IsPath(Append(d, x))
        BY <2>2, <3>1, DescentGoesOn
      <4> QED
        BY <2>2, <4>1, <4>2, <4>3, DescentsArePaths
    <3>3. j \in {i \o d}
      BY <2>1
    <3>4. Append(j, x) \in new
      BY <2>2, <3>1, <3>2, <3>3, MadeGoesOn DEF new
    <3> QED
      BY <1>3, <3>4
  <2>7. ASSUME NEW x \in Exists, Append(j, x) \in Item' PROVE x \in ToSet(children'[j])
    <3>1. x \in DOMAIN sub /\ j \in Seq(DOMAIN sub) /\ j # <<>>
      BY <1>2 DEF Exists
    <3>2. Append(j, x) \notin Item
      <4> SUFFICES ASSUME Append(j, x) \in Item PROVE FALSE
        OBVIOUS
      <4>1. IsPath(Append(j, x))
        BY DEF ItemsArePaths
      <4> QED
        BY <1>2, <3>1, <4>1, DescentGoesOn
    <3>3. IsPath(Append(j, x))'
      BY <1>2, <1>3, <2>7, <3>2
    <3>4. x \in Sub(Last(j))'
      BY <3>1, <3>3, PathEnd
    <3>5. Last(j) \in Below(p) /\ Last(j) \in DOMAIN sub
      BY <2>2 DEF Exists
    <3>6. x \in Sub(Last(j))
      BY <1>5, <3>4, <3>5
    <3> QED
      BY <2>4, <3>6 DEF Sub
  <2> QED
    BY <2>3, <2>5, <2>6, <2>7
<1>7. ASSUME NEW j \in Item, NEW x \in Exists, Append(j, x) \in new
      PROVE  j \in at /\ x = p
  BY <1>7, MadeUnderOld DEF new
<1>8. ASSUME NEW j \in at PROVE j \in Item /\ Last(j) = q /\ Append(j, p) \in new
  <2>1. j \in Item /\ Last(j) = q
    BY DEF Items
  <2>2. Append(j, p) = j \o <<p>>
    BY <1>4, <2>1, AppendIsConcat DEF ItemsArePaths
  <2>3. j \o <<p>> \in new
    BY <1>0, <1>4
  <2> QED
    BY <2>1, <2>2, <2>3
<1>9. ASSUME NEW j \in Item
      PROVE  /\ children'[j] \in Seq(Exists) /\ Simple(children'[j])
             /\ \A x \in Exists : x \in ToSet(children'[j]) <=> Append(j, x) \in Item'
  <2>1. /\ children[j] \in Seq(Exists) /\ Simple(children[j])
        /\ \A x \in Exists : x \in ToSet(children[j]) <=> Append(j, x) \in Item
    BY DEF ItemsArePaths
  <2>2. CASE j \notin at
    <3>1. children'[j] = children[j]
      BY <1>3, <1>c, <2>2
    <3>2. \A x \in Exists : Append(j, x) \in Item' <=> Append(j, x) \in Item
      BY <1>3, <1>7, <2>2
    <3> QED
      BY <2>1, <3>1, <3>2
  <2>3. CASE j \in at
    <3>1. children'[j] = InsertAfter(children[j], after, p)
      BY <1>3, <1>c, <2>3
    <3>2. p \notin ToSet(children[j])
      <4>1. ASSUME Append(j, p) \in Item PROVE FALSE
        BY <1>4, <1>8, <2>3, <4>1, ItemBelow
      <4> QED
        BY <2>1, <4>1
    <3>3. /\ InsertAfter(children[j], after, p) \in Seq(Exists)
          /\ ToSet(InsertAfter(children[j], after, p)) = ToSet(children[j]) \cup {p}
          /\ Simple(InsertAfter(children[j], after, p))
      BY <2>1, <3>2, InsertAfterElements
    <3>4. \A x \in Exists : Append(j, x) \in Item' <=> (Append(j, x) \in Item \/ x = p)
      BY <1>3, <1>7, <1>8, <2>3
    <3> QED
      BY <2>1, <3>1, <3>3, <3>4
  <2> QED
    BY <2>2, <2>3
<1>10. ASSUME NEW j \in Item
       PROVE  /\ j \in Seq(DOMAIN sub) /\ j # <<>> /\ j[1] = Browser /\ IsPath(j)'
              /\ \A k \in 1 .. Len(j) : SubSeq(j, 1, k) \in Item'
  <2>1. /\ j \in Seq(DOMAIN sub) /\ j # <<>> /\ j[1] = Browser /\ IsPath(j)
        /\ \A k \in 1 .. Len(j) : SubSeq(j, 1, k) \in Item
    BY DEF ItemsArePaths
  <2>2. IsPath(j)'
    <3> SUFFICES ASSUME NEW k \in 1 .. Len(j) - 1 PROVE j[k + 1] \in Sub(j[k])'
      BY DEF IsPath
    <3>1. j[k + 1] \in Sub(j[k])
      BY <2>1 DEF IsPath
    <3>2. k \in 1 .. Len(j)
      BY <2>1
    <3>3. j[k] \in DOMAIN sub
      BY <2>1, <3>2
    <3> QED
      BY <1>5, <3>1, <3>3
  <2> QED
    BY <1>3, <2>1, <2>2
<1>11. <<Browser>> \in Item'
  BY <1>3 DEF ItemsArePaths
<1>12. ASSUME NEW j \in Item'
       PROVE  /\ j \in Seq(DOMAIN sub) /\ j # <<>> /\ j[1] = Browser /\ IsPath(j)'
              /\ \A k \in 1 .. Len(j) : SubSeq(j, 1, k) \in Item'
              /\ children'[j] \in Seq(Exists) /\ Simple(children'[j])
              /\ \A x \in Exists : x \in ToSet(children'[j]) <=> Append(j, x) \in Item'
  <2>1. CASE j \in Item
    BY <1>9, <1>10, <2>1
  <2>2. CASE j \in new
    BY <1>2, <1>6, <2>2
  <2> QED
    BY <1>3, <2>1, <2>2
<1> QED
  BY <1>11, <1>12 DEF ItemsArePaths

\* If they are made under all items of q, the order is that of the properties.
LEMMA InsertSameOrder ==
    ASSUME Typed, Acyclic, ItemsArePaths, SameOrder, NEW q \in DOMAIN sub, NEW p \in Exists,
           NEW after, q \notin Below(p), p \notin Sub(q),
           \A y \in DOMAIN sub : y # q => sub'[y] = sub[y],
           sub'[q] = InsertAfter(sub[q], after, p),
           children' = ChildrenMade(p, after, Items(q))
    PROVE  SameOrder'
<1> DEFINE new == ItemsMade(p, Items(q))
<1>c. children' = [i \in Item \cup new |->
                     IF i \in Items(q) THEN InsertAfter(children[i], after, p)
                     ELSE IF i \in Item THEN children[i] ELSE sub[Last(i)]]
  BY DEF ChildrenMade
<1>1. Item' = Item \cup new
  BY <1>c DEF Item
<1>2. ASSUME NEW j \in Item PROVE children'[j] = sub'[Last(j)]
  <2>1. children[j] = sub[Last(j)] /\ Last(j) \in DOMAIN sub
    BY ItemElements, SubGraph DEF SameOrder, Typed
  <2>2. CASE j \in Items(q)
    BY <1>1, <1>c, <2>1, <2>2 DEF Items
  <2>3. CASE j \notin Items(q)
    <3>1. Last(j) # q
      BY <2>3 DEF Items
    <3> QED
      BY <1>1, <1>c, <2>1, <2>3, <3>1
  <2> QED
    BY <2>2, <2>3
<1>3. ASSUME NEW j \in new, j \notin Item PROVE children'[j] = sub'[Last(j)]
  <2>1. PICK i \in Items(q), d \in Descents(p) : j = i \o d
    BY DEF ItemsMade
  <2>2. Last(j) = Last(d) /\ Last(d) \in Below(p) /\ Last(d) \in Exists
    BY <2>1, MadeElements
  <2>3. Last(j) \in DOMAIN sub /\ Last(j) # q
    BY <2>2 DEF Exists
  <2>4. children'[j] = sub[Last(j)]
    BY <1>1, <1>3, <1>c DEF Items
  <2> QED
    BY <2>3, <2>4
<1> HIDE DEF new
<1> QED
  BY <1>1, <1>2, <1>3 DEF SameOrder

\* The items of q that createBrowserIndexes() finds.
Found(q, after) ==
    IF after = None THEN Items(q) ELSE {Front(i) : i \in ItemsUnder(after, {q})}

LEMMA FoundItems ==
    ASSUME Typed, Acyclic, ItemsArePaths, NEW q \in DOMAIN sub, NEW after
    PROVE  /\ Found(q, after) \subseteq Items(q)
           /\ SameOrder /\ after \in Sub(q) \cup {None} => Found(q, after) = Items(q)
<1>1. ASSUME after # None, NEW i \in ItemsUnder(after, {q}) PROVE Front(i) \in Items(q)
  BY <1>1, ItemAbove DEF ItemsUnder, Items
<1>2. ASSUME SameOrder, after # None, after \in Sub(q), NEW j \in Items(q)
      PROVE  \E i \in ItemsUnder(after, {q}) : j = Front(i)
  <2>1. j \in Item /\ Last(j) = q /\ j \in Seq(DOMAIN sub) /\ j # <<>>
    BY DEF Items, ItemsArePaths
  <2>2. after \in Exists /\ after \in DOMAIN sub
    BY <1>2, SubGraph DEF Exists
  <2>3. Append(j, after) \in Item
    BY <1>2, <2>1, <2>2 DEF SameOrder, ItemsArePaths, Sub
  <2>4. /\ Last(Append(j, after)) = after /\ Front(Append(j, after)) = j
        /\ Len(Append(j, after)) = Len(j) + 1
    BY <2>1, <2>2, AppendElements
  <2>5. Append(j, after) # <<Browser>>
    <3>1. Browser # after
      BY <2>2 DEF Exists
    <3>2. Last(<<Browser>>) = Browser
      BY DEF Last
    <3> QED
      BY <2>4, <3>1, <3>2
  <2> QED
    BY <2>1, <2>3, <2>4, <2>5 DEF ItemsUnder, Items
<1> QED
  BY <1>1, <1>2 DEF Found

\* A sub-property is inserted under one that is shown, or under the browser.
LEMMA InsertShown ==
    ASSUME Typed, Acyclic, ParentsShown, ItemsArePaths,
           NEW q \in Below(Browser), NEW p \in Exists, NEW after,
           q \notin Below(p), p \notin Sub(q),
           sub' = [sub EXCEPT ![q] = InsertAfter(@, after, p)],
           parents' \in [Exists -> SUBSET Exists],
           toParents' = InsertSubTree(p, q),
           children' = CreateBrowserIndexes(p, q, after)
    PROVE  /\ Typed' /\ Acyclic' /\ ParentsShown' /\ ItemsArePaths'
           /\ SameOrder /\ after \in Sub(q) \cup {None} => SameOrder'
<1>1. q \in DOMAIN sub
  BY SubGraph DEF Typed
<1>2. toParents' \in [Exists -> SUBSET DOMAIN sub] /\ ParentsShown'
  BY InsertParents
<1>3. /\ Typed' /\ Acyclic'
      /\ DOMAIN sub' = DOMAIN sub /\ Exists' = Exists
      /\ \A x \in DOMAIN sub : x # q => sub'[x] = sub[x]
      /\ sub'[q] = InsertAfter(sub[q], after, p)
      /\ \A x \in DOMAIN sub : ToSet(sub'[x]) =
            IF x = q THEN Sub(x) \cup {p} ELSE Sub(x)
  BY <1>1, <1>2, InsertGraph
<1>4. children' = ChildrenMade(p, after, Found(q, after))
  BY DEF CreateBrowserIndexes, Found, ItemsMade, ChildrenMade
<1>5. Found(q, after) \in SUBSET Items(q)
  BY <1>1, FoundItems
<1>6. ItemsArePaths'
  <2>1. /\ DOMAIN sub' = DOMAIN sub /\ Exists' = Exists
        /\ \A y \in DOMAIN sub :
              ToSet(sub'[y]) = IF y = q THEN Sub(y) \cup {p} ELSE Sub(y)
    BY <1>3
  <2> QED
    BY <1>1, <1>4, <1>5, <2>1, InsertItems
<1>7. ASSUME SameOrder, after \in Sub(q) \cup {None} PROVE SameOrder'
  <2>1. Found(q, after) = Items(q)
    BY <1>1, <1>7, FoundItems
  <2> QED
    BY <1>1, <1>3, <1>4, <1>7, <2>1, InsertSameOrder
<1> QED
  BY <1>2, <1>3, <1>6, <1>7

\* A path that does not come to p from a property in from.
Clear(p, from, j) == \A k \in 1 .. Len(j) - 1 : ~(j[k] \in from /\ j[k + 1] = p)

\* removeBrowserIndexes() leaves the items that do not.
LEMMA ClearOfRemoved ==
    ASSUME Typed, Acyclic, ItemsArePaths, NEW p \in Exists, NEW from, NEW j \in Item
    PROVE  (\E r \in ItemsUnder(p, from) : IsPrefix(r, j)) <=> ~Clear(p, from, j)
<1>1. j \in Seq(DOMAIN sub) /\ Len(j) \in Nat \ {0}
  BY ItemElements
<1>2. ASSUME NEW r \in ItemsUnder(p, from), IsPrefix(r, j) PROVE ~Clear(p, from, j)
  <2>1. /\ r \in Item /\ Last(r) = p /\ r # <<Browser>> /\ Last(Front(r)) \in from
        /\ Len(r) <= Len(j) /\ SubSeq(r, 1, Len(r)) = SubSeq(j, 1, Len(r))
    BY <1>2 DEF ItemsUnder, Items, IsPrefix
  <2>2. /\ r \in Seq(DOMAIN sub) /\ Len(r) \in Nat \ {0} /\ Len(r) - 1 \in 1 .. Len(r)
    BY <2>1, ItemElements
  <2>3. r[Len(r)] = p /\ r[Len(r) - 1] \in from
    BY <2>1, ItemAbove DEF Last
  <2>4. \A k \in 1 .. Len(r) : r[k] = j[k]
    <3>1. Len(r) \in 1 .. Len(r) /\ Len(r) \in 1 .. Len(j)
      BY <1>1, <2>1, <2>2
    <3>2. \A k \in 1 .. Len(r) : SubSeq(r, 1, Len(r))[k] = r[k]
      BY <2>2, <3>1, PrefixElements
    <3>3. \A k \in 1 .. Len(r) : SubSeq(j, 1, Len(r))[k] = j[k]
      BY <1>1, <3>1, PrefixElements
    <3> QED
      BY <2>1, <3>2, <3>3
  <2> DEFINE n == Len(r) - 1
  <2>5. n \in 1 .. Len(j) - 1 /\ n \in 1 .. Len(r) /\ n + 1 \in 1 .. Len(r) /\ n + 1 = Len(r)
    BY <1>1, <2>1, <2>2
  <2>6. j[n] \in from /\ j[n + 1] = p
    <3>1. j[n] = r[n] /\ j[n + 1] = r[n + 1]
      BY <2>4, <2>5
    <3> QED
      BY <2>3, <2>5, <3>1
  <2> QED
    BY <2>5, <2>6 DEF Clear
<1>3. ASSUME NEW k \in 1 .. Len(j) - 1, j[k] \in from, j[k + 1] = p
      PROVE  \E r \in ItemsUnder(p, from) : IsPrefix(r, j)
  <2> DEFINE r == SubSeq(j, 1, k + 1)
  <2>1. k \in 1 .. k + 1 /\ k + 1 \in 1 .. k + 1 /\ k + 1 \in 1 .. Len(j) /\ k \in Nat \ {0}
    BY <1>1
  <2>2. r \in Item
    BY <2>1 DEF ItemsArePaths
  <2>3. /\ r \in Seq(DOMAIN sub) /\ Len(r) = k + 1
        /\ \A x \in 1 .. k + 1 : r[x] = j[x]
    BY <1>1, <2>1, PrefixElements
  <2> HIDE DEF r
  <2>4. Last(r) = p /\ r[k] \in from
    BY <1>3, <2>1, <2>3 DEF Last
  <2>5. r # <<Browser>> /\ Len(r) - 1 = k
    <3>1. k + 1 # 1 /\ k + 1 - 1 = k
      BY <2>1
    <3>2. ASSUME r = <<Browser>> PROVE Len(r) = 1
      BY <3>2
    <3> QED
      BY <2>3, <3>1, <3>2
  <2>6. Last(Front(r)) = r[k]
    BY <2>2, <2>5, ItemAbove
  <2>7. r \in ItemsUnder(p, from)
    BY <2>2, <2>4, <2>5, <2>6 DEF ItemsUnder, Items
  <2>8. IsPrefix(r, j)
    <3>1. SubSeq(r, 1, Len(r)) = r
      BY <2>3, SubSeqFull
    <3> QED
      BY <1>1, <2>1, <2>3, <3>1 DEF IsPrefix, r
  <2> QED
    BY <2>7, <2>8
<1> QED
  BY <1>2, <1>3 DEF Clear

\* An item loses its item of p if its property is one of from.
LEMMA FrontOfRemoved ==
    ASSUME Typed, Acyclic, ItemsArePaths, NEW p \in Exists, NEW from, NEW j \in Item
    PROVE  (\E r \in ItemsUnder(p, from) : j = Front(r))
              <=> Last(j) \in from /\ p \in ToSet(children[j])
<1>1. /\ j \in Seq(DOMAIN sub) /\ j # <<>> /\ p \in DOMAIN sub
      /\ p \in ToSet(children[j]) <=> Append(j, p) \in Item
  BY DEF ItemsArePaths, Exists
<1>2. ASSUME NEW r \in ItemsUnder(p, from), j = Front(r)
      PROVE  Last(j) \in from /\ Append(j, p) \in Item
  <2>1. r \in Item /\ Last(r) = p /\ r # <<Browser>> /\ Last(Front(r)) \in from
    BY DEF ItemsUnder, Items
  <2>2. r = Append(Front(r), Last(r))
    BY <2>1, ItemAbove
  <2> QED
    BY <1>2, <2>1, <2>2
<1>3. ASSUME Last(j) \in from, Append(j, p) \in Item
      PROVE  \E r \in ItemsUnder(p, from) : j = Front(r)
  <2> DEFINE r == Append(j, p)
  <2>1. Last(r) = p /\ Front(r) = j
    BY <1>1, AppendElements
  <2>2. r # <<Browser>>
    <3>1. Browser # p /\ Last(<<Browser>>) = Browser
      BY DEF Exists, Last
    <3> HIDE DEF r
    <3> QED
      BY <2>1, <3>1
  <2>3. r \in Item
    BY <1>3
  <2> HIDE DEF r
  <2> QED
    BY <1>3, <2>1, <2>2, <2>3 DEF ItemsUnder, Items
<1> QED
  BY <1>1, <1>2, <1>3

\* What is below the browser when p is taken from the properties in from.
LEMMA RemoveGraph ==
    ASSUME Typed, Acyclic, NEW p \in Exists, NEW from,
           Typed', DOMAIN sub' \subseteq DOMAIN sub,
           \A x \in DOMAIN sub' : ToSet(sub'[x]) \subseteq Sub(x),
           \A x \in Kept(p, from) : x \in DOMAIN sub' /\ ToSet(sub'[x]) = Cut(p, from, x)
    PROVE  Acyclic' /\ Below(Browser)' = Kept(p, from)
<1> DEFINE K == Kept(p, from)
           h == sub'
           B == BelowIn(h, Browser)
<1>1. Graph(h) /\ Below(Browser)' = B /\ (NoCycle(h) => Acyclic')
  BY After
<1>2. Graph(sub) /\ NoCycle(sub)
  BY SubGraph
<1>3. DOMAIN h \subseteq DOMAIN sub /\ \A x \in DOMAIN h : ToSet(h[x]) \subseteq ToSet(sub[x])
  BY DEF Sub
<1>4. Browser \in K /\ CutClosed(p, from, K)
  BY KeptClosed
<1>5. \A x \in K : x \in DOMAIN h /\ ToSet(h[x]) = Cut(p, from, x)
  OBVIOUS
<1> HIDE DEF K, h
<1>6. NoCycle(h)
  BY <1>1, <1>2, <1>3, FewerEdges
<1>7. K \in SUBSET DOMAIN h /\ ClosedIn(h, K)
  BY <1>4, <1>5 DEF CutClosed, ClosedIn
<1>8. Browser \in B /\ B \subseteq DOMAIN h /\ ClosedIn(h, B)
  BY <1>1, <1>4, <1>5, BelowClosed
<1> HIDE DEF B
<1>9. B \subseteq K
  BY <1>4, <1>7, BelowLeast DEF B
<1>10. K \subseteq B
  <2>1. CutClosed(p, from, B)
    BY <1>5, <1>8, <1>9 DEF CutClosed, ClosedIn
  <2>2. B \in SUBSET DOMAIN sub
    BY <1>3, <1>8
  <2> QED
    BY <1>8, <2>1, <2>2, KeptLeast DEF K
<1> QED
  BY <1>1, <1>6, <1>9, <1>10 DEF K

\* The items that stay are those of what is kept.
LEMMA RemoveItems ==
    ASSUME Typed, Acyclic, ItemsArePaths, NEW p \in Exists, NEW from,
           Typed', Exists' \subseteq Exists,
           \A x \in Kept(p, from) : /\ x \in DOMAIN sub'
                                    /\ ToSet(sub'[x]) = Cut(p, from, x),
           children' = RemoveBrowserIndexes(p, from)
    PROVE  /\ ItemsArePaths'
           /\ \A j \in Item' : /\ j \in Item /\ Last(j) \in Kept(p, from)
                               /\ children'[j] = IF Last(j) \in from THEN Without(children[j], p)
                                                 ELSE children[j]
<1> DEFINE K == Kept(p, from)
<1>1. Item' = {j \in Item : Clear(p, from, j)}
  <2>1. Item' = {j \in Item : ~\E r \in ItemsUnder(p, from) : IsPrefix(r, j)}
    BY DEF RemoveBrowserIndexes, Item
  <2> QED
    BY <2>1, ClearOfRemoved
<1>2. \A j \in Item' :
         children'[j] = IF \E r \in ItemsUnder(p, from) : j = Front(r)
                        THEN Without(children[j], p) ELSE children[j]
  BY <1>1 DEF RemoveBrowserIndexes, Item
<1>3. /\ Browser \in K /\ CutClosed(p, from, K) /\ K \subseteq DOMAIN sub
      /\ \A x \in K : x \in DOMAIN sub' /\ Sub(x)' = Cut(p, from, x)
      /\ Exists' = DOMAIN sub' \ {Browser}
  BY KeptClosed DEF Sub, Exists, Kept
<1> HIDE DEF K
<1>4. ASSUME NEW j \in Item'
      PROVE  /\ j \in Item /\ j \in Seq(DOMAIN sub) /\ Len(j) \in Nat \ {0} /\ j # <<>>
             /\ j[1] = Browser /\ Clear(p, from, j)
             /\ \A k \in 1 .. Len(j) - 1 : j[k + 1] \in Cut(p, from, j[k])
             /\ \A k \in 1 .. Len(j) : j[k] \in K /\ SubSeq(j, 1, k) \in Item
             /\ Last(j) \in K
  <2>1. /\ j \in Item /\ Clear(p, from, j) /\ j \in Seq(DOMAIN sub) /\ Len(j) \in Nat \ {0}
        /\ IsPath(j)
    BY <1>1, ItemElements
  <2>2. \A k \in 1 .. Len(j) - 1 : j[k + 1] \in Cut(p, from, j[k])
    BY <2>1 DEF IsPath, Clear, Cut
  <2>3. \A k \in 1 .. Len(j) : SubSeq(j, 1, k) \in Item
    BY <2>1 DEF ItemsArePaths
  <2>4. j[1] = Browser /\ j # <<>>
    BY <2>1 DEF ItemsArePaths
  <2>5. \A k \in 1 .. Len(j) - 1 : j[k] \in K => j[k + 1] \in K
    BY <1>3, <2>2 DEF CutClosed
  <2>6. \A k \in 1 .. Len(j) : j[k] \in K
    BY <1>3, <2>1, <2>4, <2>5, Along
  <2>7. Len(j) \in 1 .. Len(j)
    BY <2>1
  <2> QED
    BY <2>1, <2>2, <2>3, <2>4, <2>6, <2>7 DEF Last
<1>5. ASSUME NEW j \in Item'
      PROVE  /\ children'[j] = IF Last(j) \in from THEN Without(children[j], p) ELSE children[j]
             /\ children'[j] \in Seq(Exists) /\ Simple(children'[j])
             /\ \A x \in Exists : x \in ToSet(children'[j]) <=>
                   Append(j, x) \in Item /\ ~(Last(j) \in from /\ x = p)
  <2>1. /\ children[j] \in Seq(Exists) /\ Simple(children[j])
        /\ \A x \in Exists : x \in ToSet(children[j]) <=> Append(j, x) \in Item
    BY <1>4 DEF ItemsArePaths
  <2>2. /\ Without(children[j], p) \in Seq(Exists)
        /\ ToSet(Without(children[j], p)) = ToSet(children[j]) \ {p}
        /\ Simple(Without(children[j], p))
        /\ p \notin ToSet(children[j]) => Without(children[j], p) = children[j]
    BY <2>1, WithoutElements
  <2>3. (\E r \in ItemsUnder(p, from) : j = Front(r))
           <=> (Last(j) \in from /\ p \in ToSet(children[j]))
    BY <1>4, FrontOfRemoved
  <2>4. children'[j] = IF Last(j) \in from THEN Without(children[j], p) ELSE children[j]
    BY <1>2, <2>2, <2>3
  <2>5. CASE Last(j) \in from
    BY <2>1, <2>2, <2>4, <2>5
  <2>6. CASE Last(j) \notin from
    BY <2>1, <2>4, <2>6
  <2> QED
    BY <2>4, <2>5, <2>6
<1>6. ASSUME NEW j \in Item', NEW x \in Exists
      PROVE  Append(j, x) \in Item' <=>
                Append(j, x) \in Item /\ ~(Last(j) \in from /\ x = p)
  <2> DEFINE t == Append(j, x)
  <2>1. /\ Len(j) \in Nat \ {0} /\ Len(t) = Len(j) + 1 /\ t[Len(j) + 1] = x
        /\ \A k \in 1 .. Len(j) : t[k] = j[k]
    BY <1>4, AppendProperties DEF Exists
  <2> HIDE DEF t
  <2>2. \A k \in 1 .. Len(j) - 1 : k \in 1 .. Len(j) /\ k + 1 \in 1 .. Len(j)
    BY <2>1
  <2>3. \A k \in 1 .. Len(j) - 1 : ~(t[k] \in from /\ t[k + 1] = p)
    BY <1>4, <2>1, <2>2 DEF Clear
  <2>4. t[Len(j)] = Last(j) /\ Len(j) \in 1 .. Len(t) - 1
    <3>1. Len(j) \in 1 .. Len(j) /\ Len(j) \in 1 .. Len(t) - 1
      BY <2>1
    <3> QED
      BY <2>1, <3>1 DEF Last
  <2>5. \A k \in 1 .. Len(t) - 1 : k = Len(j) \/ k \in 1 .. Len(j) - 1
    BY <2>1
  <2>6. Clear(p, from, t) <=> ~(Last(j) \in from /\ x = p)
    BY <2>1, <2>3, <2>4, <2>5 DEF Clear
  <2> QED
    BY <1>1, <2>6 DEF t
<1>7. ASSUME NEW j \in Item'
      PROVE  children'[j] \in Seq(Exists')
  <2>1. ASSUME NEW k \in 1 .. Len(children'[j]) PROVE children'[j][k] \in Exists'
    <3> DEFINE x == children'[j][k]
    <3>1. x \in Exists /\ x \in ToSet(children'[j])
      BY <1>5, ElementsIn
    <3> HIDE DEF x
    <3>2. Append(j, x) \in Item /\ ~(Last(j) \in from /\ x = p)
      BY <1>5, <3>1
    <3>3. x \in Cut(p, from, Last(j))
      <4>1. x \in Sub(Last(j))
        BY <1>4, <3>1, <3>2, ItemBelow DEF Exists
      <4> QED
        BY <3>2, <4>1 DEF Cut
    <3>4. x \in K
      BY <1>3, <1>4, <3>3 DEF CutClosed
    <3>5. x \in Exists'
      BY <1>3, <3>1, <3>4 DEF Exists
    <3> QED
      BY <3>5 DEF x
  <2> QED
    BY <1>5, <2>1, SeqIn
<1>8. ASSUME NEW j \in Item' PROVE j \in Seq(DOMAIN sub') /\ IsPath(j)'
  <2>1. \A k \in 1 .. Len(j) : j[k] \in DOMAIN sub'
    BY <1>3, <1>4
  <2>2. j \in Seq(DOMAIN sub')
    BY <1>4, <2>1, SeqIn
  <2>3. IsPath(j)'
    <3> SUFFICES ASSUME NEW k \in 1 .. Len(j) - 1 PROVE j[k + 1] \in Sub(j[k])'
      BY DEF IsPath
    <3>1. k \in 1 .. Len(j) /\ j[k + 1] \in Cut(p, from, j[k])
      BY <1>4
    <3>2. j[k] \in K
      BY <1>4, <3>1
    <3> QED
      BY <1>3, <3>1, <3>2
  <2> QED
    BY <2>2, <2>3
<1>9. ASSUME NEW j \in Item', NEW n \in 1 .. Len(j) PROVE SubSeq(j, 1, n) \in Item'
  <2> DEFINE t == SubSeq(j, 1, n)
  <2>1. t \in Item /\ Len(t) = n /\ \A k \in 1 .. n : t[k] = j[k]
    BY <1>4, PrefixElements
  <2> HIDE DEF t
  <2>2. \A k \in 1 .. n - 1 : k \in 1 .. n /\ k + 1 \in 1 .. n /\ k \in 1 .. Len(j) - 1
    BY <1>4
  <2>3. Clear(p, from, t)
    BY <1>4, <2>1, <2>2 DEF Clear
  <2> QED
    BY <1>1, <2>1, <2>3 DEF t
<1>10. <<Browser>> \in Item'
  <2>1. Len(<<Browser>>) = 1
    OBVIOUS
  <2>2. Clear(p, from, <<Browser>>)
    BY <2>1 DEF Clear
  <2> QED
    BY <1>1, <2>2 DEF ItemsArePaths
<1>11. ItemsArePaths'
  <2> SUFFICES ASSUME NEW j \in Item'
               PROVE  /\ j \in Seq(DOMAIN sub') /\ j # <<>> /\ j[1] = Browser /\ IsPath(j)'
                      /\ \A k \in 1 .. Len(j) : SubSeq(j, 1, k) \in Item'
                      /\ children'[j] \in Seq(Exists') /\ Simple(children'[j])
                      /\ \A x \in Exists' :
                            x \in ToSet(children'[j]) <=> Append(j, x) \in Item'
    BY <1>10 DEF ItemsArePaths
  <2>1. \A x \in Exists' : x \in ToSet(children'[j]) <=> Append(j, x) \in Item'
    BY <1>5, <1>6
  <2> QED
    BY <1>4, <1>5, <1>7, <1>8, <1>9, <2>1
<1> QED
  BY <1>4, <1>5, <1>11 DEF K

\* A property is taken from properties that are shown: the rest of the browser
\* follows.
LEMMA RemoveShown ==
    ASSUME Typed, Acyclic, ParentsShown, ItemsArePaths,
           NEW p \in Exists, NEW from \in SUBSET Below(Browser),
           Typed', Exists' \subseteq Exists, DOMAIN sub' \subseteq DOMAIN sub,
           \A x \in DOMAIN sub' : ToSet(sub'[x]) \subseteq Sub(x),
           \A x \in Kept(p, from) :
              /\ x \in DOMAIN sub' /\ ToSet(sub'[x]) = Cut(p, from, x)
              /\ sub'[x] = IF x \in from THEN Without(sub[x], p) ELSE sub[x],
           \A x \in Exists' : toParents'[x] = RemoveSubTree(p, from)[x],
           children' = RemoveBrowserIndexes(p, from)
    PROVE  /\ Acyclic' /\ ParentsShown' /\ ItemsArePaths'
           /\ SameOrder => SameOrder'
<1> DEFINE K == Kept(p, from)
<1>1. \A x \in K : x \in DOMAIN sub' /\ ToSet(sub'[x]) = Cut(p, from, x)
  OBVIOUS
<1>2. Acyclic' /\ Below(Browser)' = K
  BY <1>1, RemoveGraph
<1>3. /\ ItemsArePaths'
      /\ \A j \in Item' : /\ j \in Item /\ Last(j) \in K
                          /\ children'[j] = IF Last(j) \in from THEN Without(children[j], p)
                                            ELSE children[j]
  BY <1>1, RemoveItems
<1>4. RemoveSubTree(p, from) = [x \in Exists |-> {y \in K : x \in Cut(p, from, y)}]
  BY RemoveSubTreeKeeps
<1> HIDE DEF K
<1>5. ASSUME NEW x \in Exists' PROVE toParents'[x] = {y \in K : x \in Sub(y)'}
  BY <1>1, <1>4 DEF Sub
<1>6. ParentsShown'
  BY <1>2, <1>5 DEF ParentsShown
<1>7. ASSUME SameOrder PROVE SameOrder'
  <2> SUFFICES ASSUME NEW j \in Item' PROVE children'[j] = sub'[Last(j)]
    BY DEF SameOrder
  <2>1. children[j] = sub[Last(j)]
    BY <1>3, <1>7 DEF SameOrder
  <2> QED
    BY <1>3, <2>1 DEF K
<1> QED
  BY <1>2, <1>3, <1>6, <1>7

-----------------------------------------------------------------------------
(* The actions.                                                            *)

LEMMA CreateStep ==
    ASSUME IInv, NEW p \in Property, Create(p)
    PROVE  IInv' /\ (SameOrder => SameOrder')
<1>1. /\ Typed /\ Acyclic /\ ParentsAgree /\ ParentsShown /\ ItemsArePaths
      /\ p \in Property /\ p \notin Exists /\ p # Browser /\ p \notin DOMAIN sub
  BY ConstantsAssumption DEF IInv, Create, Exists
<1>2. /\ sub' = [q \in DOMAIN sub \cup {p} |-> IF q = p THEN <<>> ELSE sub[q]]
      /\ parents' = [q \in Exists \cup {p} |-> IF q = p THEN {} ELSE parents[q]]
      /\ toParents' = [q \in Exists \cup {p} |-> IF q = p THEN {} ELSE toParents[q]]
      /\ children' = children
  BY DEF Create
<1>3. /\ Exists' = Exists \cup {p} /\ DOMAIN sub' = DOMAIN sub \cup {p}
      /\ \A x \in DOMAIN sub : x \in DOMAIN sub' /\ sub'[x] = sub[x]
      /\ sub'[p] = <<>> /\ p \notin DOMAIN sub
      /\ \A x \in DOMAIN sub : sub[x] \in Seq(Exists) /\ Simple(sub[x]) /\ Sub(x) \subseteq Exists
  BY <1>1, <1>2, SubGraph DEF Exists, Typed
<1>4. Typed'
  <2>1. ASSUME NEW x \in DOMAIN sub' PROVE sub'[x] \in Seq(Exists') /\ Simple(sub'[x])
    <3>1. CASE x = p
      <4>1. sub'[x] = <<>> /\ <<>> \in Seq(Exists') /\ Simple(<<>>)
        BY <1>3, <3>1 DEF Simple
      <4> QED
        BY <4>1
    <3>2. CASE x # p
      <4>1. sub'[x] = sub[x] /\ sub[x] \in Seq(Exists) /\ Simple(sub[x])
        BY <1>3, <3>2
      <4> QED
        BY <1>3, <4>1, SeqMonotonic
    <3> QED
      BY <3>1, <3>2
  <2>2. sub' \in [DOMAIN sub' -> Seq(Exists')]
    BY <1>2, <2>1
  <2>3. /\ parents' \in [Exists' -> SUBSET Exists']
        /\ toParents' \in [Exists' -> SUBSET DOMAIN sub']
    BY <1>1, <1>2, <1>3 DEF Typed
  <2>4. Exists' \subseteq Property /\ Browser \in DOMAIN sub'
    BY <1>1, <1>3 DEF Typed
  <2> QED
    BY <2>1, <2>2, <2>3, <2>4 DEF Typed
<1>5. Acyclic'
  <2> DEFINE h == sub'
  <2>1. /\ \A x \in DOMAIN sub : x \in DOMAIN h /\ h[x] = sub[x]
        /\ \A x \in DOMAIN h \ DOMAIN sub : ToSet(h[x]) = {}
    BY <1>3 DEF ToSet
  <2>2. Graph(h) /\ (NoCycle(h) => Acyclic')
    BY <1>4, After
  <2>3. Graph(sub) /\ NoCycle(sub)
    BY <1>1, SubGraph
  <2> HIDE DEF h
  <2> QED
    BY <2>1, <2>2, <2>3, NewVertex
<1>6. ParentsAgree'
  <2>1. \A x \in Exists : Sub(x)' = Sub(x)
    BY <1>3 DEF Sub, Exists
  <2>2. Sub(p)' = {}
    BY <1>3 DEF Sub, ToSet
  <2> SUFFICES ASSUME NEW x \in Exists' PROVE parents'[x] = {q \in Exists' : x \in Sub(q)'}
    BY DEF ParentsAgree
  <2>3. {q \in Exists' : x \in Sub(q)'} = {q \in Exists : x \in Sub(q)}
    BY <1>3, <2>1, <2>2
  <2>4. CASE x = p
    <3>1. \A q \in Exists : x \notin Sub(q)
      BY <1>1, <1>3, <2>4 DEF Exists
    <3> QED
      BY <1>2, <2>3, <2>4, <3>1
  <2>5. CASE x # p
    BY <1>1, <1>2, <1>3, <2>3, <2>5 DEF ParentsAgree
  <2> QED
    BY <2>4, <2>5
<1>7. ParentsShown' /\ ItemsArePaths' /\ (SameOrder => SameOrder')
  <2>1. \A x \in Below(Browser) : x \in DOMAIN sub' /\ sub'[x] = sub[x]
    BY <1>1, <1>3, SubGraph DEF Typed
  <2>2. /\ Exists \subseteq Exists'
        /\ \A x \in Exists : toParents'[x] = toParents[x]
        /\ \A x \in Exists' \ Exists : toParents'[x] = {}
    BY <1>1, <1>2, <1>3
  <2> QED
    BY <1>1, <1>2, <1>4, <2>1, <2>2, OffScreen
<1> QED
  BY <1>4, <1>5, <1>6, <1>7 DEF IInv

\* A property that is inserted has one parent more.
LEMMA InsertAgree ==
    ASSUME Typed, Acyclic, ParentsAgree, NEW q \in DOMAIN sub, NEW p \in Exists, NEW after,
           sub' = [sub EXCEPT ![q] = InsertAfter(@, after, p)],
           q # Browser => parents' = [parents EXCEPT ![p] = @ \cup {q}],
           q = Browser => parents' = parents
    PROVE  ParentsAgree' /\ parents' \in [Exists -> SUBSET Exists]
<1>1. /\ Exists' = Exists /\ Exists = DOMAIN sub \ {Browser}
      /\ parents \in [Exists -> SUBSET Exists]
      /\ \A x \in Exists : parents[x] = {y \in Exists : x \in Sub(y)}
  BY DEF Exists, Typed, ParentsAgree
<1>2. \A y \in DOMAIN sub : Sub(y)' = IF y = q THEN Sub(y) \cup {p} ELSE Sub(y)
  <2>1. ToSet(InsertAfter(sub[q], after, p)) = Sub(q) \cup {p}
    <3>1. sub[q] \in Seq(Exists)
      BY DEF Typed
    <3> QED
      BY <3>1, InsertAfterElements DEF Sub
  <2>2. \A y \in DOMAIN sub : sub'[y] = IF y = q THEN InsertAfter(sub[q], after, p) ELSE sub[y]
    OBVIOUS
  <2> QED
    BY <2>1, <2>2 DEF Sub
<1>3. parents' \in [Exists -> SUBSET Exists]
  <2>1. CASE q = Browser
    BY <1>1, <2>1
  <2>2. CASE q # Browser
    BY <1>1, <2>2
  <2> QED
    BY <2>1, <2>2
<1>4. ASSUME NEW x \in Exists PROVE parents'[x] = {y \in Exists : x \in Sub(y)'}
  <2>1. CASE q = Browser
    BY <1>1, <1>2, <2>1
  <2>2. CASE q # Browser
    <3>1. parents'[x] = IF x = p THEN parents[x] \cup {q} ELSE parents[x]
      BY <1>1, <2>2
    <3>2. \A y \in Exists : x \in Sub(y)' <=> (x \in Sub(y) \/ (y = q /\ x = p))
      BY <1>1, <1>2
    <3>3. q \in Exists
      BY <1>1, <2>2
    <3> QED
      BY <1>1, <3>1, <3>2, <3>3
  <2> QED
    BY <2>1, <2>2
<1> QED
  BY <1>1, <1>3, <1>4 DEF ParentsAgree

LEMMA InsertSubPropertyStep ==
    ASSUME IInv, NEW q \in Property, NEW p \in Property, NEW after,
           InsertSubProperty(q, p, after)
    PROVE  IInv' /\ (SameOrder => SameOrder')
<1> DEFINE proper == IF after \in Sub(q) THEN after ELSE None
<1>1. /\ Typed /\ Acyclic /\ ParentsAgree /\ ParentsShown /\ ItemsArePaths
      /\ p \in Exists /\ q \in Exists /\ q \in DOMAIN sub /\ q # Browser
      /\ q \notin Below(p) /\ p \notin Sub(q)
  BY DEF IInv, InsertSubProperty, Exists
<1>2. /\ sub' = [sub EXCEPT ![q] = InsertAfter(@, proper, p)]
      /\ parents' = [parents EXCEPT ![p] = @ \cup {q}]
      /\ Registered(q) => /\ children' = CreateBrowserIndexes(p, q, proper)
                          /\ toParents' = InsertSubTree(p, q)
      /\ ~Registered(q) => children' = children /\ toParents' = toParents
  BY DEF InsertSubProperty
<1>3. proper \in Sub(q) \cup {None}
  OBVIOUS
<1> HIDE DEF proper
<1>4. ParentsAgree' /\ parents' \in [Exists -> SUBSET Exists]
  BY <1>1, <1>2, InsertAgree
<1>5. CASE Registered(q)
  <2>1. q \in Below(Browser)
    BY <1>1, <1>5, RegisteredIsShown
  <2>2. /\ sub' = [sub EXCEPT ![q] = InsertAfter(@, proper, p)]
        /\ children' = CreateBrowserIndexes(p, q, proper)
        /\ toParents' = InsertSubTree(p, q)
    BY <1>2, <1>5
  <2>3. /\ Typed' /\ Acyclic' /\ ParentsShown' /\ ItemsArePaths'
        /\ SameOrder => SameOrder'
    BY <1>1, <1>3, <1>4, <2>1, <2>2, InsertShown
  <2> QED
    BY <1>4, <2>3 DEF IInv
<1>6. CASE ~Registered(q)
  <2>1. q \notin Below(Browser)
    BY <1>1, <1>6, RegisteredIsShown
  <2>2. /\ sub' = [sub EXCEPT ![q] = InsertAfter(@, proper, p)]
        /\ children' = children /\ toParents' = toParents
        /\ toParents' \in [Exists -> SUBSET DOMAIN sub]
    BY <1>1, <1>2, <1>6 DEF Typed
  <2>3. /\ Typed' /\ Acyclic' /\ DOMAIN sub' = DOMAIN sub /\ Exists' = Exists
        /\ \A x \in DOMAIN sub : x # q => sub'[x] = sub[x]
    BY <1>1, <1>4, <2>2, InsertGraph
  <2>4. \A x \in Below(Browser) : x \in DOMAIN sub' /\ sub'[x] = sub[x]
    BY <1>1, <2>1, <2>3, SubGraph DEF Typed
  <2>5. /\ Exists \subseteq Exists'
        /\ \A x \in Exists : toParents'[x] = toParents[x]
        /\ \A x \in Exists' \ Exists : toParents'[x] = {}
    BY <2>2, <2>3
  <2>6. ParentsShown' /\ ItemsArePaths' /\ (SameOrder => SameOrder')
    BY <1>1, <2>2, <2>3, <2>4, <2>5, OffScreen
  <2> QED
    BY <1>4, <2>3, <2>6 DEF IInv
<1> QED
  BY <1>5, <1>6

LEMMA insertPropertyStep ==
    ASSUME IInv, NEW p \in Property, NEW after, insertProperty(p, after)
    PROVE  IInv' /\ (SameOrder /\ ~ForeignAfter => SameOrder')
<1>1. /\ Typed /\ Acyclic /\ ParentsAgree /\ ParentsShown /\ ItemsArePaths
      /\ p \in Exists /\ p \notin Sub(Browser)
      /\ ~ForeignAfter => after \in Sub(Browser) \cup {None}
  BY DEF IInv, insertProperty
<1>2. /\ sub' = [sub EXCEPT ![Browser] = InsertAfter(@, after, p)]
      /\ parents' = parents
      /\ children' = CreateBrowserIndexes(p, Browser, after)
      /\ toParents' = InsertSubTree(p, Browser)
  BY DEF insertProperty
<1>3. Browser \in DOMAIN sub /\ Browser \in Below(Browser) /\ Browser \notin Below(p)
  <2>1. Browser \in DOMAIN sub
    BY <1>1 DEF Typed
  <2> QED
    BY <1>1, <2>1, SubGraph
<1>4. ParentsAgree' /\ parents' \in [Exists -> SUBSET Exists]
  BY <1>1, <1>2, <1>3, InsertAgree
<1>5. /\ Typed' /\ Acyclic' /\ ParentsShown' /\ ItemsArePaths'
      /\ SameOrder /\ after \in Sub(Browser) \cup {None} => SameOrder'
  BY <1>1, <1>2, <1>3, <1>4, InsertShown
<1> QED
  BY <1>1, <1>4, <1>5 DEF IInv

\* A property is taken from the sub-properties of q, or of the browser.
LEMMA RemoveOne ==
    ASSUME Typed, Acyclic, NEW q \in DOMAIN sub, NEW p \in Exists,
           sub' = [sub EXCEPT ![q] = Without(@, p)],
           parents' \in [Exists -> SUBSET Exists],
           toParents' \in [Exists -> SUBSET DOMAIN sub]
    PROVE  /\ Typed' /\ Exists' = Exists /\ DOMAIN sub' = DOMAIN sub
           /\ \A x \in DOMAIN sub :
                 /\ ToSet(sub'[x]) = Cut(p, {q}, x)
                 /\ sub'[x] = IF x \in {q} THEN Without(sub[x], p) ELSE sub[x]
<1>1. /\ Exists \subseteq Property /\ Browser \in DOMAIN sub
      /\ sub \in [DOMAIN sub -> Seq(Exists)] /\ \A x \in DOMAIN sub : Simple(sub[x])
  BY DEF Typed
<1>2. /\ Without(sub[q], p) \in Seq(Exists) /\ Simple(Without(sub[q], p))
      /\ ToSet(Without(sub[q], p)) = Sub(q) \ {p}
  <2>1. sub[q] \in Seq(Exists) /\ Simple(sub[q])
    BY <1>1
  <2> QED
    BY <2>1, WithoutElements DEF Sub
<1>3. /\ DOMAIN sub' = DOMAIN sub /\ Exists' = Exists
      /\ \A x \in DOMAIN sub :
            sub'[x] = IF x \in {q} THEN Without(sub[x], p) ELSE sub[x]
      /\ sub' \in [DOMAIN sub -> Seq(Exists)]
  BY <1>1, <1>2 DEF Exists
<1>4. \A x \in DOMAIN sub : ToSet(sub'[x]) = Cut(p, {q}, x) /\ Simple(sub'[x])
  BY <1>1, <1>2, <1>3 DEF Cut, Sub
<1>5. Typed'
  BY <1>1, <1>3, <1>4 DEF Typed
<1> QED
  BY <1>3, <1>4, <1>5

\* and the browser follows, if q is shown.
LEMMA RemoveOneShown ==
    ASSUME Typed, Acyclic, ParentsShown, ItemsArePaths,
           NEW q \in Below(Browser), NEW p \in Exists,
           sub' = [sub EXCEPT ![q] = Without(@, p)],
           parents' \in [Exists -> SUBSET Exists],
           toParents' = RemoveSubTree(p, {q}),
           children' = RemoveBrowserIndexes(p, {q})
    PROVE  /\ Typed' /\ Acyclic' /\ ParentsShown' /\ ItemsArePaths'
           /\ SameOrder => SameOrder'
<1>1. /\ Below(Browser) \subseteq DOMAIN sub /\ q \in DOMAIN sub
      /\ {q} \in SUBSET Below(Browser)
  BY SubGraph DEF Typed
<1>2. Kept(p, {q}) \subseteq Below(Browser)
  BY KeptClosed
<1>3. toParents' \in [Exists -> SUBSET DOMAIN sub]
  <2>1. toParents' = [x \in Exists |-> {y \in Kept(p, {q}) : x \in Cut(p, {q}, y)}]
    BY <1>1, RemoveSubTreeKeeps
  <2> QED
    BY <1>1, <1>2, <2>1
<1>4. /\ Typed' /\ Exists' = Exists /\ DOMAIN sub' = DOMAIN sub
      /\ \A x \in DOMAIN sub :
            /\ ToSet(sub'[x]) = Cut(p, {q}, x)
            /\ sub'[x] = IF x \in {q} THEN Without(sub[x], p) ELSE sub[x]
  BY <1>1, <1>3, RemoveOne
<1>5. \A x \in DOMAIN sub' : ToSet(sub'[x]) \subseteq Sub(x)
  BY <1>4 DEF Cut
<1>6. \A x \in Kept(p, {q}) :
         /\ x \in DOMAIN sub' /\ ToSet(sub'[x]) = Cut(p, {q}, x)
         /\ sub'[x] = IF x \in {q} THEN Without(sub[x], p) ELSE sub[x]
  BY <1>1, <1>2, <1>4
<1>7. /\ Exists' \subseteq Exists /\ DOMAIN sub' \subseteq DOMAIN sub
      /\ \A x \in Exists' : toParents'[x] = RemoveSubTree(p, {q})[x]
  BY <1>4
<1>8. /\ Acyclic' /\ ParentsShown' /\ ItemsArePaths'
      /\ SameOrder => SameOrder'
  BY <1>1, <1>4, <1>5, <1>6, <1>7, RemoveShown
<1> QED
  BY <1>4, <1>8

LEMMA removePropertyStep ==
    ASSUME IInv, NEW p \in Property, removeProperty(p)
    PROVE  IInv' /\ (SameOrder => SameOrder')
<1>1. Typed /\ Acyclic /\ ParentsAgree /\ ParentsShown /\ ItemsArePaths
  BY DEF IInv
<1>2. Browser \in DOMAIN sub /\ Browser \in Below(Browser) /\ p \in Exists
  <2>1. Browser \in DOMAIN sub
    BY <1>1 DEF Typed
  <2> QED
    BY <1>1, <2>1, SubGraph DEF removeProperty
<1>3. /\ sub' = [sub EXCEPT ![Browser] = Without(@, p)]
      /\ parents' = parents /\ parents' \in [Exists -> SUBSET Exists]
      /\ children' = RemoveBrowserIndexes(p, {Browser})
      /\ toParents' = RemoveSubTree(p, {Browser})
  BY <1>1 DEF removeProperty, Typed
<1>4. /\ Typed' /\ Acyclic' /\ ParentsShown' /\ ItemsArePaths'
      /\ SameOrder => SameOrder'
  BY <1>1, <1>2, <1>3, RemoveOneShown
<1>5. ParentsAgree'
  <2>1. Exists' = Exists /\ \A y \in Exists : Sub(y)' = Sub(y)
    BY <1>1, <1>2, <1>3 DEF Exists, Sub, Typed
  <2> QED
    BY <1>1, <1>3, <2>1 DEF ParentsAgree
<1> QED
  BY <1>4, <1>5 DEF IInv

LEMMA RemoveSubPropertyStep ==
    ASSUME IInv, NEW q \in Property, NEW p \in Property, RemoveSubProperty(q, p)
    PROVE  IInv' /\ (SameOrder => SameOrder')
<1>1. /\ Typed /\ Acyclic /\ ParentsAgree /\ ParentsShown /\ ItemsArePaths
      /\ p \in Exists /\ q \in Exists /\ q \in DOMAIN sub
  BY DEF IInv, RemoveSubProperty, Exists
<1>2. /\ sub' = [sub EXCEPT ![q] = Without(@, p)]
      /\ parents' = IF p \in Sub(q) THEN [parents EXCEPT ![p] = @ \ {q}] ELSE parents
      /\ Registered(q) => /\ toParents' = RemoveSubTree(p, {q})
                          /\ children' = RemoveBrowserIndexes(p, {q})
      /\ ~Registered(q) => toParents' = toParents /\ children' = children
  BY DEF RemoveSubProperty
<1>3. /\ Exists' = Exists
      /\ \A y \in DOMAIN sub : Sub(y)' = IF y = q THEN Sub(y) \ {p} ELSE Sub(y)
  <2>1. ToSet(Without(sub[q], p)) = Sub(q) \ {p}
    <3>1. sub[q] \in Seq(Exists) /\ Simple(sub[q])
      BY <1>1 DEF Typed
    <3> QED
      BY <3>1, WithoutElements DEF Sub
  <2>2. DOMAIN sub' = DOMAIN sub /\ \A y \in DOMAIN sub :
           sub'[y] = IF y = q THEN Without(sub[q], p) ELSE sub[y]
    BY <1>1, <1>2 DEF Typed
  <2> QED
    BY <2>1, <2>2 DEF Sub, Exists
<1>4. ParentsAgree' /\ parents' \in [Exists -> SUBSET Exists]
  <2>1. /\ parents \in [Exists -> SUBSET Exists]
        /\ \A x \in Exists : parents[x] = {y \in Exists : x \in Sub(y)}
    BY <1>1 DEF Typed, ParentsAgree
  <2>2. ASSUME NEW x \in Exists
        PROVE  /\ parents'[x] = IF x = p THEN parents[x] \ {q} ELSE parents[x]
               /\ \A y \in Exists : x \in Sub(y)' <=> (x \in Sub(y) /\ ~(y = q /\ x = p))
    <3>1. parents'[x] = IF x = p THEN parents[x] \ {q} ELSE parents[x]
      <4>1. CASE p \in Sub(q)
        BY <1>1, <1>2, <2>1, <4>1
      <4>2. CASE p \notin Sub(q)
        BY <1>1, <1>2, <2>1, <4>2
      <4> QED
        BY <4>1, <4>2
    <3>2. \A y \in Exists : x \in Sub(y)' <=> (x \in Sub(y) /\ ~(y = q /\ x = p))
      BY <1>3 DEF Exists
    <3> QED
      BY <3>1, <3>2
  <2>3. ASSUME NEW x \in Exists PROVE parents'[x] = {y \in Exists : x \in Sub(y)'}
    BY <2>1, <2>2
  <2>4. parents' \in [Exists -> SUBSET Exists]
    <3>1. CASE p \in Sub(q)
      BY <1>2, <2>1, <3>1
    <3>2. CASE p \notin Sub(q)
      BY <1>2, <2>1, <3>2
    <3> QED
      BY <3>1, <3>2
  <2> QED
    BY <1>3, <2>3, <2>4 DEF ParentsAgree
<1>5. CASE Registered(q)
  <2>1. q \in Below(Browser)
    BY <1>1, <1>5, RegisteredIsShown
  <2>2. /\ sub' = [sub EXCEPT ![q] = Without(@, p)]
        /\ toParents' = RemoveSubTree(p, {q})
        /\ children' = RemoveBrowserIndexes(p, {q})
    BY <1>2, <1>5
  <2>3. /\ Typed' /\ Acyclic' /\ ParentsShown' /\ ItemsArePaths'
        /\ SameOrder => SameOrder'
    BY <1>1, <1>4, <2>1, <2>2, RemoveOneShown
  <2> QED
    BY <1>4, <2>3 DEF IInv
<1>6. CASE ~Registered(q)
  <2>1. q \notin Below(Browser)
    BY <1>1, <1>6, RegisteredIsShown
  <2>2. /\ sub' = [sub EXCEPT ![q] = Without(@, p)]
        /\ children' = children /\ toParents' = toParents
        /\ toParents' \in [Exists -> SUBSET DOMAIN sub]
    BY <1>1, <1>2, <1>6 DEF Typed
  <2>3. /\ Typed' /\ Exists' = Exists /\ DOMAIN sub' = DOMAIN sub
        /\ \A x \in DOMAIN sub :
              /\ ToSet(sub'[x]) = Cut(p, {q}, x)
              /\ sub'[x] = IF x \in {q} THEN Without(sub[x], p) ELSE sub[x]
    BY <1>1, <1>4, <2>2, RemoveOne
  <2>4. Acyclic'
    <3> DEFINE h == sub'
    <3>1. Graph(h) /\ (NoCycle(h) => Acyclic')
      BY <2>3, After
    <3>2. Graph(sub) /\ NoCycle(sub)
      BY <1>1, SubGraph
    <3>3. DOMAIN h \subseteq DOMAIN sub /\ \A x \in DOMAIN h : ToSet(h[x]) \subseteq ToSet(sub[x])
      BY <2>3 DEF Cut, Sub
    <3> HIDE DEF h
    <3> QED
      BY <3>1, <3>2, <3>3, FewerEdges
  <2>5. \A x \in Below(Browser) : x \in DOMAIN sub' /\ sub'[x] = sub[x]
    BY <1>1, <2>1, <2>3, SubGraph DEF Typed
  <2>6. /\ Exists \subseteq Exists'
        /\ \A x \in Exists : toParents'[x] = toParents[x]
        /\ \A x \in Exists' \ Exists : toParents'[x] = {}
    BY <2>2, <2>3
  <2>7. ParentsShown' /\ ItemsArePaths' /\ (SameOrder => SameOrder')
    BY <1>1, <2>2, <2>3, <2>5, <2>6, OffScreen
  <2> QED
    BY <1>4, <2>3, <2>4, <2>7 DEF IInv
<1> QED
  BY <1>5, <1>6

LEMMA DestroyStep ==
    ASSUME IInv, NEW p \in Property, Destroy(p)
    PROVE  IInv' /\ (SameOrder => SameOrder')
<1> DEFINE from == {q \in parents[p] : Registered(q)} \cup {b \in {Browser} : p \in Sub(b)}
           rest == Exists \ {p}
           K == Kept(p, from)
<1>1. /\ Typed /\ Acyclic /\ ParentsAgree /\ ParentsShown /\ ItemsArePaths
      /\ p \in Exists /\ p # Browser /\ Browser \in DOMAIN sub
      /\ Exists = DOMAIN sub \ {Browser} /\ Exists \subseteq Property
      /\ parents[p] = {q \in Exists : p \in Sub(q)}
      /\ \A x \in DOMAIN sub : sub[x] \in Seq(Exists) /\ Simple(sub[x])
      /\ parents \in [Exists -> SUBSET Exists]
  BY DEF IInv, Destroy, Exists, Typed, ParentsAgree
<1>2. /\ toParents' = [q \in rest |-> RemoveSubTree(p, from)[q]]
      /\ children' = RemoveBrowserIndexes(p, from)
      /\ sub' = [q \in DOMAIN sub \ {p} |->
                   IF q \in parents[p] \cup {Browser} THEN Without(sub[q], p) ELSE sub[q]]
      /\ parents' = [q \in rest |-> IF q \in Sub(p) THEN parents[q] \ {p} ELSE parents[q]]
  BY DEF Destroy
<1>3. /\ Browser \in Below(Browser) /\ Below(Browser) \subseteq DOMAIN sub
      /\ \A x \in DOMAIN sub : Sub(x) \subseteq Exists
  BY <1>1, SubGraph
\* from has the properties on the screen that p is a sub-property of.
<1>4. from \in SUBSET Below(Browser) /\ \A x \in Below(Browser) : x \in from <=> p \in Sub(x)
  <2>1. \A q \in Exists : Registered(q) <=> q \in Below(Browser)
    BY <1>1, RegisteredIsShown
  <2> QED
    BY <1>1, <1>3, <2>1
<1> HIDE DEF from
<1>5. DOMAIN sub' = DOMAIN sub \ {p} /\ Exists' = rest
  BY <1>1, <1>2 DEF Exists
<1>6. ASSUME NEW x \in DOMAIN sub \ {p}
      PROVE  /\ sub'[x] = Without(sub[x], p) /\ Sub(x)' = Sub(x) \ {p}
             /\ sub'[x] \in Seq(rest) /\ Simple(sub'[x])
             /\ p \notin Sub(x) => sub'[x] = sub[x]
  <2>1. /\ Without(sub[x], p) \in Seq(Exists) /\ Simple(Without(sub[x], p))
        /\ ToSet(Without(sub[x], p)) = Sub(x) \ {p}
        /\ p \notin Sub(x) => Without(sub[x], p) = sub[x]
    <3>1. sub[x] \in Seq(Exists) /\ Simple(sub[x])
      BY <1>1
    <3> QED
      BY <3>1, WithoutElements DEF Sub
  <2>2. sub'[x] = Without(sub[x], p)
    <3>1. x \notin parents[p] \cup {Browser} => p \notin Sub(x)
      BY <1>1
    <3> QED
      BY <1>2, <2>1, <3>1
  <2>3. \A k \in 1 .. Len(sub'[x]) : sub'[x][k] \in rest
    <3>1. \A k \in 1 .. Len(sub'[x]) : sub'[x][k] \in ToSet(Without(sub[x], p))
      BY <2>1, <2>2, ElementsIn
    <3> QED
      BY <1>3, <2>1, <3>1
  <2>4. sub'[x] \in Seq(rest)
    BY <2>1, <2>2, <2>3, SeqIn
  <2> QED
    BY <2>1, <2>2, <2>4 DEF Sub
<1>7. p \notin K /\ K \subseteq Below(Browser)
  <2>1. K \subseteq Below(Browser)
    BY <1>1, KeptClosed
  <2>2. \A y \in K : p \notin Cut(p, from, y)
    BY <1>4, <2>1 DEF Cut
  <2> QED
    BY <1>1, <2>1, <2>2, KeptUnder
<1>8. RemoveSubTree(p, from) = [x \in Exists |-> {y \in K : x \in Cut(p, from, y)}]
  BY <1>1, <1>4, RemoveSubTreeKeeps
<1>9. Typed'
  <2>1. sub' \in [DOMAIN sub' -> Seq(Exists')] /\ \A x \in DOMAIN sub' : Simple(sub'[x])
    BY <1>2, <1>5, <1>6
  <2>2. parents' \in [Exists' -> SUBSET Exists']
    <3>1. ASSUME NEW x \in rest
          PROVE  (IF x \in Sub(p) THEN parents[x] \ {p} ELSE parents[x]) \in SUBSET rest
      <4>1. parents[x] \subseteq Exists /\ (p \in parents[x] => x \in Sub(p))
        BY <1>1 DEF ParentsAgree
      <4> QED
        BY <4>1
    <3> QED
      BY <1>2, <1>5, <3>1
  <2>3. toParents' \in [Exists' -> SUBSET DOMAIN sub']
    <3>1. \A x \in rest : RemoveSubTree(p, from)[x] \subseteq DOMAIN sub \ {p}
      BY <1>3, <1>7, <1>8
    <3> QED
      BY <1>2, <1>5, <3>1
  <2>4. Exists' \subseteq Property /\ Browser \in DOMAIN sub'
    BY <1>1, <1>5
  <2> QED
    BY <2>1, <2>2, <2>3, <2>4 DEF Typed
<1>10. ParentsAgree'
  <2> SUFFICES ASSUME NEW x \in rest PROVE parents'[x] = {q \in rest : x \in Sub(q)'}
    BY <1>5 DEF ParentsAgree
  <2>1. parents'[x] = parents[x] \ {p}
    BY <1>1, <1>2 DEF ParentsAgree
  <2>2. \A q \in rest : x \in Sub(q)' <=> x \in Sub(q)
    BY <1>1, <1>6
  <2> QED
    BY <1>1, <2>1, <2>2 DEF ParentsAgree
<1>11. \A x \in K :
          /\ x \in DOMAIN sub' /\ ToSet(sub'[x]) = Cut(p, from, x)
          /\ sub'[x] = IF x \in from THEN Without(sub[x], p) ELSE sub[x]
  <2> SUFFICES ASSUME NEW x \in K
               PROVE  /\ x \in DOMAIN sub' /\ ToSet(sub'[x]) = Cut(p, from, x)
                      /\ sub'[x] = IF x \in from THEN Without(sub[x], p) ELSE sub[x]
    OBVIOUS
  <2>1. x \in DOMAIN sub \ {p} /\ x \in Below(Browser)
    BY <1>3, <1>7
  <2>2. Sub(x)' = Cut(p, from, x)
    BY <1>4, <1>6, <2>1 DEF Cut
  <2> QED
    BY <1>4, <1>5, <1>6, <2>1, <2>2 DEF Sub
<1>12. /\ Exists' \subseteq Exists /\ DOMAIN sub' \subseteq DOMAIN sub
       /\ \A x \in DOMAIN sub' : ToSet(sub'[x]) \subseteq Sub(x)
       /\ \A x \in Exists' : toParents'[x] = RemoveSubTree(p, from)[x]
  BY <1>2, <1>5, <1>6 DEF Sub
<1>13. /\ Acyclic' /\ ParentsShown' /\ ItemsArePaths'
       /\ SameOrder => SameOrder'
  BY <1>1, <1>2, <1>4, <1>9, <1>11, <1>12, RemoveShown
<1> QED
  BY <1>9, <1>10, <1>13 DEF IInv

-----------------------------------------------------------------------------
(* The invariants.                                                         *)

LEMMA InitInv == Init => IInv /\ SameOrder
<1> SUFFICES ASSUME Init PROVE IInv /\ SameOrder
  OBVIOUS
<1>1. /\ sub = [b \in {Browser} |-> <<>>] /\ parents = [p \in {} |-> {}]
      /\ toParents = [p \in {} |-> {}] /\ children = [i \in {<<Browser>>} |-> <<>>]
  BY DEF Init
<1>2. /\ DOMAIN sub = {Browser} /\ Exists = {} /\ sub[Browser] = <<>>
      /\ Sub(Browser) = {} /\ Item = {<<Browser>>} /\ children[<<Browser>>] = <<>>
  BY <1>1 DEF Exists, Item, Sub, ToSet
<1>3. Typed
  <2>1. <<>> \in Seq(Exists) /\ Simple(<<>>)
    BY DEF Simple
  <2> QED
    BY <1>1, <1>2, <2>1 DEF Typed
<1>4. Acyclic /\ ParentsAgree /\ ParentsShown
  BY <1>2 DEF Acyclic, ParentsAgree, ParentsShown
<1>5. ItemsArePaths
  <2> DEFINE i == <<Browser>>
  <2>1. /\ i \in Seq(DOMAIN sub) /\ i # <<>> /\ i[1] = Browser /\ Len(i) = 1
    BY <1>2
  <2>2. IsPath(i) /\ SubSeq(i, 1, 1) = i
    <3> HIDE DEF i
    <3>1. \A k \in 1 .. Len(i) - 1 : FALSE
      BY <2>1
    <3>2. IsPath(i)
      BY <3>1 DEF IsPath
    <3> DEFINE h == SubSeq(i, 1, 1)
    <3>3. 1 \in 1 .. Len(i)
      BY <2>1
    <3>4. h \in Seq(DOMAIN sub) /\ Len(h) = 1 /\ \A k \in 1 .. 1 : h[k] = i[k]
      BY <2>1, <3>3, PrefixElements
    <3> HIDE DEF h
    <3>5. h = i
      BY <2>1, <3>4
    <3> QED
      BY <3>2, <3>5 DEF h
  <2>3. <<>> \in Seq(Exists) /\ Simple(<<>>)
    BY DEF Simple
  <2>4. i \in Item /\ children[i] = <<>>
    BY <1>2
  <2>5. \A j \in Item : j = i
    BY <1>2
  <2>6. <<Browser>> \in Item
    BY <1>2
  <2> HIDE DEF i
  <2>7. ASSUME NEW k \in 1 .. Len(i) PROVE SubSeq(i, 1, k) \in Item
    <3>1. k = 1
      BY <2>1
    <3> QED
      BY <2>2, <2>4, <3>1
  <2>8. \A x \in Exists : x \in ToSet(children[i]) <=> Append(i, x) \in Item
    BY <1>2
  <2> QED
    BY <2>1, <2>2, <2>3, <2>4, <2>5, <2>6, <2>7, <2>8 DEF ItemsArePaths
<1>6. SameOrder
  BY <1>2 DEF SameOrder, Last
<1> QED
  BY <1>3, <1>4, <1>5, <1>6 DEF IInv

LEMMA NextInv ==
    ASSUME IInv, [Next]_vars
    PROVE  IInv' /\ (SameOrder /\ ~ForeignAfter => SameOrder')
<1>1. ASSUME NEW p \in Property, Create(p)
      PROVE  IInv' /\ (SameOrder /\ ~ForeignAfter => SameOrder')
  BY <1>1, CreateStep
<1>2. ASSUME NEW p \in Property, Destroy(p)
      PROVE  IInv' /\ (SameOrder /\ ~ForeignAfter => SameOrder')
  BY <1>2, DestroyStep
<1>3. ASSUME NEW p \in Property, removeProperty(p)
      PROVE  IInv' /\ (SameOrder /\ ~ForeignAfter => SameOrder')
  BY <1>3, removePropertyStep
<1>4. ASSUME NEW p \in Property, NEW after \in Property \cup {None}, insertProperty(p, after)
      PROVE  IInv' /\ (SameOrder /\ ~ForeignAfter => SameOrder')
  BY <1>4, insertPropertyStep
<1>5. ASSUME NEW p \in Property, NEW q \in Property, RemoveSubProperty(q, p)
      PROVE  IInv' /\ (SameOrder /\ ~ForeignAfter => SameOrder')
  BY <1>5, RemoveSubPropertyStep
<1>6. ASSUME NEW p \in Property, NEW q \in Property, NEW after \in Property \cup {None},
             InsertSubProperty(q, p, after)
      PROVE  IInv' /\ (SameOrder /\ ~ForeignAfter => SameOrder')
  BY <1>6, InsertSubPropertyStep
<1>7. ASSUME UNCHANGED vars
      PROVE  IInv' /\ (SameOrder /\ ~ForeignAfter => SameOrder')
  <2> SUFFICES ASSUME sub' = sub, parents' = parents, toParents' = toParents,
                      children' = children
               PROVE  IInv' /\ (SameOrder => SameOrder')
    BY <1>7 DEF vars
  <2>1. IInv'
    <3>1. Typed' /\ ParentsAgree'
      BY DEF IInv, Typed, ParentsAgree, Exists, Sub
    <3>2. Acyclic' /\ ParentsShown'
      <4>1. Typed /\ Acyclic /\ ParentsShown
        BY DEF IInv
      <4>2. /\ NoCycle(sub') => Acyclic'
            /\ Below(Browser)' = BelowIn(sub', Browser)
        BY <3>1, After
      <4>3. /\ NoCycle(sub) /\ Browser \in DOMAIN sub
            /\ Below(Browser) = BelowIn(sub, Browser)
        BY <4>1, SubGraph DEF Typed
      <4>4. \A x : Sub(x)' = Sub(x)
        BY DEF Sub
      <4>5. Exists' = Exists
        BY DEF Exists
      <4>6. ParentsShown'
        BY <4>1, <4>2, <4>3, <4>4, <4>5 DEF ParentsShown
      <4> QED
        BY <4>2, <4>3, <4>6
    <3>3. ItemsArePaths'
      BY DEF IInv, ItemsArePaths, IsPath, Item, Exists, Sub
    <3> QED
      BY <3>1, <3>2, <3>3 DEF IInv
  <2>2. SameOrder => SameOrder'
    BY DEF SameOrder, Item
  <2> QED
    BY <2>1, <2>2
<1> QED
  BY <1>1, <1>2, <1>3, <1>4, <1>5, <1>6, <1>7 DEF Next

\* Whatever callers insert where: no property is ever below itself, so that the
\* recursions over sub-properties end, a property and its parents agree, and no
\* list, set or item names a property that was destroyed.
THEOREM NoCycleEver == Spec => []NoCycles
<1>1. IInv => NoCycles
  <2> SUFFICES ASSUME IInv PROVE NoCycles
    OBVIOUS
  <2>1. Typed /\ Acyclic /\ ParentsAgree /\ ItemsArePaths
    BY DEF IInv
  <2>2. \A x \in DOMAIN sub : Sub(x) \subseteq Exists
    BY <2>1, SubGraph
  <2>3. ASSUME NEW i \in Item
        PROVE  ToSet(i) \subseteq DOMAIN sub /\ ToSet(children[i]) \subseteq Exists
    <3>1. i \in Seq(DOMAIN sub) /\ children[i] \in Seq(Exists)
      BY <2>1 DEF ItemsArePaths
    <3> QED
      BY <3>1, ElementsIn
  <2>4. TypeOK
    BY <2>1, <2>2, <2>3 DEF TypeOK, Typed
  <2>5. ASSUME NEW x \in Exists PROVE \A q \in Sub(x) : x \notin Below(q)
    BY <2>1 DEF Acyclic, Exists
  <2>6. ASSUME NEW x \in Exists PROVE parents[x] = {q \in Exists : x \in Sub(q)}
    BY <2>1 DEF ParentsAgree
  <2> QED
    BY <2>4, <2>5, <2>6 DEF NoCycles
<1>2. Init => IInv
  BY InitInv
<1>3. IInv /\ [Next]_vars => IInv'
  BY NextInv
<1> QED
  BY <1>1, <1>2, <1>3, PTL DEF Spec

\* The tree of items is the graph of properties unfolded from the browser, with
\* the same order everywhere, if top-level properties are inserted after
\* top-level ones.
THEOREM Mirror ==
    ASSUME ~ForeignAfter
    PROVE  Spec => []ItemsMirrorProperties
<1>1. IInv /\ SameOrder => ItemsMirrorProperties
  <2> SUFFICES ASSUME IInv, SameOrder PROVE ItemsMirrorProperties
    OBVIOUS
  <2>1. Typed /\ Acyclic /\ ItemsArePaths
    BY DEF IInv
  <2>2. ASSUME NEW i \in Item, NEW k \in DOMAIN children[i]
        PROVE  Append(i, children[i][k]) \in Item
    <3>1. /\ children[i] \in Seq(Exists)
          /\ \A x \in Exists : x \in ToSet(children[i]) <=> Append(i, x) \in Item
      BY <2>1 DEF ItemsArePaths
    <3>2. k \in 1 .. Len(children[i])
      BY <3>1
    <3>3. children[i][k] \in ToSet(children[i]) /\ children[i][k] \in Exists
      BY <3>1, <3>2, ElementsIn
    <3> QED
      BY <3>1, <3>3
  <2>3. ASSUME NEW i \in Item \ {<<Browser>>}
        PROVE  Front(i) \in Item /\ Last(i) \in Sub(Last(Front(i)))
    BY <2>1, ItemAbove
  <2>4. \A i \in Item : children[i] = sub[Last(i)]
    BY DEF SameOrder
  <2> QED
    BY <2>2, <2>3, <2>4 DEF ItemsMirrorProperties
<1>2. Init => IInv /\ SameOrder
  BY InitInv
<1>3. IInv /\ SameOrder /\ [Next]_vars => IInv' /\ SameOrder'
  BY NextInv
<1> QED
  BY <1>1, <1>2, <1>3, PTL DEF Spec

\* Under the same condition, the browser heeds the signals of exactly the
\* properties that it has items of, and knows the parents they are shown under.
THEOREM Registers ==
    ASSUME ~ForeignAfter
    PROVE  Spec => []RegistersWhatItShows
<1>1. IInv /\ SameOrder => RegistersWhatItShows
  <2> SUFFICES ASSUME IInv, SameOrder, NEW p \in Exists
               PROVE  toParents[p] = {Last(Front(i)) : i \in Items(p)}
    BY DEF RegistersWhatItShows
  <2>1. Typed /\ Acyclic /\ ItemsArePaths /\ ParentsShown
    BY DEF IInv
  <2>2. /\ toParents[p] = {q \in Below(Browser) : p \in Sub(q)}
        /\ p # Browser /\ p \in DOMAIN sub
    BY <2>1 DEF ParentsShown, Exists
  <2>3. ASSUME NEW i \in Items(p)
        PROVE  Last(Front(i)) \in Below(Browser) /\ p \in Sub(Last(Front(i)))
    <3>1. i \in Item /\ Last(i) = p
      BY DEF Items
    <3>2. i # <<Browser>>
      BY <2>2, <3>1 DEF Last
    <3>3. Front(i) \in Item /\ Last(i) \in Sub(Last(Front(i)))
      BY <2>1, <3>1, <3>2, ItemAbove
    <3> QED
      BY <2>1, <3>1, <3>3, ItemElements
  \* Every property below the browser has an item.
  <2>4. \A q \in Below(Browser) : \E j \in Item : Last(j) = q
    <3> DEFINE C == {Last(j) : j \in Item}
    <3>1. C \subseteq DOMAIN sub /\ Browser \in C
      <4>1. \A j \in Item : Last(j) \in Below(Browser)
        BY <2>1, ItemElements
      <4>2. Below(Browser) \subseteq DOMAIN sub
        BY <2>1, SubGraph DEF Typed
      <4>3. <<Browser>> \in Item /\ Last(<<Browser>>) = Browser
        BY <2>1 DEF ItemsArePaths, Last
      <4> QED
        BY <4>1, <4>2, <4>3
    <3>2. ASSUME NEW j \in Item, NEW x \in Sub(Last(j)) PROVE x \in C
      <4>1. x \in Exists /\ x \in DOMAIN sub
        BY <2>1, <3>1, SubGraph DEF Exists
      <4>2. Append(j, x) \in Item /\ j \in Seq(DOMAIN sub)
        BY <2>1, <4>1 DEF SameOrder, ItemsArePaths, Sub
      <4>3. Last(Append(j, x)) = x
        BY <4>1, <4>2, AppendElements
      <4> QED
        BY <4>2, <4>3
    <3>3. ClosedIn(sub, C)
      BY <3>2 DEF ClosedIn, Sub
    <3> HIDE DEF C
    <3>4. BelowIn(sub, Browser) \subseteq C
      BY <3>1, <3>3, BelowLeast
    <3>5. Below(Browser) \subseteq C
      BY <2>1, <3>4, SubGraph DEF Typed
    <3> QED
      BY <3>5 DEF C
  <2>5. ASSUME NEW q \in Below(Browser), p \in Sub(q)
        PROVE  \E i \in Items(p) : Last(Front(i)) = q
    <3>1. PICK j \in Item : Last(j) = q
      BY <2>4
    <3>2. Append(j, p) \in Item /\ j \in Seq(DOMAIN sub)
      BY <2>1, <2>5, <3>1 DEF SameOrder, ItemsArePaths, Sub
    <3>3. Last(Append(j, p)) = p /\ Front(Append(j, p)) = j
      BY <2>2, <3>2, AppendElements
    <3> QED
      BY <3>1, <3>2, <3>3 DEF Items
  <2> QED
    BY <2>2, <2>3, <2>5
<1>2. Init => IInv /\ SameOrder
  BY InitInv
<1>3. IInv /\ SameOrder /\ [Next]_vars => IInv' /\ SameOrder'
  BY NextInv
<1> QED
  BY <1>1, <1>2, <1>3, PTL DEF Spec
=============================================================================

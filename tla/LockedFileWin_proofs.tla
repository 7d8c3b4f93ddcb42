------------------------ MODULE LockedFileWin_proofs -------------------------
(***************************************************************************)
(* What LockedFileWin guarantees for any number of objects and of reader   *)
(* mutexes.  That the mutexes follow the mode needs no assumption; that    *)
(* they exclude, that OpenMutex() finds every mutex that exists.           *)
(***************************************************************************)
EXTENDS LockedFileWin, TLAPS

\* What o owns by its mode and by where it is in lock().
HoldsW(o) ==
    \/ mode[o] = "WriteLock"
    \/ pc[o] \in {"open", "try", "create", "leave", "collect", "waitAll"}
HoldsReader(o, i) ==
    \/ rmutex[o] = i /\ (mode[o] = "ReadLock" \/ pc[o] = "leave")
    \/ mode[o] = "WriteLock" /\ i \in rmutexes[o]

OwnerInv ==
    \A o \in Objects :
        /\ owner[W] = o <=> HoldsW(o)
        /\ \A i \in ReaderMutexes : owner[i] = o <=> HoldsReader(o, i)

\* The handles of an object, by its mode and by where it is in lock().
HandleInv ==
    \A o \in Objects :
        /\ pc[o] # "idle" => mode[o] = "NoLock"
        /\ mode[o] = "ReadLock" => rmutex[o] # None
        /\ rmutex[o] # None => mode[o] = "ReadLock" \/ pc[o] \in {"try", "leave"}
        /\ pc[o] = "try" => rmutex[o] = idx[o]
        /\ rmutexes[o] # {} => mode[o] = "WriteLock" \/ pc[o] \in {"collect", "waitAll"}

\* What a call is for, and where its loop starts.
CallInv ==
    \A o \in Objects :
        /\ pc[o] \in {"open", "try", "create", "leave"} => want[o] = "ReadLock"
        /\ pc[o] \in {"collect", "waitAll"} => want[o] = "WriteLock"
        /\ pc[o] \in {"idle", "waitW"} => idx[o] = 0
        /\ pc[o] = "waitW" => want[o] # "NoLock"

\* The inductive invariant.
IInv == TypeOK /\ OwnerInv /\ HandleInv /\ CallInv

\* If OpenMutex() does not fail: a writer that has W has handles of the
\* mutexes of all readers, from the first one to the one it looks for next.
ReadersSeen ==
    \A o, q \in Objects :
        pc[o] \in {"collect", "waitAll"} /\ mode[q] = "ReadLock" =>
            rmutex[q] \in rmutexes[o] \/ (pc[o] = "collect" /\ rmutex[q] >= idx[o])

\* If CreateMutex() does not fail either: a reader gets the mutex it creates.
ReaderFindsFree ==
    \A o \in Objects :
        /\ pc[o] = "create" => Free(idx[o])
        /\ pc[o] = "leave" => rmutex[o] # None \/ idx[o] = MaxReaders

-----------------------------------------------------------------------------
\* The numbers of the mutexes.
LEMMA Numbers ==
    /\ W \notin ReaderMutexes /\ None \notin ReaderMutexes
    /\ 0 \in ReaderMutexes /\ 0 \in 0 .. MaxReaders
    /\ ReaderMutexes \subseteq 0 .. MaxReaders /\ 0 .. MaxReaders \subseteq Int
    /\ \A i \in ReaderMutexes : /\ i + 1 \in 0 .. MaxReaders
                                /\ i + 1 # MaxReaders => i + 1 \in ReaderMutexes
    /\ \A o \in Objects : o # "none"
BY ConstantsAssumption DEF W, None, ReaderMutexes

\* What releasing and taking do to the owners.
LEMMA ReleasedOwner ==
    ASSUME TypeOK, NEW o \in Objects, NEW X, owner' = Released(o, X)
    PROVE  /\ owner' \in [ReaderMutexes \cup {W} -> Objects \cup {"none"}]
           /\ \A x \in ReaderMutexes \cup {W} :
                 owner'[x] = IF x \in X /\ owner[x] = o THEN "none" ELSE owner[x]
BY DEF TypeOK, Released, Owned

LEMMA TakenOwner ==
    ASSUME TypeOK, NEW o \in Objects, NEW X, owner' = Taken(o, X)
    PROVE  /\ owner' \in [ReaderMutexes \cup {W} -> Objects \cup {"none"}]
           /\ \A x \in ReaderMutexes \cup {W} : owner'[x] = IF x \in X THEN o ELSE owner[x]
BY DEF TypeOK, Taken

\* What unlock() does: nothing of the mutexes or the lock is left to o.
LEMMA UnlockEffect ==
    ASSUME IInv, NEW o \in Objects, NEW m, Unlock(o, m),
           (mode[o] = m /\ m # "NoLock") \/ (m = "WriteLock" /\ pc[o] = "waitAll")
    PROVE  /\ owner' \in [ReaderMutexes \cup {W} -> Objects \cup {"none"}]
           /\ \A x \in ReaderMutexes \cup {W} :
                 owner'[x] = IF owner[x] = o THEN "none" ELSE owner[x]
           /\ mode' = [mode EXCEPT ![o] = "NoLock"]
           /\ rmutex' = [rmutex EXCEPT ![o] = None]
           /\ rmutexes' = [rmutexes EXCEPT ![o] = {}]
<1> USE DEF IInv
<1>1. PICK X : /\ owner' = Released(o, X)
               /\ X = IF m = "ReadLock" THEN {rmutex[o]} ELSE rmutexes[o] \cup {W}
  BY DEF Unlock
<1>2. /\ owner' \in [ReaderMutexes \cup {W} -> Objects \cup {"none"}]
      /\ \A x \in ReaderMutexes \cup {W} :
            owner'[x] = IF x \in X /\ owner[x] = o THEN "none" ELSE owner[x]
  <2>1. TypeOK /\ owner' = Released(o, X)
    BY <1>1
  <2> HIDE DEF IInv
  <2> QED
    BY <2>1, ReleasedOwner, Zenon
<1>3. mode[o] \in LockMode /\ m \in {"ReadLock", "WriteLock"}
  BY DEF TypeOK, LockMode
<1>4. \A x \in ReaderMutexes \cup {W} : owner[x] = o => x \in X
  <2>1. CASE m = "ReadLock"
    BY <1>1, <2>1 DEF OwnerInv, HoldsW, HoldsReader, HandleInv
  <2>2. CASE m = "WriteLock"
    BY <1>1, <2>2, Numbers DEF OwnerInv, HoldsW, HoldsReader, HandleInv
  <2> QED
    BY <1>3, <2>1, <2>2
<1>5. mode' = [mode EXCEPT ![o] = "NoLock"]
  BY DEF Unlock
<1>6. rmutex' = [rmutex EXCEPT ![o] = None]
  <2>1. m = "WriteLock" => rmutex[o] = None
    BY <1>3 DEF HandleInv
  <2> QED
    BY <1>3, <2>1 DEF Unlock, TypeOK
<1>7. rmutexes' = [rmutexes EXCEPT ![o] = {}]
  <2>1. m = "ReadLock" => rmutexes[o] = {}
    BY <1>3 DEF HandleInv
  <2> QED
    BY <1>3, <2>1 DEF Unlock, TypeOK
<1> QED
  BY <1>2, <1>4, <1>5, <1>6, <1>7

-----------------------------------------------------------------------------
LEMMA IInvInit == Init => IInv
<1> SUFFICES ASSUME Init PROVE IInv
  OBVIOUS
<1> USE Numbers DEF Init
<1>1. TypeOK
  BY DEF TypeOK, LockMode, PC
<1>2. OwnerInv /\ HandleInv /\ CallInv
  BY DEF OwnerInv, HoldsW, HoldsReader, HandleInv, CallInv
<1> QED
  BY <1>1, <1>2 DEF IInv

\* A step of o: the others keep where they are and what they own.
OthersKeep(o) ==
    \A q \in Objects \ {o} :
        /\ pc'[q] = pc[q] /\ mode'[q] = mode[q] /\ rmutex'[q] = rmutex[q]
        /\ rmutexes'[q] = rmutexes[q] /\ want'[q] = want[q] /\ idx'[q] = idx[q]
        /\ \A x \in ReaderMutexes \cup {W} : owner'[x] = q <=> owner[x] = q

\* So that it is the invariant of o alone that a step has to keep.
LEMMA OwnStep ==
    ASSUME IInv, NEW o \in Objects, OthersKeep(o), TypeOK',
           owner'[W] = o <=> HoldsW(o)',
           \A i \in ReaderMutexes : owner'[i] = o <=> HoldsReader(o, i)',
           /\ pc'[o] # "idle" => mode'[o] = "NoLock"
           /\ mode'[o] = "ReadLock" => rmutex'[o] # None
           /\ rmutex'[o] # None => mode'[o] = "ReadLock" \/ pc'[o] \in {"try", "leave"}
           /\ pc'[o] = "try" => rmutex'[o] = idx'[o]
           /\ rmutexes'[o] # {} => mode'[o] = "WriteLock" \/ pc'[o] \in {"collect", "waitAll"},
           /\ pc'[o] \in {"open", "try", "create", "leave"} => want'[o] = "ReadLock"
           /\ pc'[o] \in {"collect", "waitAll"} => want'[o] = "WriteLock"
           /\ pc'[o] \in {"idle", "waitW"} => idx'[o] = 0
           /\ pc'[o] = "waitW" => want'[o] # "NoLock"
    PROVE  IInv'
<1> USE DEF IInv, OthersKeep
<1>1. OwnerInv'
  BY DEF OwnerInv, HoldsW, HoldsReader
<1>2. HandleInv'
  BY DEF HandleInv
<1>3. CallInv'
  BY DEF CallInv
<1> QED
  BY <1>1, <1>2, <1>3

\* An object loses all it owns and is in no call, or starts one.
LEMMA LoseAll ==
    ASSUME IInv, NEW o \in Objects,
           owner' \in [ReaderMutexes \cup {W} -> Objects \cup {"none"}],
           \A x \in ReaderMutexes \cup {W} :
               owner'[x] = IF owner[x] = o THEN "none" ELSE owner[x],
           mode' = [mode EXCEPT ![o] = "NoLock"],
           rmutex' = [rmutex EXCEPT ![o] = None],
           rmutexes' = [rmutexes EXCEPT ![o] = {}],
           NEW l \in {"idle", "waitW"}, pc' = [pc EXCEPT ![o] = l],
           idx' = [idx EXCEPT ![o] = 0],
           \A q \in Objects \ {o} : want'[q] = want[q],
           l = "waitW" => want'[o] # "NoLock",
           want' \in [Objects -> LockMode], block' \in [Objects -> BOOLEAN],
           isOpen' \in [Objects -> BOOLEAN], wmutex' \in [Objects -> BOOLEAN]
    PROVE  IInv'
<1> USE Numbers
<1>1. TypeOK'
  BY DEF IInv, TypeOK, LockMode, PC
<1>2. OthersKeep(o)
  BY DEF IInv, TypeOK, OthersKeep
<1>3. /\ pc'[o] \in {"idle", "waitW"} /\ mode'[o] = "NoLock" /\ rmutex'[o] = None
      /\ rmutexes'[o] = {} /\ idx'[o] = 0 /\ pc'[o] = l
      /\ \A x \in ReaderMutexes \cup {W} : owner'[x] # o
  BY DEF IInv, TypeOK
<1> QED
  BY <1>1, <1>2, <1>3, OwnStep DEF HoldsW, HoldsReader

\* An object outside a call, or before its first wait, without a lock.
LEMMA OwnsNothing ==
    ASSUME IInv, NEW o \in Objects, pc[o] \in {"idle", "waitW"}, mode[o] = "NoLock"
    PROVE  /\ \A x \in ReaderMutexes \cup {W} : owner[x] # o
           /\ rmutex[o] = None /\ rmutexes[o] = {}
BY DEF IInv, OwnerInv, HoldsW, HoldsReader, HandleInv

-----------------------------------------------------------------------------
\* What begins or ends a call, or happens outside one.
LEMMA OutsideStep ==
    ASSUME IInv, NEW o \in Objects,
           \/ Open(o) \/ Close(o) \/ unlock(o) \/ Destroy(o) \/ Crash(o)
           \/ \E m \in {"ReadLock", "WriteLock"}, b \in BOOLEAN : lock(o, m, b)
           \/ WaitWTimeout(o) \/ WriterTimeout(o)
    PROVE  IInv'
<1> USE Numbers
<1>0. TypeOK /\ CallInv /\ HandleInv
  BY DEF IInv
<1>1. ASSUME UNCHANGED <<mode, rmutex, rmutexes, owner, pc, want, idx>>,
             isOpen' \in [Objects -> BOOLEAN], wmutex' \in [Objects -> BOOLEAN],
             block' \in [Objects -> BOOLEAN]
      PROVE  IInv'
  BY <1>1 DEF IInv, TypeOK, OwnerInv, HoldsW, HoldsReader, HandleInv, CallInv
<1>2. CASE Open(o) \/ Close(o)
  BY <1>0, <1>1, <1>2 DEF Open, Close, call, TypeOK
<1>3. ASSUME pc[o] = "idle", mode[o] # "NoLock", Unlock(o, mode[o]),
             NEW l \in {"idle", "waitW"}, pc' = [pc EXCEPT ![o] = l], UNCHANGED idx,
             \A q \in Objects \ {o} : want'[q] = want[q],
             l = "waitW" => want'[o] # "NoLock",
             want' \in [Objects -> LockMode], block' \in [Objects -> BOOLEAN],
             isOpen' \in [Objects -> BOOLEAN], wmutex' \in [Objects -> BOOLEAN]
      PROVE  IInv'
  <2>1. idx' = [idx EXCEPT ![o] = 0]
    BY <1>0, <1>3 DEF CallInv, TypeOK
  <2> QED
    BY <1>3, <2>1, UnlockEffect, LoseAll
<1>4. ASSUME pc[o] \in {"idle", "waitW"}, mode[o] = "NoLock",
             UNCHANGED <<mode, rmutex, rmutexes, owner>>,
             NEW l \in {"idle", "waitW"}, pc' = [pc EXCEPT ![o] = l],
             idx' = idx \/ idx' = [idx EXCEPT ![o] = 0],
             \A q \in Objects \ {o} : want'[q] = want[q],
             l = "waitW" => want'[o] # "NoLock",
             want' \in [Objects -> LockMode], block' \in [Objects -> BOOLEAN],
             isOpen' \in [Objects -> BOOLEAN], wmutex' \in [Objects -> BOOLEAN]
      PROVE  IInv'
  <2>1. /\ idx' = [idx EXCEPT ![o] = 0]
        /\ mode' = [mode EXCEPT ![o] = "NoLock"]
    BY <1>0, <1>4 DEF CallInv, TypeOK
  <2>2. rmutex' = [rmutex EXCEPT ![o] = None] /\ rmutexes' = [rmutexes EXCEPT ![o] = {}]
    BY <1>0, <1>4, OwnsNothing DEF TypeOK
  <2>3. /\ owner' \in [ReaderMutexes \cup {W} -> Objects \cup {"none"}]
        /\ \A x \in ReaderMutexes \cup {W} :
              owner'[x] = IF owner[x] = o THEN "none" ELSE owner[x]
    BY <1>0, <1>4, OwnsNothing DEF TypeOK
  <2> QED
    BY <1>4, <2>1, <2>2, <2>3, LoseAll
<1>5. CASE unlock(o)
  <2>1. pc' = [pc EXCEPT ![o] = "idle"]
    BY <1>0, <1>5 DEF unlock, call, TypeOK
  <2> QED
    BY <1>0, <1>3, <1>5, <2>1 DEF unlock, call, TypeOK
<1>6. CASE Destroy(o)
  <2>1. pc' = [pc EXCEPT ![o] = "idle"] /\ UNCHANGED idx /\ pc[o] = "idle"
    BY <1>0, <1>6 DEF Destroy, call, TypeOK
  <2>2. /\ isOpen' \in [Objects -> BOOLEAN] /\ wmutex' \in [Objects -> BOOLEAN]
        /\ want' \in [Objects -> LockMode] /\ block' \in [Objects -> BOOLEAN]
        /\ \A q \in Objects \ {o} : want'[q] = want[q]
    BY <1>0, <1>6 DEF Destroy, call, TypeOK
  <2>3. CASE isOpen[o] /\ mode[o] # "NoLock"
    BY <1>3, <1>6, <2>1, <2>2, <2>3 DEF Destroy
  <2>4. CASE ~(isOpen[o] /\ mode[o] # "NoLock")
    BY <1>0, <1>1, <1>6, <2>2, <2>4 DEF Destroy, call
  <2> QED
    BY <2>3, <2>4
<1>7. CASE Crash(o)
  <2>1. /\ owner' \in [ReaderMutexes \cup {W} -> Objects \cup {"none"}]
        /\ \A x \in ReaderMutexes \cup {W} :
              owner'[x] = IF owner[x] = o THEN "none" ELSE owner[x]
    BY <1>0, <1>7, ReleasedOwner DEF Crash, TypeOK
  <2>2. want' \in [Objects -> LockMode] /\ \A q \in Objects \ {o} : want'[q] = want[q]
    BY <1>0, <1>7 DEF Crash, Return, TypeOK, LockMode
  <2>3. /\ isOpen' \in [Objects -> BOOLEAN] /\ wmutex' \in [Objects -> BOOLEAN]
        /\ block' \in [Objects -> BOOLEAN]
    BY <1>0, <1>7 DEF Crash, Return, TypeOK
  <2> QED
    BY <1>7, <2>1, <2>2, <2>3, LoseAll DEF Crash, Return, Goto
<1>8. ASSUME NEW m \in {"ReadLock", "WriteLock"}, NEW b \in BOOLEAN, lock(o, m, b)
      PROVE  IInv'
  <2>1. PICK l \in {"idle", "waitW"} : /\ pc' = [pc EXCEPT ![o] = l]
                                       /\ l = "waitW" => want'[o] # "NoLock"
    <3>1. pc = [pc EXCEPT ![o] = "idle"]
      BY <1>0, <1>8 DEF lock, TypeOK
    <3> QED
      BY <1>0, <1>8, <3>1 DEF lock, Goto, TypeOK
  <2>2. want' \in [Objects -> LockMode] /\ \A q \in Objects \ {o} : want'[q] = want[q]
    BY <1>0, <1>8 DEF lock, TypeOK, LockMode
  <2>3. /\ isOpen' \in [Objects -> BOOLEAN] /\ wmutex' \in [Objects -> BOOLEAN]
        /\ block' \in [Objects -> BOOLEAN]
    BY <1>0, <1>8 DEF lock, TypeOK
  <2>4. pc[o] = "idle" /\ UNCHANGED idx
    BY <1>8 DEF lock
  <2>5. CASE mode[o] # "NoLock"
    BY <1>3, <1>8, <2>1, <2>2, <2>3, <2>4, <2>5 DEF lock
  <2>6. CASE mode[o] = "NoLock"
    BY <1>4, <1>8, <2>1, <2>2, <2>3, <2>4, <2>6 DEF lock
  <2> QED
    BY <2>5, <2>6
<1>9. CASE WaitWTimeout(o)
  <2>1. want' \in [Objects -> LockMode] /\ \A q \in Objects \ {o} : want'[q] = want[q]
    BY <1>0, <1>9 DEF WaitWTimeout, Return, TypeOK, LockMode
  <2>2. block' \in [Objects -> BOOLEAN] /\ isOpen' \in [Objects -> BOOLEAN]
        /\ wmutex' \in [Objects -> BOOLEAN] /\ mode[o] = "NoLock"
    BY <1>0, <1>9 DEF WaitWTimeout, Return, TypeOK, HandleInv
  <2> QED
    BY <1>4, <1>9, <2>1, <2>2 DEF WaitWTimeout, Return, Goto
<1>10. CASE WriterTimeout(o)
  <2>1. want' \in [Objects -> LockMode] /\ \A q \in Objects \ {o} : want'[q] = want[q]
    BY <1>0, <1>10 DEF WriterTimeout, Return, TypeOK, LockMode
  <2>2. block' \in [Objects -> BOOLEAN] /\ isOpen' \in [Objects -> BOOLEAN]
        /\ wmutex' \in [Objects -> BOOLEAN]
    BY <1>0, <1>10 DEF WriterTimeout, Return, TypeOK
  <2> QED
    BY <1>10, <2>1, <2>2, UnlockEffect, LoseAll DEF WriterTimeout, Return, Goto
<1> QED
  BY <1>2, <1>5, <1>6, <1>7, <1>8, <1>9, <1>10

\* A step of o that leaves it in its call, with W and without a lock.
LEMMA InCall ==
    ASSUME IInv, NEW o \in Objects, OthersKeep(o), TypeOK',
           mode'[o] = "NoLock", owner'[W] = o,
           NEW l \in {"open", "try", "create", "leave", "collect", "waitAll"}, pc'[o] = l,
           \A i \in ReaderMutexes : owner'[i] = o <=> l = "leave" /\ rmutex'[o] = i,
           rmutex'[o] # None => l \in {"try", "leave"},
           l = "try" => rmutex'[o] = idx'[o],
           rmutexes'[o] # {} => l \in {"collect", "waitAll"},
           want'[o] = IF l \in {"collect", "waitAll"} THEN "WriteLock" ELSE "ReadLock"
    PROVE  IInv'
<1>1. HoldsW(o)' /\ \A i \in ReaderMutexes : owner'[i] = o <=> HoldsReader(o, i)'
  BY DEF HoldsW, HoldsReader
<1>2. /\ pc'[o] # "idle" => mode'[o] = "NoLock"
      /\ mode'[o] = "ReadLock" => rmutex'[o] # None
      /\ rmutex'[o] # None => mode'[o] = "ReadLock" \/ pc'[o] \in {"try", "leave"}
      /\ pc'[o] = "try" => rmutex'[o] = idx'[o]
      /\ rmutexes'[o] # {} => mode'[o] = "WriteLock" \/ pc'[o] \in {"collect", "waitAll"}
  OBVIOUS
<1>3. /\ pc'[o] \in {"open", "try", "create", "leave"} => want'[o] = "ReadLock"
      /\ pc'[o] \in {"collect", "waitAll"} => want'[o] = "WriteLock"
      /\ pc'[o] \in {"idle", "waitW"} => idx'[o] = 0
      /\ pc'[o] = "waitW" => want'[o] # "NoLock"
  OBVIOUS
<1> QED
  BY <1>1, <1>2, <1>3, OwnStep

\* The same for a reader, at a label l of its part of lock().
LEMMA InReaderCall ==
    ASSUME IInv, NEW o \in Objects, OthersKeep(o), TypeOK',
           mode'[o] = "NoLock", owner'[W] = o, want'[o] = "ReadLock", rmutexes'[o] = {},
           NEW l \in {"open", "try", "create", "leave"}, pc'[o] = l,
           \A i \in ReaderMutexes : owner'[i] = o <=> l = "leave" /\ rmutex'[o] = i,
           rmutex'[o] # None => l \in {"try", "leave"},
           l = "try" => rmutex'[o] = idx'[o]
    PROVE  IInv'
<1>1. l \in {"open", "try", "create", "leave", "collect", "waitAll"}
  OBVIOUS
<1>2. want'[o] = IF l \in {"collect", "waitAll"} THEN "WriteLock" ELSE "ReadLock"
  OBVIOUS
<1>3. rmutexes'[o] # {} => l \in {"collect", "waitAll"}
  OBVIOUS
<1> QED
  BY <1>1, <1>2, <1>3, InCall

\* What o has at each step of a call.
LEMMA CallHas ==
    ASSUME IInv, NEW o \in Objects, pc[o] # "idle"
    PROVE  /\ mode[o] = "NoLock"
           /\ pc[o] # "waitW" => owner[W] = o
           /\ pc[o] \in {"open", "try", "create", "leave"} =>
                  want[o] = "ReadLock" /\ rmutexes[o] = {}
           /\ pc[o] \in {"collect", "waitAll"} => want[o] = "WriteLock" /\ rmutex[o] = None
           /\ pc[o] \in {"open", "create", "waitW"} => rmutex[o] = None
           /\ pc[o] = "waitW" => rmutexes[o] = {} /\ idx[o] = 0
           /\ \A i \in ReaderMutexes : owner[i] = o <=> pc[o] = "leave" /\ rmutex[o] = i
<1> USE DEF IInv, TypeOK, PC
<1>1. mode[o] = "NoLock"
  BY DEF HandleInv
<1>2. /\ pc[o] # "waitW" => owner[W] = o
      /\ \A i \in ReaderMutexes : owner[i] = o <=> pc[o] = "leave" /\ rmutex[o] = i
  BY <1>1 DEF OwnerInv, HoldsW, HoldsReader
<1> QED
  BY <1>1, <1>2 DEF HandleInv, CallInv

\* The steps of a call that do not end it.
LEMMA CallStep ==
    ASSUME IInv, NEW o \in Objects,
           \/ WaitW(o) \/ ReaderOpen(o) \/ ReaderTry(o) \/ ReaderCreate(o) \/ WriterCollect(o)
    PROVE  IInv'
<1> USE Numbers
<1>0. TypeOK
  BY DEF IInv
<1>1. CASE WaitW(o)
  <2>1. /\ owner' \in [ReaderMutexes \cup {W} -> Objects \cup {"none"}]
        /\ \A x \in ReaderMutexes \cup {W} :
              owner'[x] = IF x \in {W} THEN o ELSE owner[x]
    BY <1>0, <1>1, TakenOwner DEF WaitW
  <2>2. PICK l \in {"open", "collect"} :
             /\ pc' = [pc EXCEPT ![o] = l]
             /\ want[o] = IF l = "collect" THEN "WriteLock" ELSE "ReadLock"
    BY <1>0, <1>1 DEF WaitW, Goto, TypeOK, LockMode, IInv, CallInv
  <2>3. /\ mode[o] = "NoLock" /\ idx[o] = 0 /\ rmutex[o] = None /\ rmutexes[o] = {}
        /\ \A i \in ReaderMutexes : owner[i] # o
    BY <1>1, CallHas DEF WaitW
  <2>4. TypeOK'
    BY <1>0, <1>1, <2>1, <2>2, <2>3 DEF WaitW, TypeOK, PC
  <2>5. OthersKeep(o)
    BY <1>0, <1>1, <2>1, <2>2 DEF WaitW, TypeOK, OthersKeep, Free
  <2>6. pc'[o] = l /\ owner'[W] = o /\ \A i \in ReaderMutexes : owner'[i] # o
    BY <1>0, <2>1, <2>2, <2>3 DEF TypeOK
  <2>7. /\ mode'[o] = "NoLock" /\ rmutex'[o] = None /\ rmutexes'[o] = {}
        /\ want'[o] = want[o]
    BY <1>1, <2>3 DEF WaitW
  <2>8. want'[o] = IF l \in {"collect", "waitAll"} THEN "WriteLock" ELSE "ReadLock"
    BY <2>2, <2>7
  <2>9. \A i \in ReaderMutexes : owner'[i] = o <=> l = "leave" /\ rmutex'[o] = i
    BY <2>2, <2>6
  <2>10. l \in {"open", "try", "create", "leave", "collect", "waitAll"} /\ l # "try"
    BY <2>2
  <2> QED
    BY <2>4, <2>5, <2>6, <2>7, <2>8, <2>9, <2>10, InCall
<1>2. CASE ReaderOpen(o)
  <2>1. /\ pc[o] = "open" /\ owner[W] = o /\ want[o] = "ReadLock" /\ rmutexes[o] = {}
        /\ mode[o] = "NoLock" /\ rmutex[o] = None /\ idx[o] \in ReaderMutexes
        /\ \A i \in ReaderMutexes : owner[i] # o
    BY <1>0, <1>2, CallHas DEF ReaderOpen, TypeOK
  <2>2. PICK l \in {"try", "create"} :
             /\ pc' = [pc EXCEPT ![o] = l]
             /\ rmutex' = [rmutex EXCEPT ![o] = IF l = "try" THEN idx[o] ELSE None]
    BY <1>0, <1>2, <2>1 DEF ReaderOpen, Goto, TypeOK
  <2>3. TypeOK'
    BY <1>0, <1>2, <2>1, <2>2 DEF ReaderOpen, TypeOK, PC
  <2>4. OthersKeep(o)
    BY <1>0, <1>2, <2>2 DEF ReaderOpen, TypeOK, OthersKeep
  <2>5. /\ pc'[o] = l /\ rmutex'[o] = IF l = "try" THEN idx[o] ELSE None
        /\ owner' = owner /\ mode'[o] = "NoLock" /\ rmutexes'[o] = {}
        /\ want'[o] = "ReadLock" /\ idx'[o] = idx[o]
    BY <1>0, <1>2, <2>1, <2>2 DEF ReaderOpen, TypeOK
  <2>6. l \in {"open", "try", "create", "leave"} /\ owner'[W] = o
    BY <2>1, <2>5
  <2>7. /\ \A i \in ReaderMutexes : owner'[i] = o <=> l = "leave" /\ rmutex'[o] = i
        /\ rmutex'[o] # None => l \in {"try", "leave"}
        /\ l = "try" => rmutex'[o] = idx'[o]
    BY <2>1, <2>5
  <2> QED
    BY <2>3, <2>4, <2>5, <2>6, <2>7, InReaderCall
<1>3. CASE ReaderTry(o)
  <2>1. /\ pc[o] = "try" /\ owner[W] = o /\ want[o] = "ReadLock" /\ rmutexes[o] = {}
        /\ mode[o] = "NoLock" /\ rmutex[o] = idx[o] /\ idx[o] \in ReaderMutexes
        /\ \A i \in ReaderMutexes : owner[i] # o
    BY <1>0, <1>3, CallHas DEF ReaderTry, TypeOK, IInv, HandleInv
  <2>2. mode'[o] = "NoLock" /\ rmutexes'[o] = {} /\ want'[o] = "ReadLock"
    BY <1>3, <2>1 DEF ReaderTry
  <2>3. CASE Free(idx[o])
    <3>1. /\ owner' \in [ReaderMutexes \cup {W} -> Objects \cup {"none"}]
          /\ \A x \in ReaderMutexes \cup {W} :
                owner'[x] = IF x \in {idx[o]} THEN o ELSE owner[x]
      BY <1>0, <1>3, <2>3, TakenOwner DEF ReaderTry
    <3>2. pc' = [pc EXCEPT ![o] = "leave"] /\ UNCHANGED <<rmutex, idx>>
      BY <1>3, <2>3 DEF ReaderTry, Goto
    <3>3. TypeOK'
      BY <1>0, <1>3, <3>1, <3>2 DEF ReaderTry, TypeOK, PC
    <3>4. OthersKeep(o)
      BY <1>0, <1>3, <2>3, <3>1, <3>2 DEF ReaderTry, TypeOK, OthersKeep, Free
    <3>5. /\ pc'[o] = "leave" /\ owner'[W] = o /\ rmutex'[o] = idx[o]
          /\ \A i \in ReaderMutexes : owner'[i] = o <=> i = idx[o]
      BY <1>0, <2>1, <3>1, <3>2 DEF TypeOK
    <3>6. \A i \in ReaderMutexes :
              owner'[i] = o <=> "leave" = "leave" /\ rmutex'[o] = i
      BY <3>5
    <3> QED
      BY <2>2, <3>3, <3>4, <3>5, <3>6, InReaderCall
  <2>4. CASE ~Free(idx[o])
    <3>1. PICK l \in {"leave", "open"} : /\ pc' = [pc EXCEPT ![o] = l]
                                         /\ l = "open" => idx[o] + 1 # MaxReaders
      BY <1>3, <2>4 DEF ReaderTry, Goto
    <3>2. /\ rmutex' = [rmutex EXCEPT ![o] = None] /\ UNCHANGED owner
          /\ idx' = [idx EXCEPT ![o] = idx[o] + 1]
      BY <1>3, <2>4 DEF ReaderTry
    <3>3. TypeOK'
      BY <1>0, <1>3, <2>1, <3>1, <3>2 DEF ReaderTry, TypeOK, PC
    <3>4. OthersKeep(o)
      BY <1>0, <1>3, <3>1, <3>2 DEF ReaderTry, TypeOK, OthersKeep
    <3>5. pc'[o] = l /\ rmutex'[o] = None
      BY <1>0, <3>1, <3>2 DEF TypeOK
    <3>6. owner'[W] = o /\ \A i \in ReaderMutexes : owner'[i] # o /\ rmutex'[o] # i
      BY <2>1, <3>2, <3>5
    <3>7. /\ l \in {"open", "try", "create", "leave"}
          /\ \A i \in ReaderMutexes : owner'[i] = o <=> l = "leave" /\ rmutex'[o] = i
          /\ l = "try" => rmutex'[o] = idx'[o]
      BY <3>1, <3>6
    <3> QED
      BY <2>2, <3>3, <3>4, <3>5, <3>6, <3>7, InReaderCall
  <2> QED
    BY <2>3, <2>4
<1>4. CASE ReaderCreate(o)
  <2>1. /\ pc[o] = "create" /\ owner[W] = o /\ want[o] = "ReadLock" /\ rmutexes[o] = {}
        /\ mode[o] = "NoLock" /\ rmutex[o] = None /\ idx[o] \in ReaderMutexes
        /\ \A i \in ReaderMutexes : owner[i] # o
    BY <1>0, <1>4, CallHas DEF ReaderCreate, TypeOK
  <2>2. /\ mode'[o] = "NoLock" /\ rmutexes'[o] = {} /\ want'[o] = "ReadLock"
        /\ pc' = [pc EXCEPT ![o] = "leave"] /\ pc'[o] = "leave"
    BY <1>0, <1>4, <2>1 DEF ReaderCreate, Goto, TypeOK
  <2>3. CASE /\ Free(idx[o])
             /\ rmutex' = [rmutex EXCEPT ![o] = idx[o]]
             /\ owner' = Taken(o, {idx[o]})
    <3>1. /\ owner' \in [ReaderMutexes \cup {W} -> Objects \cup {"none"}]
          /\ \A x \in ReaderMutexes \cup {W} :
                owner'[x] = IF x \in {idx[o]} THEN o ELSE owner[x]
      BY <1>0, <2>3, TakenOwner
    <3>2. TypeOK'
      BY <1>0, <1>4, <2>1, <2>2, <2>3, <3>1 DEF ReaderCreate, TypeOK, PC
    <3>3. OthersKeep(o)
      BY <1>0, <1>4, <2>2, <2>3, <3>1 DEF ReaderCreate, TypeOK, OthersKeep, Free
    <3>4. /\ owner'[W] = o /\ rmutex'[o] = idx[o]
          /\ \A i \in ReaderMutexes : owner'[i] = o <=> rmutex'[o] = i
      BY <1>0, <2>1, <2>3, <3>1 DEF TypeOK
    <3>5. \A i \in ReaderMutexes :
              owner'[i] = o <=> "leave" = "leave" /\ rmutex'[o] = i
      BY <3>4
    <3> QED
      BY <2>2, <3>2, <3>3, <3>4, <3>5, InReaderCall
  <2>4. CASE UNCHANGED <<rmutex, owner>>
    <3>1. TypeOK'
      BY <1>0, <1>4, <2>2, <2>4 DEF ReaderCreate, TypeOK, PC
    <3>2. OthersKeep(o)
      BY <1>0, <1>4, <2>2, <2>4 DEF ReaderCreate, TypeOK, OthersKeep
    <3>3. /\ owner'[W] = o /\ rmutex'[o] = None
          /\ \A i \in ReaderMutexes :
                owner'[i] = o <=> "leave" = "leave" /\ rmutex'[o] = i
      BY <2>1, <2>4
    <3> QED
      BY <2>2, <3>1, <3>2, <3>3, InReaderCall
  <2> QED
    BY <1>4, <2>3, <2>4 DEF ReaderCreate
<1>5. CASE WriterCollect(o)
  <2>1. /\ pc[o] = "collect" /\ owner[W] = o /\ want[o] = "WriteLock"
        /\ mode[o] = "NoLock" /\ rmutex[o] = None /\ idx[o] \in ReaderMutexes
        /\ \A i \in ReaderMutexes : owner[i] # o
    BY <1>0, <1>5, CallHas DEF WriterCollect, TypeOK
  <2>2. /\ UNCHANGED owner /\ mode'[o] = "NoLock" /\ rmutex'[o] = None
        /\ want'[o] = "WriteLock"
    BY <1>5, <2>1 DEF WriterCollect
  <2>3. PICK S \in SUBSET ReaderMutexes : rmutexes' = [rmutexes EXCEPT ![o] = S]
    <3>1. rmutexes = [rmutexes EXCEPT ![o] = rmutexes[o]]
      BY <1>0 DEF TypeOK
    <3>2. rmutexes[o] \in SUBSET ReaderMutexes
      BY <1>0 DEF TypeOK
    <3>3. rmutexes[o] \cup {idx[o]} \in SUBSET ReaderMutexes
      BY <2>1, <3>2
    <3> QED
      BY <1>5, <3>1, <3>2, <3>3 DEF WriterCollect
  <2>4. PICK l \in {"collect", "waitAll"}, n \in 0 .. MaxReaders :
             /\ pc' = [pc EXCEPT ![o] = l] /\ idx' = [idx EXCEPT ![o] = n]
             /\ l = "collect" => n \in ReaderMutexes
    <3>1. pc = [pc EXCEPT ![o] = "collect"]
      BY <1>0, <2>1 DEF TypeOK
    <3> QED
      BY <1>5, <2>1, <3>1 DEF WriterCollect, Goto
  <2>5. TypeOK'
    BY <1>0, <1>5, <2>2, <2>3, <2>4 DEF WriterCollect, TypeOK, PC
  <2>6. OthersKeep(o)
    BY <1>0, <1>5, <2>3, <2>4 DEF WriterCollect, TypeOK, OthersKeep
  <2>7. pc'[o] = l
    BY <1>0, <2>4 DEF TypeOK
  <2>8. /\ l \in {"open", "try", "create", "leave", "collect", "waitAll"} /\ l # "try"
        /\ owner'[W] = o
        /\ \A i \in ReaderMutexes : owner'[i] = o <=> l = "leave" /\ rmutex'[o] = i
        /\ want'[o] = IF l \in {"collect", "waitAll"} THEN "WriteLock" ELSE "ReadLock"
    BY <2>1, <2>2, <2>4
  <2> QED
    BY <2>2, <2>4, <2>5, <2>6, <2>7, <2>8, InCall
<1> QED
  BY <1>1, <1>2, <1>3, <1>4, <1>5

\* The steps that end a call with the lock, or a reader's without one.
LEMMA ReturnStep ==
    ASSUME IInv, NEW o \in Objects, ReaderLeave(o) \/ WriterWaitAll(o)
    PROVE  IInv'
<1> USE Numbers
<1>0. TypeOK
  BY DEF IInv
<1>1. /\ pc' = [pc EXCEPT ![o] = "idle"] /\ pc'[o] = "idle"
      /\ idx' = [idx EXCEPT ![o] = 0] /\ idx'[o] = 0
      /\ want' = [want EXCEPT ![o] = "NoLock"]
      /\ block' = [block EXCEPT ![o] = FALSE]
      /\ UNCHANGED <<isOpen, wmutex, rmutex, rmutexes>>
  BY <1>0 DEF ReaderLeave, WriterWaitAll, Return, Goto, TypeOK
<1>2. ASSUME NEW m \in LockMode, mode' = [mode EXCEPT ![o] = m],
             owner' \in [ReaderMutexes \cup {W} -> Objects \cup {"none"}]
      PROVE  TypeOK'
  BY <1>0, <1>1, <1>2 DEF TypeOK, PC, LockMode
<1>3. CASE ReaderLeave(o)
  <2>1. /\ owner' \in [ReaderMutexes \cup {W} -> Objects \cup {"none"}]
        /\ \A x \in ReaderMutexes \cup {W} :
              owner'[x] = IF x \in {W} /\ owner[x] = o THEN "none" ELSE owner[x]
    BY <1>0, <1>3, ReleasedOwner DEF ReaderLeave
  <2>2. /\ pc[o] = "leave" /\ rmutexes[o] = {}
        /\ \A i \in ReaderMutexes : owner[i] = o <=> rmutex[o] = i
    BY <1>0, <1>3, CallHas DEF ReaderLeave
  <2>3. PICK m \in {"NoLock", "ReadLock"} : /\ mode' = [mode EXCEPT ![o] = m]
                                            /\ m = "NoLock" <=> rmutex[o] = None
    BY <1>3 DEF ReaderLeave
  <2>4. TypeOK'
    BY <1>2, <2>1, <2>3 DEF LockMode
  <2>5. OthersKeep(o)
    BY <1>0, <1>1, <2>1, <2>3 DEF TypeOK, OthersKeep
  <2>6. mode'[o] = m /\ owner'[W] # o
    BY <1>0, <2>1, <2>3 DEF TypeOK
  <2>7. /\ owner'[W] = o <=> HoldsW(o)'
        /\ \A i \in ReaderMutexes : owner'[i] = o <=> HoldsReader(o, i)'
    BY <1>1, <2>1, <2>2, <2>3, <2>6 DEF HoldsW, HoldsReader
  <2> QED
    BY <1>1, <2>2, <2>3, <2>4, <2>5, <2>6, <2>7, OwnStep
<1>4. CASE WriterWaitAll(o)
  <2>1. /\ owner' \in [ReaderMutexes \cup {W} -> Objects \cup {"none"}]
        /\ \A x \in ReaderMutexes \cup {W} :
              owner'[x] = IF x \in rmutexes[o] THEN o ELSE owner[x]
    BY <1>0, <1>4, TakenOwner DEF WriterWaitAll
  <2>2. /\ pc[o] = "waitAll" /\ rmutex[o] = None /\ owner[W] = o
        /\ \A i \in ReaderMutexes : owner[i] # o
    BY <1>0, <1>4, CallHas DEF WriterWaitAll
  <2>3. mode' = [mode EXCEPT ![o] = "WriteLock"]
    BY <1>4 DEF WriterWaitAll
  <2>4. TypeOK'
    BY <1>2, <2>1, <2>3 DEF LockMode
  <2>5. OthersKeep(o)
    BY <1>0, <1>1, <1>4, <2>1, <2>3 DEF WriterWaitAll, Free, TypeOK, OthersKeep
  <2>6. mode'[o] = "WriteLock" /\ owner'[W] = o
    BY <1>0, <2>1, <2>2, <2>3 DEF TypeOK
  <2>7. /\ owner'[W] = o <=> HoldsW(o)'
        /\ \A i \in ReaderMutexes : owner'[i] = o <=> HoldsReader(o, i)'
    BY <1>1, <2>1, <2>2, <2>6 DEF HoldsW, HoldsReader
  <2> QED
    BY <1>1, <2>2, <2>4, <2>5, <2>6, <2>7, OwnStep
<1> QED
  BY <1>3, <1>4

LEMMA IInvStep == IInv /\ [Next]_vars => IInv'
<1> SUFFICES ASSUME IInv, [Next]_vars PROVE IInv'
  OBVIOUS
<1>1. CASE Next
  <2>1. PICK o \in Objects :
             \/ Open(o) \/ Close(o) \/ unlock(o) \/ Destroy(o) \/ Crash(o)
             \/ \E m \in {"ReadLock", "WriteLock"}, b \in BOOLEAN : lock(o, m, b)
             \/ LockStep(o)
    BY <1>1 DEF Next
  <2> QED
    BY <2>1, OutsideStep, CallStep, ReturnStep DEF LockStep
<1>2. CASE UNCHANGED vars
  BY <1>2 DEF vars, IInv, TypeOK, OwnerInv, HoldsW, HoldsReader, HandleInv, CallInv
<1> QED
  BY <1>1, <1>2

LEMMA IInvAlways == Spec => []IInv
<1>1. Init => IInv
  BY IInvInit
<1>2. IInv /\ [Next]_vars => IInv'
  BY IInvStep
<1> QED
  BY <1>1, <1>2, PTL DEF Spec

(* The mutexes an object owns are those of its lock, whatever call of the  *)
(* kernel failed, timed out or found a mutex abandoned, and wherever a     *)
(* process died: nothing is left behind.                                   *)
THEOREM MutexesCorrect == Spec => []MutexesFollowMode
<1>1. IInv => MutexesFollowMode
  <2> SUFFICES ASSUME IInv PROVE MutexesFollowMode
    OBVIOUS
  <2> USE Numbers
  <2>0. TypeOK /\ OwnerInv /\ HandleInv
    BY DEF IInv
  <2>1. LockIsOwned
    <3> SUFFICES ASSUME NEW o \in Objects
                 PROVE  /\ mode[o] = "ReadLock" => rmutex[o] # None /\ owner[rmutex[o]] = o
                        /\ mode[o] = "WriteLock" =>
                               \A x \in rmutexes[o] \cup {W} : owner[x] = o
      BY DEF LockIsOwned
    <3>1. rmutexes[o] \subseteq ReaderMutexes /\ rmutex[o] \in ReaderMutexes \cup {None}
      BY <2>0 DEF TypeOK
    <3>2. mode[o] = "ReadLock" => rmutex[o] # None /\ owner[rmutex[o]] = o
      BY <2>0, <3>1 DEF HandleInv, OwnerInv, HoldsReader
    <3>3. mode[o] = "WriteLock" => \A x \in rmutexes[o] \cup {W} : owner[x] = o
      BY <2>0, <3>1 DEF OwnerInv, HoldsW, HoldsReader
    <3> QED
      BY <3>2, <3>3
  <2>2. NothingLeftBehind
    <3> SUFFICES ASSUME NEW o \in Objects, pc[o] = "idle"
                 PROVE  /\ mode[o] = "NoLock" =>
                               Owned(o) = {} /\ rmutex[o] = None /\ rmutexes[o] = {}
                        /\ mode[o] = "ReadLock" => Owned(o) = {rmutex[o]}
      BY DEF NothingLeftBehind
    <3>1. /\ DOMAIN owner = ReaderMutexes \cup {W}
          /\ rmutex[o] \in ReaderMutexes \cup {None}
      BY <2>0 DEF TypeOK
    <3>2. mode[o] = "NoLock" => Owned(o) = {} /\ rmutex[o] = None /\ rmutexes[o] = {}
      <4> SUFFICES ASSUME mode[o] = "NoLock"
                   PROVE  Owned(o) = {} /\ rmutex[o] = None /\ rmutexes[o] = {}
        OBVIOUS
      <4>1. /\ \A x \in ReaderMutexes \cup {W} : owner[x] # o
            /\ rmutex[o] = None /\ rmutexes[o] = {}
        BY OwnsNothing
      <4> QED
        BY <3>1, <4>1 DEF Owned
    <3>3. ASSUME mode[o] = "ReadLock" PROVE Owned(o) = {rmutex[o]}
      <4>1. rmutex[o] \in ReaderMutexes
        BY <2>0, <3>1, <3>3 DEF HandleInv
      <4>2. owner[W] # o /\ \A i \in ReaderMutexes : owner[i] = o <=> i = rmutex[o]
        BY <2>0, <3>3 DEF OwnerInv, HoldsW, HoldsReader
      <4> QED
        BY <3>1, <4>1, <4>2 DEF Owned
    <3> QED
      BY <3>2, <3>3
  <2> QED
    BY <2>0, <2>1, <2>2 DEF MutexesFollowMode
<1> QED
  BY <1>1, IInvAlways, PTL

-----------------------------------------------------------------------------
\* The steps that grant no lock and look for no reader.
QuietStep(p) ==
    \/ Open(p) \/ Close(p) \/ unlock(p) \/ Destroy(p) \/ Crash(p)
    \/ \E m \in {"ReadLock", "WriteLock"}, b \in BOOLEAN : lock(p, m, b)
    \/ WaitWTimeout(p) \/ ReaderOpen(p) \/ ReaderTry(p) \/ ReaderCreate(p)
    \/ WriterTimeout(p)

\* They may end a lock, but move no reader to another mutex and no writer in
\* its loop.
LEMMA QuietSteps ==
    ASSUME IInv, NEW p \in Objects, QuietStep(p)
    PROVE  /\ mode' = mode \/ mode' = [mode EXCEPT ![p] = "NoLock"]
           /\ \A q \in Objects : mode'[q] = "ReadLock" => rmutex'[q] = rmutex[q]
           /\ \A o \in Objects : pc'[o] \in {"collect", "waitAll"} =>
                 pc'[o] = pc[o] /\ rmutexes'[o] = rmutexes[o] /\ idx'[o] = idx[o]
<1>0. TypeOK
  BY DEF IInv
<1>1. CASE Open(p) \/ Close(p)
  BY <1>1 DEF Open, Close, call
<1>2. CASE unlock(p)
  BY <1>0, <1>2 DEF unlock, Unlock, TypeOK, call
<1>3. CASE Destroy(p)
  BY <1>0, <1>3 DEF Destroy, Unlock, TypeOK, call
<1>4. CASE Crash(p)
  BY <1>0, <1>4 DEF Crash, Return, Goto, TypeOK
<1>5. ASSUME NEW m \in {"ReadLock", "WriteLock"}, NEW b \in BOOLEAN, lock(p, m, b)
      PROVE  /\ mode' = mode \/ mode' = [mode EXCEPT ![p] = "NoLock"]
             /\ \A q \in Objects : mode'[q] = "ReadLock" => rmutex'[q] = rmutex[q]
             /\ \A o \in Objects : pc'[o] \in {"collect", "waitAll"} =>
                   pc'[o] = pc[o] /\ rmutexes'[o] = rmutexes[o] /\ idx'[o] = idx[o]
  BY <1>0, <1>5 DEF lock, Unlock, Goto, TypeOK
<1>6. CASE WaitWTimeout(p) \/ WriterTimeout(p)
  BY <1>0, <1>6 DEF WaitWTimeout, WriterTimeout, Unlock, Return, Goto, TypeOK
<1>7. CASE ReaderOpen(p) \/ ReaderTry(p) \/ ReaderCreate(p)
  <2>1. mode[p] = "NoLock" /\ mode' = mode
    BY <1>7, CallHas DEF ReaderOpen, ReaderTry, ReaderCreate
  <2> QED
    BY <1>0, <1>7, <2>1 DEF ReaderOpen, ReaderTry, ReaderCreate, Goto, TypeOK
<1> QED
  BY <1>1, <1>2, <1>3, <1>4, <1>5, <1>6, <1>7 DEF QuietStep

LEMMA StepKinds ==
    ASSUME Next
    PROVE  \E p \in Objects : \/ QuietStep(p) \/ WaitW(p) \/ WriterCollect(p)
                              \/ ReaderLeave(p) \/ WriterWaitAll(p)
BY DEF Next, LockStep, QuietStep

\* An owner of W keeps it from the others.
LEMMA OneOwnerOfW ==
    ASSUME IInv, NEW o \in Objects, NEW q \in Objects \ {o}, HoldsW(o)
    PROVE  owner[W] = o /\ mode[q] # "WriteLock" /\ pc[q] \in {"idle", "waitW"}
BY DEF IInv, TypeOK, PC, OwnerInv, HoldsW

\* No reader arrives while a writer has W, and the writer's loop comes past
\* the mutexes of all those that were there.
LEMMA ReadersSeenStep ==
    ASSUME ~OpenErrors, IInv, ReadersSeen, [Next]_vars
    PROVE  ReadersSeen'
<1> USE Numbers
<1>0. TypeOK
  BY DEF IInv
<1>1. ASSUME NEW p \in Objects, QuietStep(p) PROVE ReadersSeen'
  <2>1. \A q \in Objects : mode'[q] = "ReadLock" =>
            mode[q] = "ReadLock" /\ rmutex'[q] = rmutex[q]
    BY <1>0, <1>1, QuietSteps DEF TypeOK
  <2>2. \A o \in Objects : pc'[o] \in {"collect", "waitAll"} =>
            pc'[o] = pc[o] /\ rmutexes'[o] = rmutexes[o] /\ idx'[o] = idx[o]
    BY <1>1, QuietSteps
  <2> QED
    BY <2>1, <2>2 DEF ReadersSeen
<1>2. ASSUME NEW p \in Objects, WaitW(p) PROVE ReadersSeen'
  <2>1. /\ \A o \in Objects \ {p} : pc'[o] = pc[o]
        /\ pc'[p] \in {"collect", "open"} /\ idx'[p] = 0
        /\ UNCHANGED <<mode, rmutex, rmutexes, idx>>
    BY <1>0, <1>2, CallHas DEF WaitW, Goto, TypeOK
  <2>2. \A q \in Objects : mode[q] = "ReadLock" => rmutex[q] \in ReaderMutexes
    BY DEF IInv, TypeOK, HandleInv
  <2>3. \A i \in ReaderMutexes : i >= 0
    BY ConstantsAssumption DEF ReaderMutexes
  <2> QED
    BY <2>1, <2>2, <2>3 DEF ReadersSeen
<1>3. ASSUME NEW p \in Objects, WriterCollect(p) PROVE ReadersSeen'
  <2> SUFFICES ASSUME NEW o \in Objects, NEW q \in Objects,
                      pc'[o] \in {"collect", "waitAll"}, mode'[q] = "ReadLock"
               PROVE  rmutex'[q] \in rmutexes'[o] \/ (pc'[o] = "collect" /\ rmutex'[q] >= idx'[o])
    BY DEF ReadersSeen
  <2>1. UNCHANGED <<mode, rmutex>> /\ rmutex[q] \in ReaderMutexes
    BY <1>3 DEF WriterCollect, IInv, TypeOK, HandleInv
  <2>2. CASE o # p
    <3>1. pc'[o] = pc[o] /\ rmutexes'[o] = rmutexes[o] /\ idx'[o] = idx[o]
      BY <1>0, <1>3, <2>2 DEF WriterCollect, Goto, TypeOK
    <3> QED
      BY <2>1, <3>1 DEF ReadersSeen
  <2>3. CASE o = p
    <3>1. pc[p] = "collect" /\ rmutexes[p] \subseteq rmutexes'[p] /\ idx[p] \in ReaderMutexes
      BY <1>0, <1>3 DEF WriterCollect, TypeOK
    <3>2. rmutex[q] \in rmutexes[p] \/ rmutex[q] >= idx[p]
      BY <2>1, <2>3, <3>1 DEF ReadersSeen
    <3>3. CASE rmutex[q] = idx[p]
      <4>1. Exists(idx[p])
        BY <3>3 DEF Exists
      <4>2. idx[p] \in rmutexes'[p]
        BY <1>0, <1>3, <4>1 DEF WriterCollect, TypeOK
      <4> QED
        BY <2>1, <2>3, <3>3, <4>2
    <3>4. CASE rmutex[q] > idx[p]
      <4>1. rmutex[q] < MaxReaders /\ idx[p] \in Nat /\ rmutex[q] \in Nat
        BY <2>1, <3>1, ConstantsAssumption DEF ReaderMutexes
      <4>2. idx[p] + 1 # MaxReaders /\ rmutex[q] >= idx[p] + 1
        BY <3>4, <4>1, ConstantsAssumption
      <4>3. pc'[p] = "collect" /\ idx'[p] = idx[p] + 1
        BY <1>0, <1>3, <3>1, <4>2 DEF WriterCollect, TypeOK
      <4> QED
        BY <2>1, <2>3, <4>2, <4>3
    <3>5. rmutex[q] >= idx[p] => rmutex[q] = idx[p] \/ rmutex[q] > idx[p]
      BY <2>1, <3>1, ConstantsAssumption DEF ReaderMutexes
    <3> QED
      BY <2>1, <2>3, <3>1, <3>2, <3>3, <3>4, <3>5
  <2> QED
    BY <2>2, <2>3
<1>4. ASSUME NEW p \in Objects, ReaderLeave(p) \/ WriterWaitAll(p) PROVE ReadersSeen'
  <2>1. HoldsW(p) /\ pc'[p] = "idle"
    BY <1>0, <1>4 DEF ReaderLeave, WriterWaitAll, HoldsW, Return, Goto, TypeOK
  <2>2. \A o \in Objects \ {p} : pc'[o] = pc[o] /\ pc[o] \notin {"collect", "waitAll"}
    BY <1>0, <1>4, <2>1, OneOwnerOfW DEF ReaderLeave, WriterWaitAll, Return, Goto, TypeOK
  <2> QED
    BY <2>1, <2>2 DEF ReadersSeen
<1>5. CASE UNCHANGED vars
  BY <1>5 DEF vars, ReadersSeen
<1> QED
  BY <1>1, <1>2, <1>3, <1>4, <1>5, StepKinds

LEMMA ReadersSeenAlways == ASSUME ~OpenErrors PROVE Spec => [](IInv /\ ReadersSeen)
<1>1. Init => IInv /\ ReadersSeen
  BY IInvInit DEF Init, ReadersSeen
<1>2. IInv /\ ReadersSeen /\ [Next]_vars => (IInv /\ ReadersSeen)'
  BY IInvStep, ReadersSeenStep
<1> QED
  BY <1>1, <1>2, PTL DEF Spec

\* A step of the objects is a step of the abstract lock, or none.
LEMMA StepRefines ==
    ASSUME IInv, ReadersSeen, [Next]_vars PROVE [AL!Next]_mode
<1>0. TypeOK
  BY DEF IInv
<1>1. ASSUME NEW p \in Objects, QuietStep(p) PROVE [AL!Next]_mode
  <2>1. CASE mode' = [mode EXCEPT ![p] = "NoLock"]
    <3>1. AL!Release({p})
      BY <1>0, <2>1 DEF TypeOK, AL!Release
    <3> QED
      BY <3>1 DEF AL!Next
  <2> QED
    BY <1>1, <2>1, QuietSteps
<1>2. ASSUME NEW p \in Objects, ReaderLeave(p) PROVE [AL!Next]_mode
  <2>1. mode[p] = "NoLock" /\ HoldsW(p)
    BY <1>2, CallHas DEF ReaderLeave, HoldsW
  <2>2. CASE rmutex[p] = None
    BY <1>0, <1>2, <2>1, <2>2 DEF ReaderLeave, TypeOK
  <2>3. CASE rmutex[p] # None
    <3>1. \A q \in Objects \ {p} : AL!Compatible("ReadLock", mode[q])
      <4> SUFFICES ASSUME NEW q \in Objects \ {p} PROVE AL!Compatible("ReadLock", mode[q])
        OBVIOUS
      <4>1. mode[q] \in {"NoLock", "ReadLock"}
        BY <1>0, <2>1, OneOwnerOfW DEF TypeOK, LockMode
      <4> QED
        BY <4>1 DEF AL!Compatible
    <3>2. AL!Acquire(p, "ReadLock")
      BY <1>2, <2>3, <3>1 DEF ReaderLeave, AL!Acquire
    <3> QED
      BY <3>2 DEF AL!Next
  <2> QED
    BY <2>2, <2>3
<1>3. ASSUME NEW p \in Objects, WriterWaitAll(p) PROVE [AL!Next]_mode
  <2>1. HoldsW(p) /\ pc[p] = "waitAll"
    BY <1>3 DEF WriterWaitAll, HoldsW
  <2>2. \A q \in Objects \ {p} : AL!Compatible("WriteLock", mode[q])
    <3> SUFFICES ASSUME NEW q \in Objects \ {p} PROVE AL!Compatible("WriteLock", mode[q])
      OBVIOUS
    <3>1. mode[q] \in {"NoLock", "ReadLock"}
      BY <1>0, <2>1, OneOwnerOfW DEF TypeOK, LockMode
    <3>2. ASSUME mode[q] = "ReadLock" PROVE FALSE
      <4>1. rmutex[q] \in rmutexes[p] /\ rmutex[q] \in ReaderMutexes
        BY <2>1, <3>2 DEF ReadersSeen, IInv, HandleInv, TypeOK
      <4>2. owner[rmutex[q]] = q
        BY <3>2, <4>1 DEF IInv, OwnerInv, HoldsReader
      <4> QED
        BY <1>3, <4>1, <4>2, Numbers DEF WriterWaitAll, Free
    <3> QED
      BY <3>1, <3>2 DEF AL!Compatible
  <2>3. AL!Acquire(p, "WriteLock")
    BY <1>3, <2>2 DEF WriterWaitAll, AL!Acquire
  <2> QED
    BY <2>3 DEF AL!Next
<1>4. ASSUME NEW p \in Objects, WaitW(p) \/ WriterCollect(p) PROVE [AL!Next]_mode
  BY <1>4 DEF WaitW, WriterCollect
<1>5. CASE UNCHANGED vars
  BY <1>5 DEF vars
<1> QED
  BY <1>1, <1>2, <1>3, <1>4, <1>5, StepKinds

(* The mutexes implement the abstract advisory lock, provided OpenMutex()  *)
(* finds the mutexes that exist: a writer that is refused the handle of a  *)
(* reader's mutex does not wait for that reader.                           *)
THEOREM Refinement == ASSUME ~OpenErrors PROVE Spec => ImplementsAdvisoryLock
<1>1. Init => AL!Init
  BY DEF Init, AL!Init
<1>2. IInv /\ ReadersSeen /\ [Next]_vars => [AL!Next]_mode
  BY StepRefines
<1> QED
  BY <1>1, <1>2, ReadersSeenAlways, PTL DEF Spec, ImplementsAdvisoryLock, AL!Spec

(* So a write lock excludes every other lock on the file: the abstract     *)
(* lock never breaks it.                                                   *)
THEOREM Exclusion == ASSUME ~OpenErrors PROVE Spec => []MutualExclusion
<1> DEFINE AInv == AL!TypeOK /\ AL!MutualExclusion
<1>1. AL!Init => AInv
  BY DEF AL!Init, AL!TypeOK, AL!LockMode, AL!MutualExclusion, AL!Compatible
<1>2. AInv /\ [AL!Next]_mode => AInv'
  <2> SUFFICES ASSUME AInv, [AL!Next]_mode PROVE AInv'
    OBVIOUS
  <2>1. ASSUME NEW o \in Objects, NEW m \in {"ReadLock", "WriteLock"}, AL!Acquire(o, m)
        PROVE  AInv'
    <3>1. AL!TypeOK'
      BY <2>1 DEF AL!Acquire, AL!TypeOK, AL!LockMode
    <3>2. AL!MutualExclusion'
      BY <2>1 DEF AL!Acquire, AL!TypeOK, AL!MutualExclusion, AL!Compatible
    <3> QED
      BY <3>1, <3>2
  <2>2. ASSUME NEW S \in SUBSET Objects, AL!Release(S) PROVE AInv'
    <3>1. AL!TypeOK'
      BY <2>2 DEF AL!Release, AL!TypeOK, AL!LockMode
    <3>2. AL!MutualExclusion'
      BY <2>2 DEF AL!Release, AL!TypeOK, AL!MutualExclusion, AL!Compatible
    <3> QED
      BY <3>1, <3>2
  <2>3. CASE UNCHANGED mode
    BY <2>3 DEF AL!TypeOK, AL!MutualExclusion, AL!Compatible
  <2> QED
    BY <2>1, <2>2, <2>3 DEF AL!Next
<1>3. AInv => MutualExclusion
  BY DEF MutualExclusion
<1> QED
  BY <1>1, <1>2, <1>3, Refinement, PTL DEF ImplementsAdvisoryLock, AL!Spec

-----------------------------------------------------------------------------
\* What an object outside the loops does gives no mutex an owner.
LEMMA FreeStaysFree ==
    ASSUME IInv, NEW p \in Objects, pc[p] \in {"idle", "waitW"}, QuietStep(p),
           NEW x \in ReaderMutexes, Free(x)
    PROVE  Free(x)'
<1>1. ASSUME NEW X, owner' = Released(p, X) PROVE Free(x)'
  BY <1>1, ReleasedOwner DEF IInv, Free
<1>2. ASSUME NEW m, Unlock(p, m) PROVE Free(x)'
  BY <1>1, <1>2 DEF Unlock
<1>3. CASE UNCHANGED owner
  BY <1>3 DEF Free
<1>4. ASSUME NEW m \in {"ReadLock", "WriteLock"}, NEW b \in BOOLEAN, lock(p, m, b)
      PROVE  Free(x)'
  BY <1>2, <1>3, <1>4 DEF lock
<1> QED
  BY <1>1, <1>2, <1>3, <1>4
     DEF QuietStep, Open, Close, unlock, Destroy, Crash, WaitWTimeout, ReaderOpen,
         ReaderTry, ReaderCreate, WriterTimeout

\* While a reader looks for a mutex nobody else takes one, and the one it
\* creates is there for it.
LEMMA ReaderFindsFreeStep ==
    ASSUME ~OpenErrors, ~CreateErrors, IInv, ReaderFindsFree, [Next]_vars
    PROVE  ReaderFindsFree'
<1> USE Numbers
<1>0. TypeOK
  BY DEF IInv
<1> SUFFICES ASSUME NEW o \in Objects
             PROVE  /\ pc'[o] = "create" => Free(idx[o])'
                    /\ pc'[o] = "leave" => rmutex'[o] # None \/ idx'[o] = MaxReaders
  BY DEF ReaderFindsFree
<1>1. ASSUME pc'[o] = pc[o], idx'[o] = idx[o], rmutex'[o] = rmutex[o],
             pc[o] = "create" => \A x \in ReaderMutexes : Free(x) => Free(x)'
      PROVE  /\ pc'[o] = "create" => Free(idx[o])'
             /\ pc'[o] = "leave" => rmutex'[o] # None \/ idx'[o] = MaxReaders
  <2>1. pc[o] = "create" => idx[o] \in ReaderMutexes /\ Free(idx[o])
    BY <1>0 DEF TypeOK, ReaderFindsFree
  <2>2. pc'[o] = "create" => owner'[idx[o]] = "none"
    BY <1>1, <2>1 DEF Free
  <2> QED
    BY <1>1, <2>2 DEF ReaderFindsFree, Free
<1>2. CASE UNCHANGED vars
  BY <1>1, <1>2 DEF vars, Free
<1>3. ASSUME NEW p \in Objects \ {o},
             \/ QuietStep(p) \/ WaitW(p) \/ WriterCollect(p)
             \/ ReaderLeave(p) \/ WriterWaitAll(p)
      PROVE  /\ pc'[o] = "create" => Free(idx[o])'
             /\ pc'[o] = "leave" => rmutex'[o] # None \/ idx'[o] = MaxReaders
  <2>1. /\ pc'[o] = pc[o] /\ idx'[o] = idx[o] /\ rmutex'[o] = rmutex[o]
    BY <1>0, <1>3
       DEF QuietStep, Open, Close, unlock, Destroy, Crash, lock, Unlock, Return, Goto, call,
           WaitWTimeout, ReaderOpen, ReaderTry, ReaderCreate, WriterTimeout, WaitW,
           WriterCollect, ReaderLeave, WriterWaitAll, TypeOK
  <2>2. ASSUME pc[o] = "create", NEW x \in ReaderMutexes, Free(x) PROVE Free(x)'
    <3>1. owner[W] = o /\ pc[p] \in {"idle", "waitW"}
      BY <2>2, OneOwnerOfW DEF HoldsW
    <3>2. QuietStep(p)
      BY <1>3, <3>1 DEF WaitW, Free, WriterCollect, ReaderLeave, WriterWaitAll
    <3> QED
      BY <2>2, <3>1, <3>2, FreeStaysFree
  <2> QED
    BY <1>1, <2>1, <2>2
<1>4. CASE ReaderOpen(o)
  <2>1. pc'[o] # "leave" /\ idx' = idx /\ owner' = owner /\ idx[o] \in ReaderMutexes
    BY <1>0, <1>4 DEF ReaderOpen, Goto, TypeOK
  <2>2. pc'[o] = "create" => ~Exists(idx[o])
    BY <1>0, <1>4 DEF ReaderOpen, Goto, TypeOK
  <2>3. ~Exists(idx[o]) => owner[idx[o]] = "none"
    BY <1>0, <2>1 DEF TypeOK, Exists, IInv, OwnerInv, HoldsReader
  <2> QED
    BY <2>1, <2>2, <2>3 DEF Free
<1>5. CASE ReaderTry(o)
  <2>1. pc'[o] # "create" /\ rmutex[o] = idx[o] /\ idx[o] \in ReaderMutexes
    BY <1>0, <1>5 DEF ReaderTry, Goto, TypeOK, IInv, HandleInv
  <2>2. pc'[o] = "leave" => rmutex'[o] # None \/ idx'[o] = MaxReaders
    BY <1>0, <1>5, <2>1 DEF ReaderTry, Goto, TypeOK
  <2> QED
    BY <2>1, <2>2
<1>6. CASE ReaderCreate(o)
  <2>1. pc'[o] = "leave" /\ Free(idx[o]) /\ idx[o] \in ReaderMutexes
    BY <1>0, <1>6 DEF ReaderCreate, Goto, TypeOK, ReaderFindsFree
  <2>2. rmutex'[o] = idx[o]
    BY <1>0, <1>6, <2>1 DEF ReaderCreate, TypeOK
  <2> QED
    BY <2>1, <2>2
<1>7. CASE \/ unlock(o) \/ Destroy(o) \/ Crash(o) \/ Close(o)
           \/ \E m \in {"ReadLock", "WriteLock"}, b \in BOOLEAN : lock(o, m, b)
           \/ WaitWTimeout(o) \/ WriterTimeout(o) \/ WaitW(o) \/ WriterCollect(o)
           \/ ReaderLeave(o) \/ WriterWaitAll(o)
  <2>1. pc'[o] \notin {"create", "leave"}
    BY <1>0, <1>7
       DEF unlock, Destroy, Crash, Close, lock, WaitWTimeout, WriterTimeout, WaitW,
           WriterCollect, ReaderLeave, WriterWaitAll, Return, Goto, call, TypeOK
  <2> QED
    BY <2>1
<1>8. CASE Open(o)
  BY <1>1, <1>8 DEF Open, call, Free
<1> QED
  BY <1>2, <1>3, <1>4, <1>5, <1>6, <1>7, <1>8, StepKinds DEF QuietStep

(* A blocking lock() returns without the lock only to a reader that found  *)
(* all MaxReaders mutexes owned, provided CreateMutex() and OpenMutex() do *)
(* not fail.                                                               *)
THEOREM BlockingLock ==
    ASSUME ~OpenErrors, ~CreateErrors PROVE Spec => BlockingLockObtains
<1> DEFINE A == \A o \in Objects :
                  pc[o] # "idle" /\ block[o] /\ pc'[o] = "idle" /\ isOpen'[o]
                     => mode'[o] = want[o] \/ idx[o] = MaxReaders
<1>1. Init => IInv /\ ReaderFindsFree
  BY IInvInit DEF Init, ReaderFindsFree
<1>2. IInv /\ ReaderFindsFree /\ [Next]_vars => (IInv /\ ReaderFindsFree)'
  BY IInvStep, ReaderFindsFreeStep
<1>3. IInv /\ ReaderFindsFree /\ [Next]_vars => [A]_vars
  <2> SUFFICES ASSUME IInv, ReaderFindsFree, Next, NEW o \in Objects,
                      pc[o] # "idle", block[o], pc'[o] = "idle", isOpen'[o]
               PROVE  mode'[o] = want[o] \/ idx[o] = MaxReaders
    OBVIOUS
  <2>0. TypeOK
    BY DEF IInv
  <2>1. ReaderLeave(o) \/ WriterWaitAll(o)
    <3>1. PICK p \in Objects : \/ QuietStep(p) \/ WaitW(p) \/ WriterCollect(p)
                               \/ ReaderLeave(p) \/ WriterWaitAll(p)
      BY StepKinds
    <3>2. p = o
      BY <2>0, <3>1
         DEF QuietStep, Open, Close, unlock, Destroy, Crash, lock, Return, Goto, call,
             WaitWTimeout, ReaderOpen, ReaderTry, ReaderCreate, WriterTimeout, WaitW,
             WriterCollect, ReaderLeave, WriterWaitAll, TypeOK
    <3> QED
      BY <2>0, <3>1, <3>2
         DEF QuietStep, Open, Close, unlock, Destroy, Crash, lock, Return, Goto, call,
             WaitWTimeout, ReaderOpen, ReaderTry, ReaderCreate, WriterTimeout, WaitW,
             WriterCollect, TypeOK
  <2>2. CASE ReaderLeave(o)
    BY <2>0, <2>2, CallHas DEF ReaderLeave, ReaderFindsFree, TypeOK
  <2>3. CASE WriterWaitAll(o)
    BY <2>0, <2>3, CallHas DEF WriterWaitAll, TypeOK
  <2> QED
    BY <2>1, <2>2, <2>3
<1> QED
  BY <1>1, <1>2, <1>3, PTL DEF Spec, BlockingLockObtains
=============================================================================

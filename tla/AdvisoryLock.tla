---------------------------- MODULE AdvisoryLock ----------------------------
(***************************************************************************)
(* What QtLockedFile promises its users, without any file, descriptor or   *)
(* kernel object: some objects refer to one file, each holds no lock, a    *)
(* read lock or a write lock on it, and a write lock excludes every other  *)
(* lock.  LockedFileUnix and LockedFileWin are shown to implement it.      *)
(***************************************************************************)
CONSTANT Objects          \* the QtLockedFile objects that name the file

VARIABLE held             \* held[o]: the lock object o holds

LockMode == {"NoLock", "ReadLock", "WriteLock"}

\* Two locks may exist together when both are read locks or one is none.
Compatible(m, n) == "NoLock" \in {m, n} \/ {m, n} = {"ReadLock"}

Init == held = [o \in Objects |-> "NoLock"]

\* o obtains a lock, or converts the one it has, when no other object's
\* lock stands against it.
Acquire(o, m) ==
    /\ \A q \in Objects \ {o} : Compatible(m, held[q])
    /\ held' = [held EXCEPT ![o] = m]

\* Any set of objects loses its locks in one step: one object unlocks, or a
\* process ends with everything it holds.
Release(S) ==
    held' = [o \in Objects |-> IF o \in S THEN "NoLock" ELSE held[o]]

Next == \/ \E o \in Objects, m \in {"ReadLock", "WriteLock"} : Acquire(o, m)
        \/ \E S \in SUBSET Objects : Release(S)

Spec == Init /\ [][Next]_held

TypeOK == held \in [Objects -> LockMode]

(* A write lock excludes every other lock on the file: "Exactly one        *)
(* instance may have it locked in write mode. A read and a write lock      *)
(* cannot exist simultaneously on the same file" (qtlockedfile.cpp:51).    *)
MutualExclusion ==
    \A o, q \in Objects : o # q => Compatible(held[o], held[q])
=============================================================================

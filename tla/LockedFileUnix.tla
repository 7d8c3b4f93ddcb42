--------------------------- MODULE LockedFileUnix ---------------------------
(***************************************************************************)
(* QtLockedFile on Unix (qtlockedfile_unix.cpp): m_lock_mode caches, in    *)
(* each object, the record lock that fcntl(2) keeps for the whole PROCESS  *)
(* on the file.  The file is the same for every object.  Each process has  *)
(* one thread; a lock() call has the two kernel entries of the code, the   *)
(* fcntl(F_UNLCK) of unlock() and the fcntl of the new lock, and the other *)
(* processes run between them.                                             *)
(***************************************************************************)
CONSTANTS
    Procs,        \* the processes
    Objects,      \* the QtLockedFile objects
    ProcOf,       \* the process each object lives in
    FcntlErrors,  \* the calls fcntl may fail with a system error: "lock", "unlock"
    CloseLocked   \* may the application close() an object that has a lock?

ASSUME ConstantsAssumption ==
    /\ ProcOf \in [Objects -> Procs]
    /\ FcntlErrors \subseteq {"lock", "unlock"}
    /\ CloseLocked \in BOOLEAN

VARIABLES
    access,   \* access[o]: how the QFile is open, or "Closed"
    mode,     \* mode[o]: m_lock_mode
    os,       \* os[p]: the record lock the kernel holds for process p
    want,     \* want[o]: the lock type a lock() call of o is about to ask
              \* fcntl for, "NoLock" when o is in no lock() call
    block     \* block[o]: that call's block argument (F_SETLKW or F_SETLK)

vars == <<access, mode, os, want, block>>

LockMode == {"NoLock", "ReadLock", "WriteLock"}

Compatible(m, n) == "NoLock" \in {m, n} \/ {m, n} = {"ReadLock"}

TypeOK ==
    /\ access \in [Objects -> {"Closed", "ReadOnly", "ReadWrite"}]
    /\ mode \in [Objects -> LockMode]
    /\ os \in [Procs -> LockMode]
    /\ want \in [Objects -> LockMode]
    /\ block \in [Objects -> BOOLEAN]

-----------------------------------------------------------------------------
(* Constructors: unlocked and not open.                                    *)
Init ==
    /\ access = [o \in Objects |-> "Closed"]
    /\ mode = [o \in Objects |-> "NoLock"]
    /\ os = [p \in Procs |-> "NoLock"]
    /\ want = [o \in Objects |-> "NoLock"]
    /\ block = [o \in Objects |-> FALSE]

\* The thread of o's process is in no lock() call.
Idle(o) == \A q \in Objects : ProcOf[q] = ProcOf[o] => want[q] = "NoLock"

\* isLocked()
isLocked(o) == mode[o] # "NoLock"

\* The kernel grants process p a record lock that no other process's denies.
Grantable(p, m) == \A r \in Procs \ {p} : Compatible(m, os[r])

\* F_WRLCK needs a descriptor open for writing.
MayLock(o, m) == m = "WriteLock" => access[o] = "ReadWrite"

-----------------------------------------------------------------------------
(* open(): QFile::open() without Truncate.  The class documentation        *)
(* forbids opening the file again in a process that holds a lock on it.    *)
Open(o, a) ==
    /\ access[o] = "Closed" /\ Idle(o)
    /\ os[ProcOf[o]] = "NoLock"
    /\ access' = [access EXCEPT ![o] = a]
    /\ UNCHANGED <<mode, os, want, block>>

(* close() is QFile's: QtLockedFile does not reimplement it, so            *)
(* m_lock_mode stays as it is.  The kernel drops every record lock of the  *)
(* process when any of its descriptors of the file is closed.              *)
Close(o) ==
    /\ access[o] # "Closed" /\ Idle(o)
    /\ isLocked(o) => CloseLocked
    /\ access' = [access EXCEPT ![o] = "Closed"]
    /\ os' = [os EXCEPT ![ProcOf[o]] = "NoLock"]
    /\ UNCHANGED <<mode, want, block>>

\* The body of unlock() once the object is known open and locked: fcntl
\* drops the process's lock and m_lock_mode follows, or fcntl fails and
\* m_lock_mode stays.
ReleaseLock(o) ==
    \/ /\ os' = [os EXCEPT ![ProcOf[o]] = "NoLock"]
       /\ mode' = [mode EXCEPT ![o] = "NoLock"]
    \/ /\ "unlock" \in FcntlErrors
       /\ UNCHANGED <<os, mode>>

\* unlock(), and lock(NoLock).
unlock(o) ==
    /\ access[o] # "Closed" /\ Idle(o) /\ isLocked(o)
    /\ ReleaseLock(o)
    /\ UNCHANGED <<access, want, block>>

\* Mutant: the old lock is kept until the new one is obtained.
lockConverting(o, m, b) ==
    /\ access[o] # "Closed" /\ Idle(o)
    /\ m # mode[o]
    /\ want' = [want EXCEPT ![o] = m]
    /\ block' = [block EXCEPT ![o] = b]
    /\ UNCHANGED <<access, mode, os>>

\* lock(m, b) up to its fcntl call: a lock of another type is first
\* released, whatever unlock() returns.  Nothing happens when the object has
\* a lock of type m already.
lock(o, m, b) ==
    /\ access[o] # "Closed" /\ Idle(o)
    /\ m # mode[o]
    /\ IF isLocked(o) THEN ReleaseLock(o) ELSE UNCHANGED <<os, mode>>
    /\ want' = [want EXCEPT ![o] = m]
    /\ block' = [block EXCEPT ![o] = b]
    /\ UNCHANGED access

\* Mutant: l_type is F_RDLCK for every lock.
LockGrantedShared(o) ==
    /\ want[o] # "NoLock"
    /\ Grantable(ProcOf[o], "ReadLock")
    /\ os' = [os EXCEPT ![ProcOf[o]] = "ReadLock"]
    /\ mode' = [mode EXCEPT ![o] = want[o]]
    /\ want' = [want EXCEPT ![o] = "NoLock"]
    /\ block' = [block EXCEPT ![o] = FALSE]
    /\ UNCHANGED access

\* Mutant: lock() returns without setting m_lock_mode.
LockGrantedForgotten(o) ==
    /\ want[o] # "NoLock"
    /\ MayLock(o, want[o]) /\ Grantable(ProcOf[o], want[o])
    /\ os' = [os EXCEPT ![ProcOf[o]] = want[o]]
    /\ want' = [want EXCEPT ![o] = "NoLock"]
    /\ block' = [block EXCEPT ![o] = FALSE]
    /\ UNCHANGED <<access, mode>>

\* fcntl returns 0: the lock is obtained.
LockGranted(o) ==
    /\ want[o] # "NoLock"
    /\ MayLock(o, want[o]) /\ Grantable(ProcOf[o], want[o])
    /\ os' = [os EXCEPT ![ProcOf[o]] = want[o]]
    /\ mode' = [mode EXCEPT ![o] = want[o]]
    /\ want' = [want EXCEPT ![o] = "NoLock"]
    /\ block' = [block EXCEPT ![o] = FALSE]
    /\ UNCHANGED access

\* Mutant: m_lock_mode is set although fcntl failed.
LockRefusedUnchecked(o) ==
    /\ want[o] # "NoLock"
    /\ \/ ~block[o] /\ ~Grantable(ProcOf[o], want[o])
       \/ ~MayLock(o, want[o])
       \/ "lock" \in FcntlErrors
    /\ mode' = [mode EXCEPT ![o] = want[o]]
    /\ want' = [want EXCEPT ![o] = "NoLock"]
    /\ block' = [block EXCEPT ![o] = FALSE]
    /\ UNCHANGED <<access, os>>

\* fcntl returns -1: EAGAIN when it may not wait, EBADF when the descriptor
\* is not open for writing, or a system error (EINTR, ENOLCK, EDEADLK).
LockRefused(o) ==
    /\ want[o] # "NoLock"
    /\ \/ ~block[o] /\ ~Grantable(ProcOf[o], want[o])
       \/ ~MayLock(o, want[o])
       \/ "lock" \in FcntlErrors
    /\ want' = [want EXCEPT ![o] = "NoLock"]
    /\ block' = [block EXCEPT ![o] = FALSE]
    /\ UNCHANGED <<access, mode, os>>

\* Mutant: the constructor does not set m_lock_mode.
DestroyUninitialised(o) ==
    /\ Idle(o)
    /\ access' = [access EXCEPT ![o] = "Closed"]
    /\ mode' = [mode EXCEPT ![o] = "garbage"]
    /\ os' = IF access[o] = "Closed" THEN os
             ELSE [os EXCEPT ![ProcOf[o]] = "NoLock"]
    /\ UNCHANGED <<want, block>>

\* ~QtLockedFile() unlocks an open file, then ~QFile() closes it; a new
\* object takes its place.
Destroy(o) ==
    /\ Idle(o)
    /\ access' = [access EXCEPT ![o] = "Closed"]
    /\ mode' = [mode EXCEPT ![o] = "NoLock"]
    /\ os' = IF access[o] = "Closed" THEN os
             ELSE [os EXCEPT ![ProcOf[o]] = "NoLock"]
    /\ UNCHANGED <<want, block>>

\* A process dies, in a lock() call or not, without running a destructor:
\* the kernel closes its descriptors.  It starts again with new objects.
Crash(p) ==
    LET Lost(f, v) == [o \in Objects |-> IF ProcOf[o] = p THEN v ELSE f[o]]
    IN  /\ access' = Lost(access, "Closed")
        /\ mode' = Lost(mode, "NoLock")
        /\ want' = Lost(want, "NoLock")
        /\ block' = Lost(block, FALSE)
        /\ os' = [os EXCEPT ![p] = "NoLock"]

Next ==
    \/ \E o \in Objects :
         \/ \E a \in {"ReadOnly", "ReadWrite"} : Open(o, a)
         \/ Close(o)
         \/ unlock(o)
         \/ \E m \in {"ReadLock", "WriteLock"}, b \in BOOLEAN : lock(o, m, b)
         \/ LockGranted(o)
         \/ LockRefused(o)
         \/ Destroy(o)
    \/ \E p \in Procs : Crash(p)

Spec == Init /\ [][Next]_vars

-----------------------------------------------------------------------------
(* lockMode() tells the truth: an object that says it has a lock is open   *)
(* and its process has that lock in the kernel, whatever failed or crashed *)
(* before ("Returns the type of lock currently held by this object",       *)
(* qtlockedfile.cpp:144).                                                  *)
LockModeIsHeld ==
    \A o \in Objects :
        isLocked(o) => access[o] # "Closed" /\ os[ProcOf[o]] = mode[o]

(* No lock is lost track of: a lock the kernel holds for a process is      *)
(* known to an open object of that process, which can release it.          *)
NoOrphanLock ==
    \A p \in Procs : os[p] # "NoLock" =>
        \E o \in Objects : /\ ProcOf[o] = p
                            /\ access[o] # "Closed"
                            /\ mode[o] = os[p]

\* Object o waits, without a time limit, for a lock of process p.
WaitsFor(o, p) ==
    /\ want[o] # "NoLock" /\ block[o] /\ MayLock(o, want[o])
    /\ p # ProcOf[o]
    /\ ~Compatible(want[o], os[p])

(* Two readers that both upgrade do not wait for each other for ever,      *)
(* because lock() releases the lock it converts first (line 61).           *)
NoUpgradeDeadlock ==
    \A o, q \in Objects : ~(WaitsFor(o, ProcOf[q]) /\ WaitsFor(q, ProcOf[o]))

(* m_lock_mode of all the objects, taken together, behaves as the abstract *)
(* lock; so a write lock excludes every other one.                         *)
AL == INSTANCE AdvisoryLock WITH held <- mode
ImplementsAdvisoryLock == AL!Spec
MutualExclusion == AL!MutualExclusion
=============================================================================

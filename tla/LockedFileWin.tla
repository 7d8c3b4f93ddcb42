--------------------------- MODULE LockedFileWin ----------------------------
(***************************************************************************)
(* QtLockedFile on Windows (qtlockedfile_win.cpp): a file has a writer     *)
(* mutex W and up to MaxReaders numbered reader mutexes, found by name.    *)
(* lock() takes W; a reader then finds a reader mutex that is free, owns   *)
(* it and lets W go; a writer keeps W and waits for all the reader mutexes *)
(* that exist.  Each object is used by one thread of its own, and a mutex  *)
(* is owned by a thread, so owner names the object.  The steps of a lock() *)
(* call are the calls it makes to the kernel.                              *)
(***************************************************************************)
EXTENDS Integers

CONSTANTS
    Objects,      \* the QtLockedFile objects that name the file
    MaxReaders,   \* MAX_READERS, that is MAXIMUM_WAIT_OBJECTS
    CreateErrors, \* may CreateMutex() fail?
    OpenErrors    \* may OpenMutex() fail for a mutex that exists?

ASSUME ConstantsAssumption ==
    /\ MaxReaders \in Nat \ {0}
    /\ {CreateErrors, OpenErrors} \subseteq BOOLEAN
    /\ "none" \notin Objects

W == -1                              \* the index getMutexHandle() has for it
ReaderMutexes == 0 .. MaxReaders - 1
None == -1                           \* a null rmutex

VARIABLES
    isOpen,   \* isOpen[o]: is the file open?
    mode,     \* mode[o]: m_lock_mode
    wmutex,   \* wmutex[o]: does o have a handle of W?
    rmutex,   \* rmutex[o]: the reader mutex o has a handle of, or None
    rmutexes, \* rmutexes[o]: the reader mutexes the writer o has handles of
    owner,    \* owner[x]: the object whose thread owns mutex x, or "none"
    pc,       \* pc[o]: where o is in lock(), "idle" outside it
    want,     \* want[o]: the lock type that call is for, "NoLock" outside it
    block,    \* block[o]: its block argument
    idx       \* idx[o]: its loop index

vars == <<isOpen, mode, wmutex, rmutex, rmutexes, owner, pc, want, block, idx>>
call == <<pc, want, block, idx>>

LockMode == {"NoLock", "ReadLock", "WriteLock"}

PC == {"idle", "waitW", "open", "try", "create", "leave", "collect", "waitAll"}

TypeOK ==
    /\ isOpen \in [Objects -> BOOLEAN]
    /\ mode \in [Objects -> LockMode]
    /\ wmutex \in [Objects -> BOOLEAN]
    /\ rmutex \in [Objects -> ReaderMutexes \cup {None}]
    /\ rmutexes \in [Objects -> SUBSET ReaderMutexes]
    /\ owner \in [ReaderMutexes \cup {W} -> Objects \cup {"none"}]
    /\ pc \in [Objects -> PC]
    /\ want \in [Objects -> LockMode]
    /\ block \in [Objects -> BOOLEAN]
    /\ idx \in [Objects -> 0 .. MaxReaders]
    /\ \A o \in Objects :
         pc[o] \in {"open", "try", "create", "collect"} => idx[o] \in ReaderMutexes

-----------------------------------------------------------------------------
Init ==
    /\ isOpen = [o \in Objects |-> FALSE]
    /\ mode = [o \in Objects |-> "NoLock"]
    /\ wmutex = [o \in Objects |-> FALSE]
    /\ rmutex = [o \in Objects |-> None]
    /\ rmutexes = [o \in Objects |-> {}]
    /\ owner = [x \in ReaderMutexes \cup {W} |-> "none"]
    /\ pc = [o \in Objects |-> "idle"]
    /\ want = [o \in Objects |-> "NoLock"]
    /\ block = [o \in Objects |-> FALSE]
    /\ idx = [o \in Objects |-> 0]

\* A named mutex exists as long as someone has a handle of it.
Exists(i) == \E o \in Objects : rmutex[o] = i \/ i \in rmutexes[o]

\* The mutexes o owns, and what owner becomes when o releases those of X
\* (ReleaseMutex() of a mutex another thread owns fails, unnoticed).
Owned(o) == {x \in DOMAIN owner : owner[x] = o}
Released(o, X) ==
    [x \in DOMAIN owner |-> IF x \in X \cap Owned(o) THEN "none" ELSE owner[x]]
Taken(o, X) == [x \in DOMAIN owner |-> IF x \in X THEN o ELSE owner[x]]

Free(x) == owner[x] = "none"
Goto(o, l) == pc' = [pc EXCEPT ![o] = l]

\* lock() returns.
Return(o) ==
    /\ Goto(o, "idle")
    /\ want' = [want EXCEPT ![o] = "NoLock"]
    /\ block' = [block EXCEPT ![o] = FALSE]
    /\ idx' = [idx EXCEPT ![o] = 0]

-----------------------------------------------------------------------------
(* open(), and the close() of QFile, which knows nothing of the lock: the  *)
(* application unlocks first.                                              *)
Open(o) ==
    /\ ~isOpen[o]
    /\ isOpen' = [isOpen EXCEPT ![o] = TRUE]
    /\ UNCHANGED <<mode, wmutex, rmutex, rmutexes, owner, call>>

Close(o) ==
    /\ isOpen[o] /\ pc[o] = "idle" /\ mode[o] = "NoLock"
    /\ isOpen' = [isOpen EXCEPT ![o] = FALSE]
    /\ UNCHANGED <<mode, wmutex, rmutex, rmutexes, owner, call>>

\* Mutant: a writer releases its reader mutexes and forgets W.
UnlockKeepsW(o, m) ==
    /\ owner' = Released(o, IF m = "ReadLock" THEN {rmutex[o]} ELSE rmutexes[o])
    /\ rmutex' = [rmutex EXCEPT ![o] = IF m = "ReadLock" THEN None ELSE @]
    /\ rmutexes' = [rmutexes EXCEPT ![o] = IF m = "ReadLock" THEN @ ELSE {}]
    /\ mode' = [mode EXCEPT ![o] = "NoLock"]

\* The body of unlock() of an open object in mode m: a reader releases and
\* closes its reader mutex, a writer all those it has handles of, then W.
\* The releases are one step: no thread can tell them apart from a slower
\* one, since each only lets others go on.
Unlock(o, m) ==
    /\ owner' = Released(o, IF m = "ReadLock" THEN {rmutex[o]}
                            ELSE rmutexes[o] \cup {W})
    /\ rmutex' = [rmutex EXCEPT ![o] = IF m = "ReadLock" THEN None ELSE @]
    /\ rmutexes' = [rmutexes EXCEPT ![o] = IF m = "ReadLock" THEN @ ELSE {}]
    /\ mode' = [mode EXCEPT ![o] = "NoLock"]

\* unlock(), and lock(NoLock).
unlock(o) ==
    /\ isOpen[o] /\ pc[o] = "idle" /\ mode[o] # "NoLock"
    /\ Unlock(o, mode[o])
    /\ UNCHANGED <<isOpen, wmutex, call>>

\* ~QtLockedFile() unlocks an open object and closes W's handle, and a new
\* object takes its place.
Destroy(o) ==
    /\ pc[o] = "idle"
    /\ IF isOpen[o] /\ mode[o] # "NoLock" THEN Unlock(o, mode[o])
       ELSE UNCHANGED <<mode, rmutex, rmutexes, owner>>
    /\ isOpen' = [isOpen EXCEPT ![o] = FALSE]
    /\ wmutex' = [wmutex EXCEPT ![o] = FALSE]
    /\ UNCHANGED call

\* The process of o dies wherever it is: its handles are closed and its
\* mutexes abandoned, which the next owner does not mind (WAIT_ABANDONED).
\* It starts again with a new object.
Crash(o) ==
    /\ isOpen' = [isOpen EXCEPT ![o] = FALSE]
    /\ mode' = [mode EXCEPT ![o] = "NoLock"]
    /\ wmutex' = [wmutex EXCEPT ![o] = FALSE]
    /\ rmutex' = [rmutex EXCEPT ![o] = None]
    /\ rmutexes' = [rmutexes EXCEPT ![o] = {}]
    /\ owner' = Released(o, DOMAIN owner)
    /\ Return(o)

-----------------------------------------------------------------------------
\* lock(m, b) up to its first wait: a lock of another type is released, then
\* a handle of W is created, once in the life of the object.
lock(o, m, b) ==
    /\ isOpen[o] /\ pc[o] = "idle" /\ m # mode[o]
    /\ IF mode[o] # "NoLock" THEN Unlock(o, mode[o])
       ELSE UNCHANGED <<mode, rmutex, rmutexes, owner>>
    /\ \/ /\ wmutex' = [wmutex EXCEPT ![o] = TRUE]
          /\ want' = [want EXCEPT ![o] = m]
          /\ block' = [block EXCEPT ![o] = b]
          /\ Goto(o, "waitW")
       \/ /\ ~wmutex[o] /\ CreateErrors
          /\ UNCHANGED <<wmutex, want, block, pc>>
    /\ UNCHANGED <<isOpen, idx>>

\* waitMutex(wmutex, block) obtains W, or finds it taken and may not wait.
WaitW(o) ==
    /\ pc[o] = "waitW" /\ Free(W)
    /\ owner' = Taken(o, {W})
    /\ Goto(o, IF want[o] = "ReadLock" THEN "open" ELSE "collect")
    /\ UNCHANGED <<isOpen, mode, wmutex, rmutex, rmutexes, want, block, idx>>

\* Mutant: W is only polled.
WaitWPolls(o) ==
    /\ pc[o] = "waitW" /\ ~Free(W)
    /\ Return(o)
    /\ UNCHANGED <<isOpen, mode, wmutex, rmutex, rmutexes, owner>>

WaitWTimeout(o) ==
    /\ pc[o] = "waitW" /\ ~Free(W) /\ ~block[o]
    /\ Return(o)
    /\ UNCHANGED <<isOpen, mode, wmutex, rmutex, rmutexes, owner>>

\* A reader opens reader mutex idx; one that is not there it may create.
ReaderOpen(o) ==
    /\ pc[o] = "open"
    /\ \/ /\ Exists(idx[o])
          /\ rmutex' = [rmutex EXCEPT ![o] = idx[o]]
          /\ Goto(o, "try")
       \/ /\ Exists(idx[o]) => OpenErrors
          /\ Goto(o, "create")
          /\ UNCHANGED rmutex
    /\ UNCHANGED <<isOpen, mode, wmutex, rmutexes, owner, want, block, idx>>

\* Mutant: the loop runs to MaxReaders inclusive.
ReaderTryOneMore(o) ==
    /\ pc[o] = "try"
    /\ IF Free(idx[o])
       THEN /\ owner' = Taken(o, {idx[o]})
            /\ Goto(o, "leave")
            /\ UNCHANGED <<rmutex, idx>>
       ELSE /\ rmutex' = [rmutex EXCEPT ![o] = None]
            /\ idx' = [idx EXCEPT ![o] = @ + 1]
            /\ Goto(o, "open")
            /\ UNCHANGED owner
    /\ UNCHANGED <<isOpen, mode, wmutex, rmutexes, want, block>>

\* It tries it, without waiting, and goes on to the next one if it is owned.
ReaderTry(o) ==
    /\ pc[o] = "try"
    /\ IF Free(idx[o])
       THEN /\ owner' = Taken(o, {idx[o]})
            /\ Goto(o, "leave")
            /\ UNCHANGED <<rmutex, idx>>
       ELSE /\ rmutex' = [rmutex EXCEPT ![o] = None]
            /\ idx' = [idx EXCEPT ![o] = @ + 1]
            /\ Goto(o, IF idx[o] + 1 = MaxReaders THEN "leave" ELSE "open")
            /\ UNCHANGED owner
    /\ UNCHANGED <<isOpen, mode, wmutex, rmutexes, want, block>>

\* It creates (or, if it is there after all, opens) reader mutex idx and
\* tries it; a handle it can make no use of is closed.
ReaderCreate(o) ==
    /\ pc[o] = "create"
    /\ \/ /\ Free(idx[o])
          /\ rmutex' = [rmutex EXCEPT ![o] = idx[o]]
          /\ owner' = Taken(o, {idx[o]})
       \/ /\ ~Free(idx[o]) \/ CreateErrors
          /\ UNCHANGED <<rmutex, owner>>
    /\ Goto(o, "leave")
    /\ UNCHANGED <<isOpen, mode, wmutex, rmutexes, want, block, idx>>

\* Mutant: the reader mutex is released in the place of W.
ReaderLeaveWrong(o) ==
    /\ pc[o] = "leave"
    /\ owner' = Released(o, {rmutex[o]})
    /\ mode' = [mode EXCEPT ![o] = IF rmutex[o] = None THEN "NoLock" ELSE "ReadLock"]
    /\ Return(o)
    /\ UNCHANGED <<isOpen, wmutex, rmutex, rmutexes>>

\* A reader releases W and returns, with a lock if it has a reader mutex.
ReaderLeave(o) ==
    /\ pc[o] = "leave"
    /\ owner' = Released(o, {W})
    /\ mode' = [mode EXCEPT ![o] = IF rmutex[o] = None THEN "NoLock" ELSE "ReadLock"]
    /\ Return(o)
    /\ UNCHANGED <<isOpen, wmutex, rmutex, rmutexes>>

\* Mutant: the last reader mutex is not looked for.
WriterCollectLess(o) ==
    /\ pc[o] = "collect"
    /\ rmutexes' = [rmutexes EXCEPT ![o] = @ \cup ({idx[o]} \cap {i \in ReaderMutexes : Exists(i)})]
    /\ IF idx[o] + 1 >= MaxReaders - 1
       THEN Goto(o, "waitAll") /\ idx' = [idx EXCEPT ![o] = 0]
       ELSE idx' = [idx EXCEPT ![o] = @ + 1] /\ UNCHANGED pc
    /\ UNCHANGED owner
    /\ UNCHANGED <<isOpen, mode, wmutex, rmutex, want, block>>

\* Mutant: W is released before the readers are waited for.
WriterCollectOpen(o) ==
    /\ pc[o] = "collect"
    /\ rmutexes' = [rmutexes EXCEPT ![o] = @ \cup ({idx[o]} \cap {i \in ReaderMutexes : Exists(i)})]
    /\ IF idx[o] + 1 = MaxReaders
       THEN Goto(o, "waitAll") /\ idx' = [idx EXCEPT ![o] = 0]
       ELSE idx' = [idx EXCEPT ![o] = @ + 1] /\ UNCHANGED pc
    /\ owner' = IF idx[o] + 1 = MaxReaders THEN Released(o, {W}) ELSE owner
    /\ UNCHANGED <<isOpen, mode, wmutex, rmutex, want, block>>

\* A writer opens reader mutex idx if it exists.
WriterCollect(o) ==
    /\ pc[o] = "collect"
    /\ \/ /\ Exists(idx[o])
          /\ rmutexes' = [rmutexes EXCEPT ![o] = @ \cup {idx[o]}]
       \/ /\ Exists(idx[o]) => OpenErrors
          /\ UNCHANGED rmutexes
    /\ IF idx[o] + 1 = MaxReaders
       THEN Goto(o, "waitAll") /\ idx' = [idx EXCEPT ![o] = 0]
       ELSE idx' = [idx EXCEPT ![o] = @ + 1] /\ UNCHANGED pc
    /\ UNCHANGED <<isOpen, mode, wmutex, rmutex, owner, want, block>>

\* WaitForMultipleObjects() takes all of them at once, or none.  (With an
\* abandoned one among them it returns WAIT_ABANDONED_0.)
WriterWaitAll(o) ==
    /\ pc[o] = "waitAll"
    /\ \A i \in rmutexes[o] : Free(i)
    /\ owner' = Taken(o, rmutexes[o])
    /\ mode' = [mode EXCEPT ![o] = "WriteLock"]
    /\ Return(o)
    /\ UNCHANGED <<isOpen, wmutex, rmutex, rmutexes>>

\* Mutant: a timeout returns without the clean-up.
WriterTimeoutReturns(o) ==
    /\ pc[o] = "waitAll" /\ ~block[o]
    /\ \E i \in rmutexes[o] : ~Free(i)
    /\ Return(o)
    /\ UNCHANGED <<isOpen, mode, wmutex, rmutex, rmutexes, owner>>

\* It would have to wait and may not: m_lock_mode is set to WriteLock and
\* unlock() cleans up.
WriterTimeout(o) ==
    /\ pc[o] = "waitAll" /\ ~block[o]
    /\ \E i \in rmutexes[o] : ~Free(i)
    /\ Unlock(o, "WriteLock")
    /\ Return(o)
    /\ UNCHANGED <<isOpen, wmutex>>

LockStep(o) ==
    \/ WaitW(o) \/ WaitWTimeout(o)
    \/ ReaderOpen(o) \/ ReaderTry(o) \/ ReaderCreate(o) \/ ReaderLeave(o)
    \/ WriterCollect(o) \/ WriterWaitAll(o) \/ WriterTimeout(o)

Next == \E o \in Objects :
    \/ Open(o) \/ Close(o) \/ unlock(o) \/ Destroy(o) \/ Crash(o)
    \/ \E m \in {"ReadLock", "WriteLock"}, b \in BOOLEAN : lock(o, m, b)
    \/ LockStep(o)

Spec == Init /\ [][Next]_vars

\* The kernel lets every thread go on and hands a mutex to each of the
\* threads that keep waiting for it in turn; the application keeps no lock
\* for ever.
FairSpec ==
    /\ Spec
    /\ \A o \in Objects : /\ WF_vars(LockStep(o)) /\ SF_vars(WaitW(o))
                          /\ WF_vars(unlock(o))

-----------------------------------------------------------------------------
(* The lock in m_lock_mode is backed by mutexes: a reader owns the reader  *)
(* mutex it has a handle of, a writer owns W and its reader mutexes.       *)
LockIsOwned ==
    \A o \in Objects :
        /\ mode[o] = "ReadLock" => rmutex[o] # None /\ owner[rmutex[o]] = o
        /\ mode[o] = "WriteLock" =>
               \A x \in rmutexes[o] \cup {W} : owner[x] = o

(* A lock() that fails or times out half way, an unlock() and a destructor *)
(* leave nothing behind: an object without a lock owns no mutex and has no *)
(* handle of a reader mutex, and a reader does not keep W ("If any locks   *)
(* were held, they are released", qtlockedfile.cpp:191).                   *)
NothingLeftBehind ==
    \A o \in Objects : pc[o] = "idle" =>
        /\ mode[o] = "NoLock" =>
               Owned(o) = {} /\ rmutex[o] = None /\ rmutexes[o] = {}
        /\ mode[o] = "ReadLock" => Owned(o) = {rmutex[o]}

(* The three invariants: the mutexes an object owns are those of its mode. *)
MutexesFollowMode == TypeOK /\ LockIsOwned /\ NothingLeftBehind

(* A blocking lock() returns with the lock, except to a reader that found  *)
(* all MaxReaders reader mutexes owned ("If block is true, this function   *)
(* will block until the lock is aquired", qtlockedfile.cpp:160).           *)
BlockingLockObtains ==
    [][\A o \in Objects :
         pc[o] # "idle" /\ block[o] /\ pc'[o] = "idle" /\ isOpen'[o]
            => mode'[o] = want[o] \/ idx[o] = MaxReaders]_vars

(* A writer that has W gets its lock, however often readers come and go,   *)
(* because W keeps new ones out; and every lock() call returns.            *)
LockReturns ==
    \A o \in Objects :
        /\ pc[o] = "collect" /\ block[o] ~> mode[o] = "WriteLock" \/ ~isOpen[o]
        /\ pc[o] = "waitW" ~> pc[o] = "idle"

(* The mutexes make m_lock_mode behave as the abstract lock; so a write    *)
(* lock excludes every other one.                                          *)
AL == INSTANCE AdvisoryLock WITH held <- mode
ImplementsAdvisoryLock == AL!Spec
MutualExclusion == AL!MutualExclusion
=============================================================================

------------------------ MODULE LockedFileUnix_proofs ------------------------
(***************************************************************************)
(* What LockedFileUnix guarantees for any number of processes and objects. *)
(* The application is assumed to follow two rules of the class: it has one *)
(* object for the file in each process, and it does not close a file that  *)
(* it has locked.  The runs with these rules dropped show why.             *)
(***************************************************************************)
EXTENDS LockedFileUnix, TLAPS

OneObjectEach == \A o, q \in Objects : ProcOf[o] = ProcOf[q] => o = q

-----------------------------------------------------------------------------
(* Every variable keeps its type, whatever the application does.           *)
THEOREM TypeCorrect == Spec => []TypeOK
<1>1. Init => TypeOK
  BY ConstantsAssumption DEF Init, TypeOK, LockMode
<1>2. TypeOK /\ [Next]_vars => TypeOK'
  <2> SUFFICES ASSUME TypeOK, [Next]_vars PROVE TypeOK'
    OBVIOUS
  <2> USE ConstantsAssumption DEF TypeOK, LockMode
  <2>1. ASSUME NEW o \in Objects, NEW a \in {"ReadOnly", "ReadWrite"}, Open(o, a)
        PROVE  TypeOK'
    BY <2>1 DEF Open
  <2>2. ASSUME NEW o \in Objects, Close(o) PROVE TypeOK'
    BY <2>2 DEF Close
  <2>3. ASSUME NEW o \in Objects, ReleaseLock(o)
        PROVE  os' \in [Procs -> LockMode] /\ mode' \in [Objects -> LockMode]
    BY <2>3 DEF ReleaseLock
  <2>4. ASSUME NEW o \in Objects, unlock(o) PROVE TypeOK'
    BY <2>3, <2>4 DEF unlock
  <2>5. ASSUME NEW o \in Objects, NEW m \in {"ReadLock", "WriteLock"},
               NEW b \in BOOLEAN, lock(o, m, b)
        PROVE  TypeOK'
    BY <2>3, <2>5 DEF lock
  <2>6. ASSUME NEW o \in Objects, LockGranted(o) PROVE TypeOK'
    BY <2>6 DEF LockGranted
  <2>7. ASSUME NEW o \in Objects, LockRefused(o) PROVE TypeOK'
    BY <2>7 DEF LockRefused
  <2>8. ASSUME NEW o \in Objects, Destroy(o) PROVE TypeOK'
    BY <2>8 DEF Destroy
  <2>9. ASSUME NEW p \in Procs, Crash(p) PROVE TypeOK'
    BY <2>9 DEF Crash
  <2>10. CASE UNCHANGED vars
    BY <2>10 DEF vars
  <2> QED
    BY <2>1, <2>2, <2>4, <2>5, <2>6, <2>7, <2>8, <2>9, <2>10 DEF Next
<1> QED
  BY <1>1, <1>2, PTL DEF Spec

-----------------------------------------------------------------------------
\* The kernel's own exclusion, between processes.
KernelExclusion ==
    \A p, r \in Procs : p # r => Compatible(os[p], os[r])

\* A lock() call that reached fcntl has an open file.
CallIsOpen == \A o \in Objects : want[o] # "NoLock" => access[o] # "Closed"

\* The inductive invariant.  Exclusion between the cached modes follows from
\* the kernel's between processes only because each cached mode is backed by
\* the kernel (LockModeIsHeld).
IInv == TypeOK /\ LockModeIsHeld /\ KernelExclusion /\ CallIsOpen

LEMMA IInvInit == Init => IInv
BY ConstantsAssumption
   DEF Init, IInv, TypeOK, LockMode, LockModeIsHeld, isLocked, KernelExclusion,
       Compatible, CallIsOpen

\* Releasing keeps the kernel's exclusion and the agreement of the two.
LEMMA ReleaseKeeps ==
    ASSUME OneObjectEach, IInv, NEW o \in Objects, ReleaseLock(o), UNCHANGED access
    PROVE  LockModeIsHeld' /\ KernelExclusion'
<1> USE ConstantsAssumption DEF IInv, TypeOK
<1>1. CASE /\ os' = [os EXCEPT ![ProcOf[o]] = "NoLock"]
           /\ mode' = [mode EXCEPT ![o] = "NoLock"]
  <2>1. LockModeIsHeld'
    BY <1>1 DEF LockModeIsHeld, isLocked, OneObjectEach
  <2>2. KernelExclusion'
    BY <1>1 DEF KernelExclusion, Compatible
  <2> QED
    BY <2>1, <2>2
<1>2. CASE UNCHANGED <<os, mode>>
  BY <1>2 DEF LockModeIsHeld, isLocked, KernelExclusion
<1> QED
  BY <1>1, <1>2 DEF ReleaseLock

LEMMA IInvStep ==
    ASSUME OneObjectEach, ~CloseLocked, IInv, [Next]_vars, TypeOK'
    PROVE  IInv'
<1> USE ConstantsAssumption DEF IInv, TypeOK
<1>1. ASSUME NEW o \in Objects, NEW a \in {"ReadOnly", "ReadWrite"}, Open(o, a)
      PROVE  IInv'
  BY <1>1 DEF Open, LockModeIsHeld, isLocked, KernelExclusion, CallIsOpen
<1>2. ASSUME NEW o \in Objects, Close(o) PROVE IInv'
  <2>1. LockModeIsHeld'
    BY <1>2 DEF Close, LockModeIsHeld, isLocked, OneObjectEach
  <2>2. KernelExclusion'
    BY <1>2 DEF Close, KernelExclusion, Compatible
  <2>3. CallIsOpen'
    BY <1>2 DEF Close, CallIsOpen, Idle
  <2> QED
    BY <2>1, <2>2, <2>3
<1>3. ASSUME NEW o \in Objects, unlock(o) PROVE IInv'
  BY <1>3, ReleaseKeeps DEF unlock, CallIsOpen
<1>4. ASSUME NEW o \in Objects, NEW m \in {"ReadLock", "WriteLock"},
             NEW b \in BOOLEAN, lock(o, m, b)
      PROVE  IInv'
  <2>1. LockModeIsHeld' /\ KernelExclusion'
    <3>1. CASE isLocked(o)
      BY <1>4, <3>1, ReleaseKeeps DEF lock
    <3>2. CASE ~isLocked(o)
      <4>1. UNCHANGED <<os, mode, access>>
        BY <1>4, <3>2 DEF lock
      <4> QED
        BY <4>1 DEF LockModeIsHeld, isLocked, KernelExclusion
    <3> QED
      BY <3>1, <3>2
  <2>2. CallIsOpen'
    BY <1>4 DEF lock, CallIsOpen
  <2> QED
    BY <2>1, <2>2
<1>5. ASSUME NEW o \in Objects, LockGranted(o) PROVE IInv'
  <2>1. LockModeIsHeld'
    <3>1. \A q \in Objects : /\ access'[q] = access[q]
                             /\ mode'[q] = IF q = o THEN want[o] ELSE mode[q]
                             /\ os'[ProcOf[q]] = IF q = o THEN want[o] ELSE os[ProcOf[q]]
      BY <1>5 DEF LockGranted, OneObjectEach
    <3>2. access[o] # "Closed"
      BY <1>5 DEF LockGranted, CallIsOpen
    <3> QED
      BY <3>1, <3>2 DEF LockModeIsHeld, isLocked
  <2>2. KernelExclusion'
    BY <1>5 DEF LockGranted, Grantable, KernelExclusion, Compatible
  <2>3. CallIsOpen'
    BY <1>5 DEF LockGranted, CallIsOpen
  <2> QED
    BY <2>1, <2>2, <2>3
<1>6. ASSUME NEW o \in Objects, LockRefused(o) PROVE IInv'
  BY <1>6 DEF LockRefused, LockModeIsHeld, isLocked, KernelExclusion, CallIsOpen
<1>7. ASSUME NEW o \in Objects, Destroy(o) PROVE IInv'
  <2>1. LockModeIsHeld'
    BY <1>7 DEF Destroy, LockModeIsHeld, isLocked, OneObjectEach
  <2>2. KernelExclusion'
    BY <1>7 DEF Destroy, KernelExclusion, Compatible
  <2>3. CallIsOpen'
    BY <1>7 DEF Destroy, CallIsOpen, Idle
  <2> QED
    BY <2>1, <2>2, <2>3
<1>8. ASSUME NEW p \in Procs, Crash(p) PROVE IInv'
  <2>1. LockModeIsHeld'
    BY <1>8 DEF Crash, LockModeIsHeld, isLocked
  <2>2. KernelExclusion'
    BY <1>8 DEF Crash, KernelExclusion, Compatible
  <2>3. CallIsOpen'
    BY <1>8 DEF Crash, CallIsOpen
  <2> QED
    BY <2>1, <2>2, <2>3
<1>9. CASE UNCHANGED vars
  BY <1>9 DEF vars, LockModeIsHeld, isLocked, KernelExclusion, CallIsOpen
<1> QED
  BY <1>1, <1>2, <1>3, <1>4, <1>5, <1>6, <1>7, <1>8, <1>9 DEF Next

\* What the invariant gives: no cached mode stands against another one.
LEMMA IInvExcludes ==
    ASSUME OneObjectEach, IInv, NEW o \in Objects, NEW q \in Objects, o # q
    PROVE  Compatible(mode[o], mode[q])
<1>1. ProcOf[o] # ProcOf[q] /\ ProcOf[o] \in Procs /\ ProcOf[q] \in Procs
  BY ConstantsAssumption DEF OneObjectEach
<1>2. Compatible(os[ProcOf[o]], os[ProcOf[q]])
  BY <1>1 DEF IInv, KernelExclusion
<1> QED
  BY <1>2 DEF IInv, LockModeIsHeld, isLocked, Compatible

LEMMA Invariance == ASSUME OneObjectEach, ~CloseLocked PROVE Spec => []IInv
<1>1. Spec => []TypeOK
  BY TypeCorrect
<1>2. IInv /\ [Next]_vars /\ TypeOK' => IInv'
  BY IInvStep
<1> QED
  BY <1>1, <1>2, IInvInit, PTL DEF Spec

(* lockMode() and isLocked() are the truth about the kernel's lock.        *)
THEOREM LockModeCorrect ==
    ASSUME OneObjectEach, ~CloseLocked PROVE Spec => []LockModeIsHeld
<1>1. IInv => LockModeIsHeld
  BY DEF IInv
<1> QED
  BY <1>1, Invariance, PTL

(* A write lock excludes every other lock on the file.                     *)
THEOREM Exclusion ==
    ASSUME OneObjectEach, ~CloseLocked PROVE Spec => []MutualExclusion
<1>1. IInv => MutualExclusion
  BY IInvExcludes
     DEF MutualExclusion, AL!MutualExclusion, Compatible, AL!Compatible
<1> QED
  BY <1>1, Invariance, PTL

-----------------------------------------------------------------------------
\* A step of the objects is a step of the abstract lock, or none.
LEMMA StepRefines ==
    ASSUME OneObjectEach, ~CloseLocked, IInv, [Next]_vars
    PROVE  [AL!Next]_mode
<1> USE ConstantsAssumption DEF IInv, TypeOK
<1>1. ASSUME NEW o \in Objects, ReleaseLock(o) PROVE [AL!Next]_mode
  <2>1. CASE mode' = [mode EXCEPT ![o] = "NoLock"]
    <3>1. AL!Release({o})
      BY <2>1 DEF AL!Release
    <3> QED
      BY <3>1 DEF AL!Next
  <2> QED
    BY <1>1, <2>1 DEF ReleaseLock
<1>2. ASSUME NEW o \in Objects, unlock(o) PROVE [AL!Next]_mode
  BY <1>1, <1>2 DEF unlock
<1>3. ASSUME NEW o \in Objects, NEW m \in {"ReadLock", "WriteLock"},
             NEW b \in BOOLEAN, lock(o, m, b)
      PROVE  [AL!Next]_mode
  BY <1>1, <1>3 DEF lock
<1>4. ASSUME NEW o \in Objects, LockGranted(o) PROVE [AL!Next]_mode
  <2>1. want[o] \in {"ReadLock", "WriteLock"}
    BY <1>4 DEF LockGranted, LockMode
  <2>2. ASSUME NEW q \in Objects \ {o} PROVE AL!Compatible(want[o], mode[q])
    <3>1. Compatible(want[o], os[ProcOf[q]])
      BY <1>4 DEF LockGranted, Grantable, OneObjectEach
    <3> QED
      BY <3>1 DEF LockModeIsHeld, isLocked, Compatible, AL!Compatible
  <2>3. AL!Acquire(o, want[o])
    BY <1>4, <2>2 DEF AL!Acquire, LockGranted
  <2> QED
    BY <2>1, <2>3 DEF AL!Next
<1>5. ASSUME NEW o \in Objects, Destroy(o) PROVE [AL!Next]_mode
  <2>1. AL!Release({o})
    BY <1>5 DEF Destroy, AL!Release
  <2> QED
    BY <2>1 DEF AL!Next
<1>6. ASSUME NEW p \in Procs, Crash(p) PROVE [AL!Next]_mode
  <2> DEFINE S == {o \in Objects : ProcOf[o] = p}
  <2>1. AL!Release(S)
    BY <1>6 DEF Crash, AL!Release
  <2>2. S \in SUBSET Objects
    OBVIOUS
  <2> QED
    BY <2>1, <2>2 DEF AL!Next
<1>7. CASE UNCHANGED mode
  BY <1>7
<1> QED
  BY <1>2, <1>3, <1>4, <1>5, <1>6, <1>7
     DEF Next, Open, Close, LockRefused, vars

(* The objects together implement the abstract advisory lock.              *)
THEOREM Refinement ==
    ASSUME OneObjectEach, ~CloseLocked PROVE Spec => ImplementsAdvisoryLock
<1>1. Init => AL!Init
  BY DEF Init, AL!Init
<1>2. IInv /\ [Next]_vars => [AL!Next]_mode
  BY StepRefines
<1> QED
  BY <1>1, <1>2, Invariance, PTL DEF Spec, ImplementsAdvisoryLock, AL!Spec

-----------------------------------------------------------------------------
\* No lock is lost track of, and no call waits with a closed file.
OrphanInv == TypeOK /\ NoOrphanLock /\ CallIsOpen

LEMMA OrphanInvStep ==
    ASSUME OrphanInv, [Next]_vars, TypeOK'
    PROVE  OrphanInv'
<1> USE ConstantsAssumption DEF OrphanInv, TypeOK
<1>1. ASSUME NEW o \in Objects, NEW a \in {"ReadOnly", "ReadWrite"}, Open(o, a)
      PROVE  OrphanInv'
  BY <1>1 DEF Open, NoOrphanLock, CallIsOpen
<1>2. ASSUME NEW o \in Objects, Close(o) PROVE OrphanInv'
  <2>1. NoOrphanLock'
    BY <1>2 DEF Close, NoOrphanLock
  <2>2. CallIsOpen'
    BY <1>2 DEF Close, CallIsOpen, Idle
  <2> QED
    BY <2>1, <2>2
<1>3. ASSUME NEW o \in Objects, ReleaseLock(o), UNCHANGED access
      PROVE  NoOrphanLock'
  BY <1>3 DEF ReleaseLock, NoOrphanLock
<1>4. ASSUME NEW o \in Objects, unlock(o) PROVE OrphanInv'
  BY <1>3, <1>4 DEF unlock, CallIsOpen
<1>5. ASSUME NEW o \in Objects, NEW m \in {"ReadLock", "WriteLock"},
             NEW b \in BOOLEAN, lock(o, m, b)
      PROVE  OrphanInv'
  <2>1. NoOrphanLock'
    BY <1>3, <1>5 DEF lock, NoOrphanLock
  <2>2. CallIsOpen'
    BY <1>5 DEF lock, CallIsOpen
  <2> QED
    BY <2>1, <2>2
<1>6. ASSUME NEW o \in Objects, LockGranted(o) PROVE OrphanInv'
  <2>1. access[o] # "Closed"
    BY <1>6 DEF LockGranted, CallIsOpen
  <2>2. NoOrphanLock'
    BY <1>6, <2>1 DEF LockGranted, NoOrphanLock
  <2>3. CallIsOpen'
    BY <1>6 DEF LockGranted, CallIsOpen
  <2> QED
    BY <2>2, <2>3
<1>7. ASSUME NEW o \in Objects, LockRefused(o) PROVE OrphanInv'
  BY <1>7 DEF LockRefused, NoOrphanLock, CallIsOpen
<1>8. ASSUME NEW o \in Objects, Destroy(o) PROVE OrphanInv'
  <2>1. NoOrphanLock'
    BY <1>8 DEF Destroy, NoOrphanLock
  <2>2. CallIsOpen'
    BY <1>8 DEF Destroy, CallIsOpen, Idle
  <2> QED
    BY <2>1, <2>2
<1>9. ASSUME NEW p \in Procs, Crash(p) PROVE OrphanInv'
  <2>1. NoOrphanLock'
    BY <1>9 DEF Crash, NoOrphanLock
  <2>2. CallIsOpen'
    BY <1>9 DEF Crash, CallIsOpen
  <2> QED
    BY <2>1, <2>2
<1>10. CASE UNCHANGED vars
  BY <1>10 DEF vars, NoOrphanLock, CallIsOpen
<1> QED
  BY <1>1, <1>2, <1>4, <1>5, <1>6, <1>7, <1>8, <1>9, <1>10 DEF Next

LEMMA OrphanInvAlways == Spec => []OrphanInv
<1>1. Init => OrphanInv
  BY ConstantsAssumption
     DEF Init, OrphanInv, TypeOK, LockMode, NoOrphanLock, CallIsOpen
<1>2. OrphanInv /\ [Next]_vars /\ TypeOK' => OrphanInv'
  BY OrphanInvStep
<1> QED
  BY <1>1, <1>2, TypeCorrect, PTL DEF Spec

(* A lock the kernel holds is known to an open object that can release it: *)
(* in every configuration, with several objects in a process and files     *)
(* that are closed while they are locked as well.                          *)
THEOREM NoLockIsOrphaned == Spec => []NoOrphanLock
<1>1. OrphanInv => NoOrphanLock
  BY DEF OrphanInv
<1> QED
  BY <1>1, OrphanInvAlways, PTL

-----------------------------------------------------------------------------
\* A process that waits for a lock has none.
WaitsWithoutLock == \A o \in Objects : want[o] # "NoLock" => os[ProcOf[o]] = "NoLock"

LEMMA WaitsWithoutLockStep ==
    ASSUME OneObjectEach, "unlock" \notin FcntlErrors,
           OrphanInv, WaitsWithoutLock, [Next]_vars
    PROVE  WaitsWithoutLock'
<1> USE ConstantsAssumption DEF OrphanInv, TypeOK
<1>1. ASSUME NEW o \in Objects, NEW a \in {"ReadOnly", "ReadWrite"}, Open(o, a)
      PROVE  WaitsWithoutLock'
  BY <1>1 DEF Open, WaitsWithoutLock
<1>2. ASSUME NEW o \in Objects, Close(o) PROVE WaitsWithoutLock'
  BY <1>2 DEF Close, WaitsWithoutLock
<1>3. ASSUME NEW o \in Objects, unlock(o) PROVE WaitsWithoutLock'
  BY <1>3 DEF unlock, ReleaseLock, WaitsWithoutLock
<1>4. ASSUME NEW o \in Objects, NEW m \in {"ReadLock", "WriteLock"},
             NEW b \in BOOLEAN, lock(o, m, b)
      PROVE  WaitsWithoutLock'
  <2>1. os'[ProcOf[o]] = "NoLock"
    <3>1. CASE isLocked(o)
      BY <1>4, <3>1 DEF lock, ReleaseLock
    <3>2. CASE ~isLocked(o)
      BY <1>4, <3>2 DEF lock, isLocked, NoOrphanLock, OneObjectEach
    <3> QED
      BY <3>1, <3>2
  <2>2. \A p \in Procs : os[p] = "NoLock" => os'[p] = "NoLock"
    BY <1>4 DEF lock, ReleaseLock
  <2> QED
    BY <1>4, <2>1, <2>2 DEF lock, WaitsWithoutLock
<1>5. ASSUME NEW o \in Objects, LockGranted(o) PROVE WaitsWithoutLock'
  BY <1>5 DEF LockGranted, WaitsWithoutLock, OneObjectEach
<1>6. ASSUME NEW o \in Objects, LockRefused(o) PROVE WaitsWithoutLock'
  BY <1>6 DEF LockRefused, WaitsWithoutLock
<1>7. ASSUME NEW o \in Objects, Destroy(o) PROVE WaitsWithoutLock'
  BY <1>7 DEF Destroy, WaitsWithoutLock
<1>8. ASSUME NEW p \in Procs, Crash(p) PROVE WaitsWithoutLock'
  BY <1>8 DEF Crash, WaitsWithoutLock
<1>9. CASE UNCHANGED vars
  BY <1>9 DEF vars, WaitsWithoutLock
<1> QED
  BY <1>1, <1>2, <1>3, <1>4, <1>5, <1>6, <1>7, <1>8, <1>9 DEF Next

(* Two callers never wait for each other, as long as fcntl() does not fail *)
(* to unlock: who waits has given up what the others could wait for.       *)
THEOREM UpgradesDoNotDeadlock ==
    ASSUME OneObjectEach, "unlock" \notin FcntlErrors
    PROVE  Spec => []NoUpgradeDeadlock
<1>1. Init => WaitsWithoutLock
  BY DEF Init, WaitsWithoutLock
<1>2. OrphanInv /\ WaitsWithoutLock /\ [Next]_vars => WaitsWithoutLock'
  BY WaitsWithoutLockStep
<1>3. WaitsWithoutLock => NoUpgradeDeadlock
  BY DEF WaitsWithoutLock, NoUpgradeDeadlock, WaitsFor, Compatible
<1> QED
  BY <1>1, <1>2, <1>3, OrphanInvAlways, PTL DEF Spec
=============================================================================

\* Three processes, one object each; fcntl may fail to lock; no object is
\* closed while it is locked.
SPECIFICATION Spec
CONSTANTS
  p1 = p1  p2 = p2  p3 = p3
  o1 = o1  o2 = o2  o3 = o3
  Procs = {p1, p2, p3}
  Objects = {o1, o2, o3}
  ProcOf <- OneEach
  FcntlErrors = {"lock"}
  CloseLocked = FALSE
INVARIANTS LockModeIsHeld NoOrphanLock NoUpgradeDeadlock
PROPERTY ImplementsAdvisoryLock

\* Three objects and two reader mutexes, no kernel errors.
SPECIFICATION FairSpec
CONSTANTS
  o1 = o1  o2 = o2  o3 = o3
  Objects = {o1, o2, o3}
  MaxReaders = 2
  CreateErrors = FALSE
  OpenErrors = FALSE
INVARIANTS MutexesFollowMode
PROPERTIES ImplementsAdvisoryLock BlockingLockObtains LockReturns

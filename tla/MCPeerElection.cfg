\* Three processes; instances exit or crash at any point, files do not open
\* and the servers of two of them may not listen.
SPECIFICATION FairElection
CONSTANTS
  p1 = p1  p2 = p2  p3 = p3
  Procs = {p1, p2, p3}
  OpenFails = TRUE
  ListenErrors = {p2, p3}
INVARIANTS OneRunningInstance NobodyElseReached
PROPERTIES CutOffByExitOnly RoleBecomesReachable

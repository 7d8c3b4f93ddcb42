\* Two processes and two clients, whose starts overlap as they like with one
\* another and with exits.
SPECIFICATION FairSpec
CONSTANTS
  p1 = p1  p2 = p2  c1 = c1  c2 = c2
  Procs = {p1, p2}
  Clients = {c1, c2}
  FlagSets = {{}}
INVARIANTS PathFollowsService
PROPERTIES StartTakesOver CommandsComplete

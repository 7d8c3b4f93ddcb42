\* Everything may time out or crash; no client pauses for 2 s in mid-message.
\* The system stops when all sends are done.
SPECIFICATION FairSpec
CONSTANTS
  c1 = c1  c2 = c2
  Clients = {c1, c2}
  MaxSends <- Sends
  Backlog = 2
  GivesUp = TRUE
  Stalls = FALSE
  ServerCrash = TRUE
  ClientCrash = TRUE
INVARIANTS TrueMeansDelivered CutOnlyIfAbandoned InOrder
PROPERTIES CallsReturn
CHECK_DEADLOCK FALSE

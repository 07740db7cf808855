SPECIFICATION FairSpec
CONSTANTS
  c1 = c1
  c2 = c2
  Clients = {c1, c2}
  NoClient = NoClient
  MaxFaults = 2
INVARIANT NoOrphans
INVARIANT PendingIsOpen
INVARIANT LoopIsEngines
PROPERTY StaleGone
CHECK_DEADLOCK FALSE

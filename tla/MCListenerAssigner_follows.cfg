SPECIFICATION FullFairSpec
CONSTANTS
  loop = loop
  request = request
  w1 = w1
  Tasks = {loop, request}
  Loop = loop
  Workers = {w1}
  Groups = {1, 2}
  Accounts = {1, 2}
  MaxGroups = 1
  Faults = TRUE
  MaxEvents = 3
INVARIANT RolesFitMap
PROPERTY FairShares
PROPERTY ListenersSticky
PROPERTY TargetsArrive
PROPERTY MapFollows
CHECK_DEADLOCK FALSE

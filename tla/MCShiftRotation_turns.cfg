SPECIFICATION FairSpec
CONSTANTS
  Workers = {1, 2, 3}
  Requests = {r1, r2}
  Loop = Loop
  ShiftLen = 1
  BeatEvery = 1
  Timeout = 2
  Connects = {TRUE, FALSE}
  MaxEvents = 3
INVARIANT TypeOK
INVARIANT StopStopsLoop
PROPERTY RoleSettles
PROPERTY TurnsForAll

SPECIFICATION FairSpec
CONSTANTS
  w1 = w1
  w2 = w2
  m1 = m1
  Workers = {w1, w2}
  Default = w1
  Msgs = {m1}
  MaxRetries = 1
  MaxFaults = 3
  NoJob = NoJob
INVARIANT CopiesBound
INVARIANT LossNeedsFault
PROPERTY QueuesDrain
CHECK_DEADLOCK FALSE

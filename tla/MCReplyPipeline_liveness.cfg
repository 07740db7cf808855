SPECIFICATION FairSpec
CONSTANTS
  w1 = w1
  w2 = w2
  g1 = g1
  g2 = g2
  m1 = m1
  m2 = m2
  m3 = m3
  Workers = {w1, w2}
  Msgs = {m1}
  Chats = {g1}
  Sessions = {1}
  ChatOf <- OneGroup
  InThread = {m1}
  Assignments <- LonePair
  MaxRetries = 1
  MaxConsecutive = 1
  MaxConcurrentReplies = 1
  MaxDisturbances = 1
  NoJob = NoJob
PROPERTY JobsFinish

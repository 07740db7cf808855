SPECIFICATION FairSpec
CONSTANTS
  w1 = w1
  w2 = w2
  g1 = g1
  m1 = m1
  m2 = m2
  j1 = j1
  j2 = j2
  j3 = j3
  a1 = a1
  NoAcc = NoAcc
  Workers = {w1, w2}
  Msgs = {m1}
  Jobs = {j1, j2}
  Chats = {g1}
  Sessions = {a1}
  MsgOf <- TwoOfTheFirst
  ChatOf <- OneGroup
  InThread = {j1, j2}
  Pair <- OneAccount
  MaxConsecutive = 1
  MaxConcurrentReplies = 1
  MaxDisturbances = 2
INVARIANT TypeOK
INVARIANT OnePlace
INVARIANT SecondAnswerNeedsFault
INVARIANT KeepsTwoFifths
PROPERTY KeepsPromise
PROPERTY JobsFinish
CHECK_DEADLOCK FALSE

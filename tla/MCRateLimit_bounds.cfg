SPECIFICATION RateFairSpec
CONSTANTS
  Threads = {t1, t2, t3}
  Limit = 3
  WindowLen = 3
  MaxRateFaults = 2
  NoTTL = NoTTL
INVARIANT WindowBound
INVARIANT SlidingBound
PROPERTY LimitLifts

INIT FullInit
NEXT Next
CONSTANTS
  w1 = w1
  w2 = w2
  api = api
  start = start
  Workers = {w1}
  Callers = {api, start}
  Api = api
  AssignsFor <- Assigners
  Groups = {1, 2}
  Sessions = {1, 2, 3}
  MaxChanges = 2
INVARIANT TypeOK
INVARIANT PublishedDisjoint
PROPERTY StickyPairs

SPECIFICATION FairSpec
CONSTANTS
  a1 = a1
  a2 = a2
  g1 = g1
  g2 = g2
  NoAcc = NoAcc
  Groups = {g1, g2}
  Accounts = {a1, a2}
  Maps <- TwoGroups
  MaxEvents = 4
INVARIANT OneHandler
INVARIANT HearsItsTargets
PROPERTY EveryGroupHeard
PROPERTY OwnersDisjoint
PROPERTY RepliersKnown
CHECK_DEADLOCK FALSE

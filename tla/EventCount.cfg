SPECIFICATION FairSpec
CONSTANTS
  Waiters = {w1, w2}
  Notifiers = {n1, n2}
  MaxCalls = 2
  EpochMod = 3
  Empty = Empty
INVARIANTS
  CheckState
  ParkedAreReachable
PROPERTIES
  EveryItemTaken
  ImplementsWaitSet
CHECK_DEADLOCK FALSE

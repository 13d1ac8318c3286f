SPECIFICATION Spec
CONSTANTS
  Threads <- MCThreads
  Values <- MCValues
  Client = client
  Outside = outside
  Workers = {w1, w2}
  Awaited <- AwaitXE
  Depends <- DependsAll
  ClientItems = {"x", "y"}
  OutsideItems = {"z", "e"}
  Blocking = {"y"}
  Foreign <- ForeignAlways
  Kinds = {"single"}
  NULL = NULL
INVARIANTS
  AwaitBlocksUntilAvailable
CHECK_DEADLOCK FALSE

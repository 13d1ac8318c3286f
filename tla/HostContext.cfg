SPECIFICATION FairSpec
CONSTANTS
  Threads <- MCThreads
  Values <- MCValues
  Client = client
  Outside = outside
  Workers = {w1, w2}
  Awaited <- AwaitXE
  Depends <- DependsAll
  ClientItems = {"x", "y"}
  OutsideItems = {"z", "e"}
  Blocking = {"y"}
  Foreign <- ForeignOverWorkers
  Kinds = {"single", "multi"}
  NULL = NULL
INVARIANTS
  RunWhenReadyOnce
  AwaitOutlivesClosures
  ItemsInOrder
PROPERTIES
  CallsReturn

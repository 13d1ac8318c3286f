SPECIFICATION FairSpec
CONSTANTS
  Workers = {w1, w2}
  Main = main
  kCapacity = 2
  kMaxSpinningThreads = 1
  kMinActiveThreadsToStartSpinning = 1
  MaxTasks = 2
  MaxQuiesce = 1
  MayCancel = TRUE
INVARIANTS
  CountersMatchWorkers
  NoSleepOverWork
  DrainedWhenDestroyed
PROPERTIES
  CallsReturn
CHECK_DEADLOCK FALSE

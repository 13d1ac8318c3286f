SPECIFICATION FairSpec
CONSTANTS
  Workers = {w1, w2}
  Main = main
  Coroutines <- TaskNumbers
  kCapacity = 1
  NULL = NULL
  MaxTasks = 3
  MaxSchedules = 2
INVARIANTS
  NoUseAfterFree
  ResultOfAll
PROPERTIES
  Terminates

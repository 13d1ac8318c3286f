SPECIFICATION FairSpec
CONSTANTS
  Awaiters = {a1, a2, a3}
  WhenReady = {a3}
  MaxSuspends = 1
  notStartedValue = notStartedValue
  valueReadyValue = valueReadyValue
  NULL = NULL
INVARIANTS
  NoUseAfterFree
PROPERTIES
  ImplementsFuture
  EveryAwaiterResumes

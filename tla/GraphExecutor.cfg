SPECIFICATION FairSpec
CONSTANTS
  Kernels <- MCKernels
  Values <- MCValues
  Plans <- MCPlans
  Requests <- MCRequests
  Caller = caller
  NULL = null
  FirstStates = {"kConcrete", "kError"}
  MayReleaseEarly = FALSE
INVARIANTS
  KernelsRunWhenReady
  LifetimesExact
  BuiltAsDescribed
PROPERTIES
  Completes

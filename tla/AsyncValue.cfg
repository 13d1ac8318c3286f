SPECIFICATION FairSpec
CONSTANTS
  Callers = {c1, c2, c3}
  Capturing = {c1}
  Resolver = r
  NULL = NULL
INVARIANTS
  TypeOK
  CalledOnceWhenAvailable
  NoWaiterLost
  LifetimeExact
  NoFreedNode
PROPERTIES
  ImplementsFuture

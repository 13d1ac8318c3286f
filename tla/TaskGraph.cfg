SPECIFICATION FairSpec
CONSTANTS
  N = 4
  Nodes <- MCNodes
  Graphs <- MCGraphs
  Caller = caller
INVARIANTS
  TypeOK
  RunsOnceInOrder
  FinishMeansAllRan
  AliveWhileUsed
PROPERTIES
  Completes

SPECIFICATION FairSpec
CONSTANTS
  Tasks = {t1, t2, t3}
  Dynamic = {d1, d2}
  Main = main
  kCapacity = 1
  MaxQuiesce = 1
INVARIANTS
  TransferBounded
PROPERTIES
  QuiescedMeansEmpty
  CallsComplete

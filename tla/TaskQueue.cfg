SPECIFICATION Spec
CONSTANTS
  Threads = {t1, t2}
  kCapacity = 4
  IndexMod = 8
  Start = 5
  MaxPush = 7
SYMMETRY Symmetry
INVARIANTS
  FirstInFirstOut
  SizeNeverSmaller

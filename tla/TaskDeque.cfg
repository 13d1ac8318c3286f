SPECIFICATION Spec
CONSTANTS
  Owner = owner
  Thieves = {t1, t2}
  kCapacity = 4
  CounterMod = 16
  BackOps = {"PopBack", "PopBackHalf"}
  MaxPush = 3
  Nobody = Nobody
SYMMETRY Symmetry
INVARIANTS
  DequeIntact
  NoFalseEmpty
CHECK_DEADLOCK FALSE

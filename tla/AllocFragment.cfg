SPECIFICATION Spec
CONSTANTS
  Thread = {t1}
  Memory = 6
  SlabSize = 3
  Small = {1}
  Large = {2}
  PoolCap = 3
  MaxSlabs = 2
SYMMETRY ThreadSymmetry
INVARIANT OwnedIsMapped
CHECK_DEADLOCK FALSE

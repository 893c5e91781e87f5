SPECIFICATION Spec
CONSTANTS
  Thread = {t1, t2}
  Memory = 4
  SlabSize = 2
  Small = {1}
  Large = {2}
  PoolCap = 2
  MaxSlabs = 2
SYMMETRY ThreadSymmetry
CONSTRAINT Intact
INVARIANTS NoDoubleBooking NoneLeaked CachedWithinPool
PROPERTY LiveSurvives
CHECK_DEADLOCK FALSE

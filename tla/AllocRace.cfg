\* Two threads: empty_cache unmaps by a stale copy of live.  With NoneLeakedEver
\* for OwnedIsMapped: the pool mode loses a block freed after the copy.
SPECIFICATION Spec
CONSTANTS
  Thread = {t1, t2}
  Memory = 5
  SlabSize = 2
  Small = {1}
  Large = {3}
  PoolCap = 3
  MaxSlabs = 2
SYMMETRY ThreadSymmetry
INVARIANT OwnedIsMapped
CHECK_DEADLOCK FALSE

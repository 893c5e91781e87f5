SPECIFICATION Spec
CONSTANTS
  Block = {b1, b2}
  Value = {v1, v2}
  None = None
  Forms = {"packed"}
SYMMETRY DataSymmetry
INVARIANT LatestIsPromoted

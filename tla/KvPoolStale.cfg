SPECIFICATION Spec
CONSTANTS
  r1 = r1
  r2 = r2
  r3 = r3
  Req = {r1, r2, r3}
  NoReq = NoReq
  NoCopy = NoCopy
  Block = {b1, b2, b3}
  Prompt <- PromptsDisjoint
  BlockSize = 2
  MaxNew = 1
  Session = {}
  Radix = FALSE
  Spill = TRUE
  CanReset = FALSE
  Chunked = FALSE
SYMMETRY BlockSymmetry
INVARIANT LiveContent
CHECK_DEADLOCK FALSE

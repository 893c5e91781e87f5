SPECIFICATION Spec
CONSTANTS
  r1 = r1
  r2 = r2
  r3 = r3
  Req = {r1, r2, r3}
  NoReq = NoReq
  NoCopy = NoCopy
  Block = {b1, b2, b3, b4, b5}
  Prompt <- PromptsShared
  BlockSize = 2
  MaxNew = 1
  Session = {}
  Radix = TRUE
  Spill = FALSE
  CanReset = TRUE
  Chunked = TRUE
SYMMETRY BlockSymmetry
INVARIANT LiveContent

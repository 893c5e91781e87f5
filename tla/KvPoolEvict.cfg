SPECIFICATION Spec
CONSTANTS
  r1 = r1
  r2 = r2
  r3 = r3
  Req = {r1, r2, r3}
  NoReq = NoReq
  NoCopy = NoCopy
  Block = {b1, b2, b3, b4}
  Prompt <- PromptsDisjoint
  BlockSize = 2
  MaxNew = 1
  Session = {r1, r2}
  Radix = TRUE
  Spill = FALSE
  CanReset = TRUE
  Chunked = TRUE
SYMMETRY BlockSymmetry
INVARIANTS TypeOK MapLeadsToNode FreeIsUnused NoStrandedBlock
PROPERTIES FailsOnlyWhenFull PinnedIsKept

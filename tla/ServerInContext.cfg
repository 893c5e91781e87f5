SPECIFICATION Spec
CONSTANTS
  r1 = r1
  r2 = r2
  Requests = {r1, r2}
  Kinds = {"chatStream"}
  MaxQueue = 2
  MaxTokens = 2
  Chunks = 1
  Faults = {}
INVARIANTS InContext
CHECK_DEADLOCK FALSE

SPECIFICATION Spec
CONSTANTS
  r1 = r1
  Requests = {r1}
  Kinds = {"chatStream"}
  MaxQueue = 2
  MaxTokens = 2
  Chunks = 1
  Faults = {"disconnect"}
INVARIANTS NoGhost
CHECK_DEADLOCK FALSE

SPECIFICATION FairSpec
CONSTANTS
  r1 = r1
  r2 = r2
  Requests = {r1, r2}
  Kinds = {"chatStream", "textStream"}
  MaxQueue = 1
  MaxTokens = 2
  Chunks = 1
  Faults = {"tick", "cancel"}
PROPERTIES CancelEnds EndsOrRepeats
CHECK_DEADLOCK FALSE

SPECIFICATION FairSpec
CONSTANTS
  NumBlocks = 1
  NumLayers = 1
  Passes = 2
  MaxAttempts = 2
  Backlog = 2
  Timeout = 1
  Protocols = {"tcp", "shm"}
  Rooms = {0, 1}
  Faults = {"unreachable", "refuse", "corrupt", "late", "stop"}
INVARIANTS OkMeansStored
PROPERTIES NoStaleStore FailsOver HandoffEnds

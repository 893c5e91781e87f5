SPECIFICATION FairSpec
CONSTANTS
  NumBlocks = 1
  NumLayers = 1
  Passes = 1
  MaxAttempts = 1
  Backlog = 2
  Timeout = 1
  Protocols = {"tcp"}
  Rooms = {1}
  Faults = {"unreachable"}
PROPERTIES Recovers

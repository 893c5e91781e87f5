SPECIFICATION Spec
CONSTANTS
  r1 = r1
  r2 = r2
  Requests = {r1, r2}
  Kinds = {"chatStream", "chat", "textStream", "text"}
  MaxQueue = 1
  MaxTokens = 2
  Chunks = 1
  Faults = {"invalid", "disconnect", "timeout", "tick", "refuse", "cancel", "shutdown"}
INVARIANTS AdmissionHolds TicketOfHandler NothingLeft OnlyDisturbedAreWrong
SYMMETRY Symmetry
CHECK_DEADLOCK FALSE

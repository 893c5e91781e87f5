SPECIFICATION Spec
CONSTANTS
  Req = {1, 2, 3}
  Prompt <- PromptsLonger
  Priority <- PriorityEqual
  MaxBatchedTokens = 4
  MaxNumSeqs = 3
  MaxWaiting = 10
  ChunkedPrefillSize = 1
  TargetTtft = 0
  Strict = FALSE
  KvPressure = {TRUE, FALSE}
  CanPause = FALSE
INVARIANTS OneRunningEntry NoneLost
PROPERTY FinishedStaysOut

SPECIFICATION Spec
CONSTANTS
  Req = {1, 2, 3}
  Prompt <- PromptsLonger
  Priority <- PriorityEqual
  MaxBatchedTokens = 3
  MaxNumSeqs = 2
  MaxWaiting = 10
  ChunkedPrefillSize = 1
  TargetTtft = 0
  Strict = FALSE
  KvPressure = {TRUE, FALSE}
  CanPause = FALSE
INVARIANT NoneLost

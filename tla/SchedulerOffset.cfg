SPECIFICATION Spec
CONSTANTS
  Req = {1, 2, 3}
  Prompt <- PromptsLong
  Priority <- PriorityEqual
  MaxBatchedTokens = 3
  MaxNumSeqs = 3
  MaxWaiting = 10
  ChunkedPrefillSize = 1
  TargetTtft = 0
  Strict = FALSE
  KvPressure = {TRUE, FALSE}
  CanPause = FALSE
PROPERTY TrueOffset

SPECIFICATION Spec
CONSTANTS
  Req = {1, 2, 3}
  Prompt <- PromptsMixed
  Priority <- PriorityEqual
  MaxBatchedTokens = 10
  MaxNumSeqs = 2
  MaxWaiting = 10
  ChunkedPrefillSize = 1
  TargetTtft = 0
  Strict = FALSE
  KvPressure = {FALSE}
  CanPause = FALSE
PROPERTY FinishedForGood

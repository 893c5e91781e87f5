SPECIFICATION FairSpec
CONSTANTS
  Req = {1, 2, 3}
  Prompt <- PromptsMixed
  Priority <- PriorityEqual
  MaxBatchedTokens = 3
  MaxNumSeqs = 3
  MaxWaiting = 10
  ChunkedPrefillSize = 1
  TargetTtft = 0
  Strict = TRUE
  KvPressure = {TRUE, FALSE}
  CanPause = FALSE
INVARIANTS DecodeAfterPrefill
PROPERTIES Served TrueOffset

SPECIFICATION Spec
CONSTANTS
  Req = {1, 2, 3}
  Prompt <- PromptsLong
  Priority <- PriorityMixed
  MaxBatchedTokens = 3
  MaxNumSeqs = 2
  MaxWaiting = 10
  ChunkedPrefillSize = 1
  TargetTtft = 13
  Strict = FALSE
  KvPressure = {TRUE, FALSE}
  CanPause = FALSE
INVARIANTS NoneLost SeqLimit DecodeAfterPrefill
PROPERTIES TrueOffset

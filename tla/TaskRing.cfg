SPECIFICATION FairSpec
CONSTANTS
  Cap = 2
  StepNodes = 2
  MaxNodes = 4
  WaveIdle = 2
  HostIdle = 3
  WaitSpins = 4
  Gaps = {0, 1, 3}
  Reuse = FALSE
  Abort = {TRUE}
INVARIANTS VerifiedMeansRan OneWave BuffersOutliveWave NoStrandedNode
PROPERTY StepEnds
CHECK_DEADLOCK FALSE

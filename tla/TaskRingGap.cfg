SPECIFICATION Spec
CONSTANTS
  Cap = 2
  StepNodes = 2
  MaxNodes = 4
  WaveIdle = 2
  HostIdle = 3
  WaitSpins = 4
  Gaps = {0, 1, 2, 3}
  Reuse = FALSE
  Abort = {}
INVARIANT NoStrandedNode
CHECK_DEADLOCK FALSE

CONSTANTS
  Capacity = 2
  MaxLines = 6
  RollSize = 2
  FlushInterval = 1
  CheckTimeRoll = 0
  RollPerSeconds = 2
  StdioSize = 1
  Seconds = {1, 2}
SPECIFICATION Spec
INVARIANT AssertsHold
CHECK_DEADLOCK FALSE

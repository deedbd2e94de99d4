CONSTANTS
  Capacity = 2
  MaxLines = 4
  RollSize = 2
  FlushInterval = 0
  CheckTimeRoll = 0
  RollPerSeconds = 2
  StdioSize = 1
  Seconds = {1, 2, 3}
SPECIFICATION FairSpec
INVARIANTS InOrderOnce AssertsHold RollsInTime NeverDoubled
PROPERTIES EventuallyWritten StopReturns
CHECK_DEADLOCK FALSE

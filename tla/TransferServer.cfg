CONSTANTS
  NumThreads = 1
  MaxConns = 2
  MaxPending = 0
SPECIFICATION AppFairSpec
INVARIANT AppChannelsAlive
PROPERTY RemovedIsReleased
CHECK_DEADLOCK FALSE

CONSTANTS
  NumThreads = 0
  MaxConns = 2
  MaxPending = 3
SPECIFICATION AppSpec
INVARIANT NoAbort
CHECK_DEADLOCK FALSE

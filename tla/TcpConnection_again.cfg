CONSTANTS
  Threads = {t1}
  MsgSize = 2
  Room = 2
  MaxMsgs = 2
SPECIFICATION Spec
INVARIANT NoAssertFails
CHECK_DEADLOCK FALSE

CONSTANTS
  Threads = {t1, t2}
  MsgSize = 2
  Room = 3
  MaxMsgs = 2
SPECIFICATION FairSpec
INVARIANTS TypeOK InOrder WritingIffOutput FinIsLast
PROPERTY ShutdownCompletes
CHECK_DEADLOCK FALSE

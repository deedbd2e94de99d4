CONSTANTS
  Threads = {io, t1, t2}
  LoopThread = io
  Functors = {f1, f2, f3}
  Channels = {c1}
  WakeupChannel = wake
SPECIFICATION FairSpec
INVARIANTS TypeOK NoLostWakeup
PROPERTIES IsFairExecutor QuitReturns

CONSTANTS
  NumThreads = 2
  MaxConns = 3
SPECIFICATION FairSpec
INVARIANTS TypeOK NoAbort ChannelsAlive OneWayDown LoopsReady
PROPERTIES ClosedIsReleased StartCompletes

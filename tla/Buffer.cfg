CONSTANTS
  Byte = {0, 1}
  Nul = 0
  kCheapPrepend = 2
  kInitialSize = 1
  ExtraSize = 2
  MaxReadable = 3
SPECIFICATION Spec
INVARIANTS TypeOK NoAssertFails MemoryBounded
PROPERTY IsByteQueue

CONSTANTS
  Threads = {1, 2}
  Seconds = {1, 2}
  Bits = 16
  Lengths = {3958, 3959}
  MaxPieces = 2
SPECIFICATION Spec
INVARIANTS ShowsItsSecond NumeralsRight LineInBuffer

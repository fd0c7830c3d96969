CONSTANTS
  BufSize = 4
  Waits = 2
  Latencies <- MCTimely
  Lossy = FALSE
  FlashSize = 8
  Offsets <- MCOffsets
  Lengths <- MCLengths
  MaxOps = 1

SPECIFICATION Spec

INVARIANT BufferAccessInBounds

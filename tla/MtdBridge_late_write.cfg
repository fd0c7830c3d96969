CONSTANTS
  BufSize = 4
  Waits = 2
  Latencies <- MCLate
  Lossy = FALSE
  FlashSize = 8
  Offsets <- MCOffsets
  Lengths <- MCLengths
  MaxOps = 2

SPECIFICATION Spec

INVARIANT FlashBytesAtTheirAddress

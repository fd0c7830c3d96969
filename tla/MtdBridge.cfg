CONSTANTS
  BufSize = 4
  Waits = 2
  Latencies <- MCTimely
  Lossy = TRUE
  FlashSize = 8
  Offsets <- MCOffsets
  Lengths <- MCLengths
  MaxOps = 2

SPECIFICATION Spec

INVARIANT TypeOK
INVARIANT WriteLandsInFlash
INVARIANT ReadReturnsFlash
INVARIANT StatusBelongsToCommand
PROPERTY CommandReturns
INVARIANT WriteErrorLeavesPrefix

CONSTANTS
  Lengths <- MCOverrunLengths
  PacketSizes <- MCPacketSizes
  Capacity <- MCSmallCapacity
  MaxSessions = 1
  MaxBoots = 1
  Images <- MCKernelImages
  QueueSettings <- MCBothSettings

SPECIFICATION Spec

INVARIANT NoStagingOverrun

CONSTANTS
  Lengths <- MCNonZeroLengths
  PacketSizes <- MCPacketSizes
  Capacity <- MCCapacity
  MaxSessions = 2
  MaxBoots = 1
  Images <- MCKernelImages
  QueueSettings <- MCBothSettings

SPECIFICATION Spec

PROPERTY EventPayloadIsArmedOutcome

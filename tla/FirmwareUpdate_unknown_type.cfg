CONSTANTS
  Lengths <- MCNonZeroLengths
  PacketSizes <- MCPacketSizes
  Capacity <- MCCapacity
  MaxSessions = 1
  MaxBoots = 1
  Images <- MCAllImages
  QueueSettings <- MCBothSettings

SPECIFICATION Spec

INVARIANT UnrecognizedImagePassesThrough

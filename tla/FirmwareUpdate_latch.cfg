CONSTANTS
  Lengths <- MCLengths
  PacketSizes <- MCPacketSizes
  Capacity <- MCCapacity
  MaxSessions = 2
  MaxBoots = 2
  Images <- MCKernelImages
  QueueSettings <- MCEnableOnly

SPECIFICATION Spec


PROPERTY ImplementsEventLatch

CONSTANTS
  Lengths <- MCLengths
  PacketSizes <- MCPacketSizes
  Capacity <- MCCapacity
  MaxSessions = 2
  MaxBoots = 2
  Images <- MCKernelImages
  QueueSettings <- MCBothSettings

SPECIFICATION Spec

INVARIANT TypeOK
INVARIANT ExecutedExactlyOnce
INVARIANT ExecuteNeverStranded
INVARIANT CommitsCurrentUnlessEmpty
PROPERTY BootDecisionHonoured
PROPERTY BootWindowEnds

PROPERTY WindowCountsEveryPass

SPECIFICATION FairSpec
CONSTANTS
  MaxLen <- MCMaxLen
  Crc16 <- MCCrc16
  BodyErrors <- MCBodyErrors
  Streams <- AllStreams
INVARIANTS
  NoFrameSkipped
  DeliveredDisjoint
PROPERTIES
  ImplementsScan
  FramesDelivered
CHECK_DEADLOCK FALSE

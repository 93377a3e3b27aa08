SPECIFICATION FairSpec
CONSTANTS
  MaxLen <- MCMaxLen
  Crc16 <- MCCrc16
  BodyErrors <- MCBodyErrors
  BuffSize <- MCBuffSize
  Streams <- AllStreams
INVARIANTS
  OwnBytesOnly
  NothingLeftBehind
  DeliveredDisjoint
  RoomForPackets
PROPERTY FramesDelivered

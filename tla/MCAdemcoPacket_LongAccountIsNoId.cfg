SPECIFICATION Spec
CONSTANTS
  UlongDigits = 16
  XdataMax = 14
  PacketMax = 123
  Requests <- MCRequests
  Contents <- MCContents
INVARIANTS
  LongAccountIsNoId

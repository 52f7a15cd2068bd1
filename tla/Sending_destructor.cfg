SPECIFICATION FairSpec
CONSTANTS
  Producers = {p1, p2}
  Worker = worker
  NoThread = nothread
  Byte <- MCByte
  Packets <- MCShortPackets
  IntermediateSize = 1
  SocketBufferSize = 2
  MaxPushes = 2
  MaxSpurious = 1
PROPERTIES
  DestructorReturns
CHECK_DEADLOCK FALSE

SPECIFICATION FairSpec
CONSTANTS
  Producers = {p1, p2}
  Worker = worker
  NoThread = nothread
  Byte <- MCByte
  Packets <- MCPackets
  IntermediateSize = 2
  SocketBufferSize = 2
  MaxPushes = 3
  MaxSpurious = 1
INVARIANTS
  TypeOK
  StreamIntegrity
  NoLostWakeup
  DestroyedIsQuiet
PROPERTIES
  SinkSpec
  PushReturns
  EverythingSent
  StopWhenBusy
CHECK_DEADLOCK FALSE

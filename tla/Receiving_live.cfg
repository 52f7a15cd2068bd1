SPECIFICATION FairSpec
CONSTANTS
  Readers = {r1, r2}
  Byte = {1}
  Demands = {1}
  RecvSize = 2
  MaxBytes = 2
  MaxCalls = 3
  MaxSpurious = 1
INVARIANTS
  BatonHeld
PROPERTIES
  ReadersServed
  StopAfterClose
CHECK_DEADLOCK FALSE

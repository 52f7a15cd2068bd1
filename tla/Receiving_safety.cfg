SPECIFICATION Spec
CONSTANTS
  Readers = {r1, r2}
  Byte = {1, 2}
  Demands = {0, 1, 2}
  RecvSize = 2
  MaxBytes = 3
  MaxCalls = 2
  MaxSpurious = 1
SYMMETRY MCSymmetry
INVARIANTS
  TypeOK
  StreamIntegrity
  NoStandstill
  TerminatedOnlyByReset
PROPERTIES
  SourceSpec
CHECK_DEADLOCK FALSE

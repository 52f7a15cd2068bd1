SPECIFICATION Spec
CONSTANTS
  Clients = {c1, c2}
  FDs = {3, 4}
  MaxSockets = 3
SYMMETRY MCSymmetry
INVARIANTS
  TypeOK
  ConnectedIsWired
PROPERTIES
  ClosesOwnSocket
  ConnectedTalksToServer
CHECK_DEADLOCK FALSE

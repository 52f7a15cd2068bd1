SPECIFICATION Spec
CONSTANTS
  Clients = {c1, c2}
  FDs = {3, 4}
  MaxSockets = 2
SYMMETRY MCSymmetry
INVARIANTS
  TalksToOwnServer
CHECK_DEADLOCK FALSE

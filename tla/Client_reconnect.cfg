SPECIFICATION Spec
CONSTANTS
  Clients = {c1, c2}
  FDs = {3}
  MaxSockets = 2
SYMMETRY MCSymmetry
INVARIANTS
  ConnectReturns
CHECK_DEADLOCK FALSE

CONSTANTS
  k1 = k1
  k2 = k2
  NoConn = NoConn
  MaxTokens = 2
  Conns <- MCConns
  MaxWork = 4
  MaxRev = 1
  MaxFaults = 2
SPECIFICATION Spec
SYMMETRY ConnSymmetry
INVARIANTS
  OnlyTheAdmitted
  NotLockedOut
CHECK_DEADLOCK FALSE

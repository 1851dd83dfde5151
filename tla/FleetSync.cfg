CONSTANTS
  c1 = c1
  c2 = c2
  k1 = k1
  k2 = k2
  NoCommand = NoCommand
  NoConn = NoConn
  Commands <- MCCommands
  Conns <- MCConns
  Oversize = {c2}
  MaxStamp = 1
  MaxSeq = 2
  MaxFaults = 2
  MaxCrashes = 1
SPECIFICATION Spec
SYMMETRY ConnSymmetry
INVARIANTS
  TypeOK
  RunsOncePerLapse
  OutcomeWasProduced
  ResultIsHeld
PROPERTIES
  OutcomeIsFinal
  RunsInOrder
  KeepsLedger

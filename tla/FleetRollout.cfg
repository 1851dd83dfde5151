CONSTANTS
  h1 = h1
  h2 = h2
  Handlers <- MCHandlers
  N = 3
  BatchSizes = {0, 2}
  Failures = {1}
  MaxTroubles = 1
SPECIFICATION Spec
SYMMETRY Symmetry
CHECK_DEADLOCK FALSE
INVARIANTS
  TypeOK
  VerdictIsHonest
  BatchesInOrder
  CountsSettle
PROPERTIES
  EndIsFinal

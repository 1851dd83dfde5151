CONSTANTS
  h1 = h1
  h2 = h2
  Handlers <- MCHandlers
  N = 2
  BatchSizes = {0, 2}
  Failures = {1}
  MaxTroubles = 2
SPECIFICATION FairSpec
CHECK_DEADLOCK FALSE
PROPERTIES
  RolloutEnds

CONSTANTS
  Latest = 2
  MaxCrashes = 1
  MaxChanges = 1
SPECIFICATION FairSpec
CHECK_DEADLOCK FALSE
INVARIANTS
  SchemaComplete
  AgentUnchanged
  OneCA
PROPERTIES
  ServerComesUp
  ServerLearns

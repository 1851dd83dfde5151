CONSTANTS
  Latest = 2
  MaxCrashes = 1
  MaxChanges = 1
SPECIFICATION Spec
CHECK_DEADLOCK FALSE
INVARIANTS
  UpgradeIsSafe

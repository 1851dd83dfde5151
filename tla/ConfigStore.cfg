CONSTANTS
  s1 = s1
  s2 = s2
  Slots <- MCSlots
  Overrides <- MCOverrides
  MaxJobs = 4
  MaxKills = 1
SPECIFICATION Spec
SYMMETRY Symmetry
CHECK_DEADLOCK FALSE
INVARIANTS
  SealedIsOpenable
  ServerKeepsAccess
  RestIsKept

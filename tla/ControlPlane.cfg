SPECIFICATION Spec
CONSTANTS
  b1 = b1
  b2 = b2
  s1 = s1
  s2 = s2
  k1 = k1
  k2 = k2
  ann = ann
  bob = bob
  blank = blank
  Browsers = {b1, b2}
  Slots = {s1, s2}
  Keys = {k1, k2}
  Names <- MCNames
  Blank = blank
  Asks <- MCAsks
  Overrides <- MCOverrides
  GcAge = 2
  MaxRequests = 4
  MaxTicks = 3
SYMMETRY MCSymmetry
INVARIANTS LogoutIsFinal EffectsAreAuthorized SetupIsOver AttemptsBounded SettingsAreKept TokenOneUser
CHECK_DEADLOCK FALSE

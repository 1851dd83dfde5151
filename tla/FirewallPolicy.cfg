SPECIFICATION Spec
CONSTANTS
  Transactions <- MCTransactions
  Packets <- MCPackets
  Existing <- MCExisting
  MaxTransactions = 2
INVARIANTS NoLockout ShadowsExact EffectAsAsked
PROPERTIES WritesFollowOwner
CHECK_DEADLOCK FALSE

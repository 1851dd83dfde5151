SPECIFICATION Spec
CONSTANTS
  Transactions <- MCTransactions
  Packets <- MCPackets
  Existing <- MCExisting
  MaxTransactions = 2
INVARIANTS BlockStaysBlock
CHECK_DEADLOCK FALSE

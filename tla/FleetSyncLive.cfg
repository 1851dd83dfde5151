CONSTANTS
  c1 = c1
  c2 = c2
  k1 = k1
  k2 = k2
  NoCommand = NoCommand
  NoConn = NoConn
  Commands <- MCCommands
  Conns <- MCConns
  Oversize = {c2}
  MaxStamp = 1
  MaxSeq = 1
  MaxFaults = 1
  MaxCrashes = 1
SPECIFICATION FairSpec
PROPERTIES
  EveryCommandResolved
  PendingIsDelivered

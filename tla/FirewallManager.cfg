CONSTANTS
  a = a
  b = b
  web = web
  ssh = ssh
  NoCaller = NoCaller
  Callers <- MCCallers
  Rules <- MCRules
  Programs <- MCPrograms
  Backends = {"ufw", "iptables"}
  MaxCalls = 2
  MaxFaults = 1
  MaxOutside = 1
SPECIFICATION FairSpec
CHECK_DEADLOCK FALSE
INVARIANTS
  TypeOK
  LastGood
PROPERTIES
  AllOrNothing
  CallsReturn

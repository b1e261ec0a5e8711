SPECIFICATION FairSpec
CONSTANTS
  s1 = s1
  s2 = s2
  c1 = c1
  c2 = c2
  c3 = c3
  NONE = NONE
  Servers <- MCServers
  Clients <- MCClients
  Protocol <- MCProtocol
  MaxSignals = 2
  MaxFaults = 1
INVARIANTS
  TypeOK
  OneServer
  PathSound
PROPERTIES
  Restartable
  GetsThrough

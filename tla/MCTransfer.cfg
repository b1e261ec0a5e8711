SPECIFICATION FairSpec
CONSTANTS
  MaxPackets <- MCMaxPackets
  MaxFaults <- MCMaxFaults
  Paths <- MCPaths
  Faults <- MCFaults
INVARIANTS
  TypeOK
  InOrder
  AckMeansAccepted
PROPERTIES
  Implements
  Completes

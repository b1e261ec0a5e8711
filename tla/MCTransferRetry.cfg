SPECIFICATION Spec
CONSTANTS
  MaxPackets <- MCMaxPackets
  MaxFaults <- MCMaxFaults
  Paths <- MCCompressed
  Faults <- MCDamagedData
INVARIANT
  RetryUnderstood

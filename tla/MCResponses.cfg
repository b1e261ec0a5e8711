SPECIFICATION Spec
CONSTANTS
  w1 = w1
  w2 = w2
  NONE = NONE
  Workers <- MCWorkers
  Types <- MCTypes
  Sizes <- MCSizes
  Bulk <- MCBulk
  MaxCommands <- MCCommands
INVARIANTS
  TypeOK
  OwnOutput
  NoLeftovers
  ShowsOwn

SPECIFICATION Spec
CONSTANTS
  Widths <- MCWidths
  KeyWidth = 4
  NumberWidth = 3
  DefaultSize = 8
  IntMax = 80
  NestingLimit = 2
  MaxDamage = 2
  Damage <- MCDamage
  Tails <- MCTails
  MaxFailures = 1
INVARIANTS
  TypeOK
  InBounds
  FreedOnce
  WholeOrNothing

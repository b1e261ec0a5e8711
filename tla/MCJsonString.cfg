SPECIFICATION Spec
CONSTANTS
  MaxText = 3
  MaxPieces = 4
  MaxHidden = 6
  Texts <- MCTexts
  Inputs <- MCInputs
INVARIANTS
  TypeOK
  InBounds
  ComesBack
  DecodesToUtf8

SPECIFICATION LinesSpec
CONSTANTS
  Inputs <- ShortInputs
  MaxLine = 2
INVARIANTS
  LinesOfTheWhole

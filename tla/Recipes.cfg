SPECIFICATION Spec
CONSTANTS
  None = None
  Malformed = Malformed
  LooseFields <- MCLooseFields
  Shared <- MCShared
  Doses = {25, 150, 175}
  Ratios = {155, 180}
  MaxEdits = 1
INVARIANTS
  MachineTakesIt
  BlobFits
  SharesKept
  OnlyUnsnappable
  BuildIsStable
  EditKeepsShape
  CloudKeepsRecipe
CHECK_DEADLOCK FALSE

SPECIFICATION Spec
CONSTANTS
  None = None
  Malformed = Malformed
  LooseFields <- MCLooseFields
  Shared <- MCShared
  Doses = {150}
  Ratios = {155, 180}
  MaxEdits = 1
INVARIANTS
  SavedAsScaled
CHECK_DEADLOCK FALSE

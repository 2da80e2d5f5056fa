SPECIFICATION Spec
CONSTANTS
  Blocks = 2
  Retries = 1
  SeqMod = 2
  Start = Start
  Header = Header
  MaxFlashes = 1
INVARIANTS
  FlashedMeansWhole
CHECK_DEADLOCK FALSE

SPECIFICATION FairSpec
CONSTANTS
  Blocks = 4
  Retries = 1
  SeqMod = 2
  Start = Start
  Header = Header
  MaxFlashes = 2
INVARIANTS
  StoredUnlessLate
  WholeUnlessLate
PROPERTIES
  KeepsGate
  FlashEnds
CHECK_DEADLOCK FALSE

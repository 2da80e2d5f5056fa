SPECIFICATION FairSpec
CONSTANTS
  t1 = t1
  t2 = t2
  t3 = t3
  None = None
  Calls = {t1, t2, t3}
  MaxBeats = 2
INVARIANTS
  AloneNeverRaises
  FreshStatus
PROPERTIES
  SnapshotsEnd
CHECK_DEADLOCK FALSE

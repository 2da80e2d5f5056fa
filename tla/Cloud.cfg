SPECIFICATION FairSpec
CONSTANTS
  c1 = c1
  c2 = c2
  l1 = l1
  Calls = {c1, c2, l1}
  Listing = {l1}
  Changing = {c1, c2}
  Layouts <- SomeLayouts
  Room = 1
  SingleSession = TRUE
  MaxLapses = 1
INVARIANTS
  MadeAtMostOnce
  AskedOnlyWithoutPassword
  ExpiredMeansUndone
  ListsOwnWrites
PROPERTIES
  CallsEnd
CHECK_DEADLOCK FALSE

SPECIFICATION Spec
CONSTANTS
  k1 = k1
  c1 = c1
  MaxSessions = 2
  Stops = {k1}
  Sends = {c1}
  Kind <- BrewKind
  Prepare <- PrepareCut
  None = None
INVARIANTS
  HeldOnlyWhileStarted
CHECK_DEADLOCK FALSE

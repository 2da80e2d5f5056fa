SPECIFICATION FairSpec
CONSTANTS
  k1 = k1
  c1 = c1
  MaxSessions = 2
  Stops = {k1}
  Sends = {c1}
  Kind <- BrewKind
  Prepare <- PrepareCut
  None = None
INVARIANTS
  NoOrphanUnlessRaced
  HeldByTheSession
  OverMeansClosed
  LostMeansLost
  LifecycleInOrder
  StartsOwnRecipe
PROPERTIES
  StopsReturn
  LostLinkEnds
CHECK_DEADLOCK FALSE

SPECIFICATION Spec
CONSTANTS
  Lengths <- Telemetry
  Body <- MCBody
  MaxFrameLen = 48
  Mtu = 20
  MinCut = 8
  MaxLosses = 2
INVARIANTS
  WholeFramesHeard
  OnlyFramesSent
  PendingBounded
CHECK_DEADLOCK FALSE

SPECIFICATION FairSpec
CONSTANTS
  b = b
  s = s
  handshake = handshake
  bypass = bypass
  cup = cup
  recipe = recipe
  execute = execute
  tare = tare
  Calls = {b, s}
  Brews = {b}
  SleepGated = {s}
  Codes = {handshake, bypass, cup, recipe, execute, tare}
  Script <- BothScript
  MaxAttempts <- BothAttempts
  Refusals = {busy}
  ResendMeansTaken = {busy}
  BusyElsewhere = FALSE
  Sleeping = sleepingNotice
  Awake = awakeNotice
  NoticeBound = 1
  OK = OK
  None = None
INVARIANTS
  AwaitedIsHeard
  BrewNeverBlind
  NoStrayWaiter
PROPERTIES
  CallsReturn
  KeepsContract
CHECK_DEADLOCK FALSE

SPECIFICATION Spec
CONSTANTS
  b = b
  s = s
  handshake = handshake
  bypass = bypass
  cup = cup
  recipe = recipe
  execute = execute
  tare = tare
  Calls = {b}
  Brews = {b}
  SleepGated = {}
  Codes = {handshake, bypass, cup, recipe, execute, tare}
  Script <- BrewScript
  MaxAttempts <- BrewAttempts
  Refusals = {busy, noWater}
  ResendMeansTaken = {busy}
  BusyElsewhere = TRUE
  Sleeping = sleepingNotice
  Awake = awakeNotice
  NoticeBound = 1
  OK = OK
  None = None
INVARIANTS
  SentInOrder
CHECK_DEADLOCK FALSE

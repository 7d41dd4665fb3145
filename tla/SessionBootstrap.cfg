\* Two processes on one directory; everything of theirs may overlap.
SPECIFICATION BootSpec
CONSTANTS
  b1 = b1
  b2 = b2
  p1 = p1
  p2 = p2
  NoPid = NoPid
  Bots = {b1, b2}
  Pids = {p1, p2}
  PidOf <- PidOfBot
  MaxDevices = 2
  MaxTokens = 4
  MaxRevokes = 1
  MaxCrashes = 1
INVARIANTS
  SoleHolder
  TokenMatchesStore
  StoreReopens
CHECK_DEADLOCK FALSE

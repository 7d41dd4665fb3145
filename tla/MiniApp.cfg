\* Half seconds; the signer's clock is one tick ahead. MCMiniApp has the setups and their bounds.
SPECIFICATION Spec
CONSTANTS
  Setups <- SetupSet
  Second = 2
  MaxLaunches = 2
  MaxRequests = 4
  Origins = {"host", "other", "null"}
  Answerers = {x, y, z}
  InitTtl = 1
  SessionTtl = 1
  QueryTtl = 2
  BotAhead = 1
  Tolerance = 1
  NonceCapacity = 1
  QueryCapacity = 1
  UsedCapacity = 1
SYMMETRY AnswererSymmetry
CHECK_DEADLOCK FALSE
INVARIANTS
  LaunchOnce
  NoDataFromLeavers
  AnsweredOnce
  DataGoesToHost

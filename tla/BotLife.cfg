\* Nine programs; two starts, one death, two ticks of the clock.
SPECIFICATION Spec
CONSTANTS
  slow = slow
  once = once
  prune = prune
  add = add
  both = both
  mark = mark
  reset = reset
  wipe = wipe
  ka = ka
  kb = kb
  kc = kc
  Jobs = {slow, once, prune}
  Every <- EveryOf
  Delay <- DelayOf
  MaxRuns <- MaxRunsOf
  Calls = {add, both, mark, reset, wipe}
  KindOf <- Kinds
  KeyOf <- KeysOf
  ConvKey = kc
  PruneJob = prune
  Setups <- SetupSet
  Ttl = 1
  MaxEntries = 1
  Steps = 3
  MaxTime = 2
  Null = Null
CHECK_DEADLOCK FALSE
INVARIANTS
  SerialIfAlone
  NothingLeftUnwritten
  HealthIsHonest
  StopQuiets
PROPERTIES
  JobRunsApart
  ConversationResumes

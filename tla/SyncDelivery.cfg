\* Two events, the second one encrypted; one retry of a failing batch.
SPECIFICATION FairSpec
CONSTANTS
  ra = ra
  rb = rb
  RoomOrder <- TwoRooms
  RoomOf <- Alternating
  NumEvents = 2
  Encrypted = {2}
  DedupCapacity = 2
  MaxPoisonRetries = 1
  MaxDecryptAttempts = 2
INVARIANTS
  AtMostOncePerLife
  NothingLost
  HistoryStaysQuiet
PROPERTIES
  LoopAdvances

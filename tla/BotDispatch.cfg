\* Two concurrent updates.
SPECIFICATION DispatchSpec
CONSTANTS
  Self = "bot"
  NoCommand = NoCommand
  NoRoute = NoRoute
  MaxUpdates = 2
  OtherUpdates = {2}
  DirectTypes = {"invite"}
  RoomEvents <- EventSet
  Waiters = {"w1"}
  WaiterOf <- WaiterRecords
  Tree <- RouterTree
  Roots <- RootSeq
  Resolve <- ResolveRouter
  HandleError <- HandleRouterError
  Outer <- OuterSeq
  Denied = {"mallory"}
  OtherEvents <- Others
  MaxAnswers = 1
  MaxRetries = 1
  Swallows = {TRUE, FALSE}
CHECK_DEADLOCK FALSE
INVARIANTS
  HandledAtMostOnce
  FirstRouteWins
PROPERTIES
  NoLateAnswer
  ConsumedIsDelivered
  EveryFeedEnds

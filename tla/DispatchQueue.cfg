\* Six callers over three rooms, two slots; four keys, a window of two.
SPECIFICATION ClassesSpec
CONSTANTS
  a1 = a1
  a2 = a2
  a3 = a3
  b1 = b1
  b2 = b2
  c1 = c1
  ra = ra
  rb = rb
  rc = rc
  NoRoom = NoRoom
  Tasks <- Callers
  Rooms = {ra, rb, rc}
  RoomOf <- RoomOfCaller
  GlobalLimit = 2
  Keys = {k1, k2, k3, k4}
  Capacity = 2
INVARIANTS
  QueueContract
  RemembersWindow
  NoFalseDuplicate
PROPERTIES
  WaitersServed
  ImplementsRoomLines
CHECK_DEADLOCK FALSE

\* Two sends into one room, or three one after the other; one device added at a time, one request failing.
SPECIFICATION ShareSpec
CONSTANTS
  Users = {a, b}
  FirstMembers = {a}
  Elsewhere = {b}
  MaxSends = 3
  MaxEvents = 2
  Policies <- PolicySet
  MaxDevices = 2
  MaxFails = 1
  MaxPoison = 2
CHECK_DEADLOCK FALSE
INVARIANTS
  KnownDevicesCanRead
  LeaverCannotRead
PROPERTY EverySendEnds

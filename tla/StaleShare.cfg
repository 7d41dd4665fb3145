\* Three sends: a share, one for fewer recipients that fails, one for the first list.
SPECIFICATION ShareSpec
CONSTANTS
  Users = {a, b}
  FirstMembers = {a, b}
  Elsewhere = {a, b}
  MaxSends = 3
  MaxEvents = 2
  Policies <- PolicySet
  MaxDevices = 1
  MaxFails = 1
  MaxPoison = 2
CHECK_DEADLOCK FALSE
INVARIANT FreshShareReaches

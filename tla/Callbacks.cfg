\* A send and two edits, two presses, one restart.
SPECIFICATION Spec
CONSTANTS
  Setups <- SetupSet
  Procs = {p, q}
  First = p
  MaxOps = 3
  MaxPresses = 2
  MaxTime = 1
  RegTtl = 1
  RegCapacity = 2
  UsedCapacity = 2
CHECK_DEADLOCK FALSE
INVARIANTS
  SingleUseOnce
  DeadButtonsStayDead
  ShownButtonsWork

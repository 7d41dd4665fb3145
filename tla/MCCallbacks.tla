----------------------------- MODULE MCCallbacks -----------------------------
EXTENDS Callbacks

SetupSet ==
  {[mode |-> "memory", ops |-> 3, presses |-> 1, restarts |-> 1],
   [mode |-> "memory", ops |-> 1, presses |-> 2, restarts |-> 0],
   [mode |-> "file", ops |-> 3, presses |-> 1, restarts |-> 0],
   [mode |-> "file", ops |-> 2, presses |-> 1, restarts |-> 1],
   [mode |-> "file", ops |-> 1, presses |-> 2, restarts |-> 1],
   [mode |-> "redis", ops |-> 2, presses |-> 1, restarts |-> 1],
   [mode |-> "redis", ops |-> 1, presses |-> 2, restarts |-> 0]}
=============================================================================

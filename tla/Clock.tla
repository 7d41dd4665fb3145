-------------------------------- MODULE Clock --------------------------------
(* Date.now(), in steps the timers below tell apart. *)
EXTENDS Naturals

CONSTANT MaxTime   \* bound: the clock

ASSUME ClockBound == MaxTime \in Nat

VARIABLE now
=============================================================================

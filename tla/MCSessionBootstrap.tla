------------------------- MODULE MCSessionBootstrap -------------------------
(* Two bots, each in a process of its own, on one storage directory. *)
EXTENDS SessionBootstrap

CONSTANTS b1, b2, p1, p2

PidOfBot == [b \in {b1, b2} |-> IF b = b1 THEN p1 ELSE p2]
=============================================================================

--------------------------- MODULE MCSyncDelivery ---------------------------
(* Instances of SyncDelivery: two rooms; the homeserver lists the second    *)
(* one first, so that a batch is not handled in the order it was sent.      *)
EXTENDS SyncDelivery

CONSTANTS ra, rb

TwoRooms == <<rb, ra>>

Alternating == [e \in Events |-> IF e % 2 = 1 THEN ra ELSE rb]
=============================================================================

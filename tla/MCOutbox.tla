------------------------------ MODULE MCOutbox ------------------------------
(* Instances of Outbox. *)
EXTENDS Outbox
=============================================================================

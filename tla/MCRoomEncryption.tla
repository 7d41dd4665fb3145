-------------------------- MODULE MCRoomEncryption --------------------------
(* Instances of RoomEncryption. *)
EXTENDS RoomEncryption
=============================================================================

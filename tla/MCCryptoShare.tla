---------------------------- MODULE MCCryptoShare ----------------------------
(* Two users, one of them in the room at first; a bot that rotates every    *)
(* message, one that rotates every second message, and such a one that      *)
(* sends three messages one after the other.                                *)
EXTENDS CryptoShare

PolicySet ==
  {[rotateEvery |-> TRUE, maxPeers |-> 1, period |-> 2, reshare |-> TRUE, sends |-> 2, atOnce |-> 2],
   [rotateEvery |-> FALSE, maxPeers |-> 1, period |-> 2, reshare |-> FALSE, sends |-> 2, atOnce |-> 2],
   [rotateEvery |-> FALSE, maxPeers |-> 1, period |-> 2, reshare |-> TRUE, sends |-> 3, atOnce |-> 1]}
=============================================================================

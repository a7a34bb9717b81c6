---------------------------- MODULE MCBroadcast ----------------------------
(* Broadcast for TLC: two pages and the ticker. *)
EXTENDS Broadcast
CONSTANTS p1, p2
=============================================================================

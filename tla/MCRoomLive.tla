----------------------------- MODULE MCRoomLive -----------------------------
(* RoomLive for TLC. *)
EXTENDS RoomLive

CONSTANTS t1, t2
=============================================================================

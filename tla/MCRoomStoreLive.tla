--------------------------- MODULE MCRoomStoreLive ---------------------------
(* RoomStoreLive for TLC; no symmetry, as the properties are temporal. *)
EXTENDS RoomStoreLive

CONSTANTS t1, t2, w1
=============================================================================

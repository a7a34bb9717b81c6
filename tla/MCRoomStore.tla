----------------------------- MODULE MCRoomStore -----------------------------
(* RoomStore for TLC: session tokens and handlers are interchangeable. *)
EXTENDS RoomStore, TLC

CONSTANTS t1, t2, w1, w2

Symmetry == Permutations(Token) \cup Permutations(Worker)
=============================================================================

------------------------------- MODULE MCRoom -------------------------------
(* Room and the match it implements, for TLC: session tokens are interchangeable. *)
EXTENDS RoomRefinement, TLC

CONSTANTS t1, t2, t3

TokenSymmetry == Permutations(Token)
=============================================================================

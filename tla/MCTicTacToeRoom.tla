--------------------------- MODULE MCTicTacToeRoom ---------------------------
(* TicTacToeRoom for TLC: session tokens are interchangeable. *)
EXTENDS TicTacToeRoom, TLC

CONSTANTS t1, t2

TokenSymmetry == Permutations(Token)
=============================================================================

---------------------------- MODULE AbstractMatch ----------------------------
(***************************************************************************)
(* What a room promises the people in it, without seats, clocks, offers or *)
(* requests: a match is opened, started, played move by move, decided once *)
(* and only then put away.                                                 *)
(***************************************************************************)
EXTENDS Naturals

VARIABLES phase,     \* where the match is in its life
          solo,      \* played against the machine
          moves,     \* how many moves were made
          result     \* the verdict and its winner

vars == <<phase, solo, moves, result>>

Undecided == <<"open", "none">>
Mover(n) == IF n % 2 = 0 THEN "w" ELSE "b"
Other(c) == IF c = "w" THEN "b" ELSE "w"

Init == phase = "none" /\ solo = FALSE /\ moves = 0 /\ result = Undecided

\* A match against the machine needs nobody else and starts at once.
Open(alone) ==
  /\ phase = "none"
  /\ phase' = IF alone THEN "playing" ELSE "waiting"
  /\ solo' = alone
  /\ UNCHANGED <<moves, result>>

Start == phase = "waiting" /\ phase' = "playing" /\ UNCHANGED <<solo, moves, result>>

Move ==
  /\ phase = "playing"
  /\ moves' = moves + 1
  /\ \/ phase' = "playing" /\ UNCHANGED result
     \/ /\ phase' = "over"
        /\ result' \in {<<"checkmate", Mover(moves)>>, <<"stalemate", "none">>, <<"draw", "none">>}
  /\ UNCHANGED solo

\* Without a move: either player gives up, the mover's time runs out, or two
\* people agree on a draw.  White alone in the room can only give up.
Stop ==
  /\ phase \in {"waiting", "playing"}
  /\ phase' = "over"
  /\ \/ result' = <<"resigned", "b">>
     \/ phase = "playing" /\ result' \in {<<"resigned", "w">>, <<"timeout", Other(Mover(moves))>>}
     \/ phase = "playing" /\ ~solo /\ result' = <<"draw", "none">>
  /\ UNCHANGED <<solo, moves>>

\* A match between two people that has begun is never closed before it is over.
Close ==
  /\ phase \in {"waiting", "over"} \/ (phase = "playing" /\ solo)
  /\ phase' = "closed" /\ solo' = FALSE /\ moves' = 0 /\ result' = Undecided

Next == (\E alone \in BOOLEAN : Open(alone)) \/ Start \/ Move \/ Stop \/ Close

Spec == Init /\ [][Next]_vars
=============================================================================

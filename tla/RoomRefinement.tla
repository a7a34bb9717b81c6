--------------------------- MODULE RoomRefinement ---------------------------
(***************************************************************************)
(* The room of match-core implements the match its players are promised.   *)
(***************************************************************************)
EXTENDS Room

MatchPhase ==
  IF Exists THEN IF IsFinished(room) THEN "over"
                 ELSE IF room.status = "waiting" THEN "waiting" ELSE "playing"
  ELSE IF issued = {} THEN "none" ELSE "closed"

\* A room won on the board is a match won by mate, whatever the game calls it.
Told(status) == IF status = WonOnBoard THEN "checkmate" ELSE status

MatchResult ==
  IF Exists /\ IsFinished(room) THEN <<Told(room.status), room.winner>> ELSE <<"open", "none">>

Match == INSTANCE AbstractMatch WITH
           phase <- MatchPhase,
           solo <- Exists /\ room.mode = "bot_easy",
           moves <- IF Exists THEN room.moves ELSE 0,
           result <- MatchResult

\* Every step of a handler or of the ticker is a step of the promised match or
\* leaves it where it was: no second verdict, no verdict for the wrong player,
\* no move after the end, no match put away while two people play it.
ImplementsMatch == Match!Spec
=============================================================================

---------------------------- MODULE TicTacToeRoom ----------------------------
(***************************************************************************)
(* One tic-tac-toe room, every handler one step, with the machine played   *)
(* by bot-engine's easy strategy.                                          *)
(***************************************************************************)
EXTENDS TicTacToeRules

CONSTANT MaxTime      \* bound on the wall clock

ASSUME TicTacToeAssumption ==
  MaxTime \in Nat /\ WonOnBoard = "won" /\ MaxMoves = 9 /\ Absent \notin BoardRoom

VARIABLES room, issued, now

vars == <<room, issued, now>>

Init == room = Absent /\ issued = {} /\ now = 0

Exists == room # Absent
Saves(results) == room' \in results /\ UNCHANGED <<issued, now>>

CreateRoom(mode, clockEnabled, t) ==
  /\ ~Exists /\ issued = {}
  /\ room' = NewBoardRoom(mode, clockEnabled, t)
  /\ issued' = {t}
  /\ UNCHANGED now

JoinRoom(t, fresh) ==
  /\ Exists
  /\ t \notin Members(room) => fresh \notin issued
  /\ room' \in JoinResults(room, t, fresh)
  /\ issued' = issued \cup Members(room')
  /\ UNCHANGED now

LeaveRoom(t) == Exists /\ Saves(LeaveResults(room, t))
SyncState(t) == Exists /\ Saves(SyncResults(room, t))
MarkDisconnected(t) == Exists /\ Saves(MarkDisconnectedResults(room, t))
SubmitAction(t, cell) == Exists /\ Saves(SubmitCellResults(room, t, cell, now))
Resign(t) == Exists /\ Saves(ResignResults(room, t))
OfferDraw(t) == Exists /\ Saves(OfferDrawResults(room, t))
AcceptDraw(t) == Exists /\ Saves(AcceptDrawResults(room, t))
DeclineDraw(t) == Exists /\ Saves(DeclineDrawResults(room, t))
TickActiveRooms == Exists /\ Saves(TickBoardResults(room, now))

TimePasses == now < MaxTime /\ now' = now + 1 /\ UNCHANGED <<room, issued>>

Next ==
  \/ \E mode \in {"pvp", "bot_easy"}, clockEnabled \in BOOLEAN, t \in Token :
        CreateRoom(mode, clockEnabled, t)
  \/ \E t, fresh \in Token : JoinRoom(t, fresh)
  \/ \E t \in Token : LeaveRoom(t)
  \/ \E t \in Token : SyncState(t)
  \/ \E t \in Token : MarkDisconnected(t)
  \/ \E t \in Token, cell \in Cell : SubmitAction(t, cell)
  \/ \E t \in Token : Resign(t)
  \/ \E t \in Token : OfferDraw(t)
  \/ \E t \in Token : AcceptDraw(t)
  \/ \E t \in Token : DeclineDraw(t)
  \/ TickActiveRooms
  \/ TimePasses

Spec == Init /\ [][Next]_vars

-----------------------------------------------------------------------------

\* The shape of the record, and only tokens that were handed out are in it.
TypeOK ==
  /\ room \in BoardRoom \cup {Absent}
  /\ issued \subseteq Token
  /\ now \in 0 .. MaxTime
  /\ Exists => Members(room) \subseteq issued

\* What chess keeps, tic-tac-toe keeps: seats, offers, the running clock, the
\* time it measures and the machine's schedule.
TablesAlike ==
  /\ TypeOK
  /\ Exists => /\ SeatsSound(room) /\ HasPlayer(room) /\ OfferSound(room)
               /\ MoverOnTheClock(room) /\ ClockConserved(room) /\ BotScheduled(room)

\* Three in a row, told without the code's list of lines: cells in arithmetic
\* progression along a row, a column or a diagonal.
ThreeInARow(b, m) ==
  \/ \E i \in 0 .. 2 : \A j \in 0 .. 2 : b[3 * i + j] = m
  \/ \E j \in 0 .. 2 : \A i \in 0 .. 2 : b[3 * i + j] = m
  \/ \A i \in 0 .. 2 : b[4 * i] = m
  \/ \A i \in 0 .. 2 : b[2 * i + 2] = m

\* The verdict is the one on the board: a won game has the winner's line and not
\* the loser's, every other game has none, and a board without room is won or
\* drawn at once (applyMoveToState 785-793).
VerdictOnBoard ==
  Exists =>
    /\ room.status = "won" <=> \E c \in Color : ThreeInARow(room.board, MarkForColor(c))
    /\ \A c \in Color :
         ThreeInARow(room.board, MarkForColor(c)) => room.winner = c /\ room.turn = c
    /\ IsBoardFull(room.board) => room.status \in {"won", "draw"}
    /\ room.status = "draw" => room.winner = NoColor
    /\ room.status = "timeout" => room.winner = Opposite(room.turn) /\ room.clocks[room.turn] = 0

\* The board is that of a fair game: X and O took turns and nobody marked twice
\* or over another mark, although moves, retried bot moves and ticks interleave.
MarksAlternate ==
  Exists =>
    LET marks(m) == Cardinality({c \in Cell : room.board[c] = m})
    IN  /\ marks("x") - marks("o") \in {0, 1}
        /\ marks("x") + marks("o") = room.moves
        /\ room.status = "active" => (room.turn = White <=> marks("x") = marks("o"))

\* "O modo easy do jogo da velha prioriza vitoria imediata, bloqueio, centro,
\* cantos e laterais" (README.md 204): when the machine has moved, it has won if
\* it could, else it stands where the human would have won if there was such a
\* cell, else in the centre if that was free, else in a free corner if any.
Threats(b, m) == {c \in Cell : b[c] = Empty /\ ThreeInARow([b EXCEPT ![c] = m], m)}
EasyPriorities ==
  [][Exists /\ room' # Absent /\ IsBotTurn(room) /\ room'.moves > room.moves =>
       LET b == room.board
           free == {c \in Cell : b[c] = Empty}
           cell == CHOOSE c \in free : room'.board[c] # Empty
       IN  /\ Threats(b, "o") # {} => room'.winner = Black
           /\ Threats(b, "o") = {} /\ Threats(b, "x") # {} => cell \in Threats(b, "x")
           /\ Threats(b, "o") \cup Threats(b, "x") = {} =>
                /\ 4 \in free => cell = 4
                /\ 4 \notin free /\ free \cap {0, 2, 6, 8} # {} => cell \in {0, 2, 6, 8}]_vars

-----------------------------------------------------------------------------

MatchPhase ==
  IF Exists THEN IF IsFinished(room) THEN "over"
                 ELSE IF room.status = "waiting" THEN "waiting" ELSE "playing"
  ELSE IF issued = {} THEN "none" ELSE "closed"

MatchResult ==
  IF Exists /\ IsFinished(room)
  THEN <<IF room.status = "won" THEN "checkmate" ELSE room.status, room.winner>>
  ELSE <<"open", "none">>

Match == INSTANCE AbstractMatch WITH
           phase <- MatchPhase,
           solo <- Exists /\ room.mode = "bot_easy",
           moves <- IF Exists THEN room.moves ELSE 0,
           result <- MatchResult

\* The promise chess keeps, with three in a row for mate: one verdict, for the
\* right player, and no mark after it, although here the turn stays with the
\* player whose mark ended the game (applyMoveToState 785-795).
ImplementsMatch == Match!Spec
=============================================================================

--------------------------- MODULE TicTacToeRules ---------------------------
(***************************************************************************)
(* Tic-tac-toe in match-core (internal/games/tictactoe/service.go) and the *)
(* easy strategy of bot-engine (internal/games/tictactoe/easy.go).  A room *)
(* is RoomRules' record with the nine cells in place of the outcome; only  *)
(* the commands that touch the board differ from chess.                    *)
(***************************************************************************)
EXTENDS RoomSafety, Sequences, FiniteSetsExt

Cell == 0 .. 8
Empty == "-"
MarkForColor(c) == IF c = White THEN "x" ELSE "o"

ColorFromMark(m) == IF m = "x" THEN White ELSE Black
Board == [Cell -> {Empty, "x", "o"}]
InitialBoard == [c \in Cell |-> Empty]

BoardRoom == RoomWith(Board)

WinningLines ==
  <<{0, 1, 2}, {3, 4, 5}, {6, 7, 8}, {0, 3, 6}, {1, 4, 7}, {2, 5, 8}, {0, 4, 8}, {2, 4, 6}>>

\* The first line of the list that one mark fills names the winner.
WinnerForBoard(b) ==
  LET filled == {i \in DOMAIN WinningLines :
                   \E m \in {"x", "o"} : \A c \in WinningLines[i] : b[c] = m}
  IN  IF filled = {} THEN NoColor
      ELSE ColorFromMark(b[CHOOSE c \in WinningLines[Min(filled)] : TRUE])

IsBoardFull(b) == \A c \in Cell : b[c] # Empty

-----------------------------------------------------------------------------
(* The commands that touch the board.                                      *)

NewBoardRoom(mode, clockEnabled, t) ==
  [NewRoom(mode, clockEnabled, t) EXCEPT !.board = InitialBoard]

Marked(r, cell, ts) ==
  [r EXCEPT !.board[cell] = MarkForColor(r.turn), !.moves = @ + 1,
            !.firstMoveAt = IF r.moves = 0 THEN ts ELSE @,
            !.drawOffer = NoColor]

\* (slip) A full board is a draw before a line on it is looked for.
MarkCellFullFirst(r, cell, ts) ==
  LET marked == Marked(r, cell, ts)
      winner == WinnerForBoard(marked.board)
  IN  IF IsBoardFull(marked.board) THEN FinishGame(marked, NoColor, "draw")
      ELSE IF winner # NoColor THEN FinishGame(marked, winner, WonOnBoard)
      ELSE PassTurn([marked EXCEPT !.turn = Opposite(@)], ts)

\* applyMoveToState on an empty cell.  Unlike in chess the turn stays with the
\* player whose move ended the game.
MarkCell(r, cell, ts) ==
  LET marked == Marked(r, cell, ts)
      winner == WinnerForBoard(marked.board)
  IN  IF winner # NoColor THEN FinishGame(marked, winner, WonOnBoard)
      ELSE IF IsBoardFull(marked.board) THEN FinishGame(marked, NoColor, "draw")
      ELSE PassTurn([marked EXCEPT !.turn = Opposite(@)], ts)

\* (slip) An occupied cell may be marked again.
SubmitCellResultsAnywhere(r, t, cell, ts) ==
  LET timed == FinishIfTimedOut(AdvanceClock(r, ts))
  IN  IF ~HoldsSeat(r, t) THEN {}
      ELSE IF timed.status = "timeout" THEN {timed}
      ELSE IF timed.status = "active" /\ Holds(timed, t, timed.turn)
      THEN {MarkCell(timed, cell, ts)}
      ELSE {}

SubmitCellResults(r, t, cell, ts) ==
  LET timed == FinishIfTimedOut(AdvanceClock(r, ts))
  IN  IF ~HoldsSeat(r, t) THEN {}
      ELSE IF timed.status = "timeout" THEN {timed}
      ELSE IF /\ timed.status = "active" /\ Holds(timed, t, timed.turn)
              /\ timed.board[cell] = Empty
      THEN {MarkCell(timed, cell, ts)}
      ELSE {}

-----------------------------------------------------------------------------
(* The easy strategy, as the set of cells it may answer.                   *)

AvailableMoves(b) == {c \in Cell : b[c] = Empty}

\* (slip) The engine's list ends with the bottom row a second time.
EngineLinesWrong ==
  <<{0, 1, 2}, {3, 4, 5}, {6, 7, 8}, {0, 3, 6}, {1, 4, 7}, {2, 5, 8}, {0, 4, 8}, {6, 7, 8}>>

\* bot-engine keeps a list of its own.
EngineLines ==
  <<{0, 1, 2}, {3, 4, 5}, {6, 7, 8}, {0, 3, 6}, {1, 4, 7}, {2, 5, 8}, {0, 4, 8}, {2, 4, 6}>>

CompletesLine(b, cell, mark) ==
  \E i \in DOMAIN EngineLines :
     cell \in EngineLines[i] /\ \A c \in EngineLines[i] \ {cell} : b[c] = mark

WinningMoves(b, mark) == {c \in AvailableMoves(b) : CompletesLine(b, c, mark)}

Centre == 4
Corners == {0, 2, 6, 8}
Sides == {1, 3, 5, 7}

SelectEasyMove(b, turn) ==
  LET own == WinningMoves(b, MarkForColor(turn))
      other == WinningMoves(b, MarkForColor(Opposite(turn)))
      free == AvailableMoves(b)
  IN  IF own # {} THEN {Min(own)}
      ELSE IF other # {} THEN {Min(other)}
      ELSE IF b[Centre] = Empty THEN {Centre}
      ELSE IF Corners \cap free # {} THEN Corners \cap free
      ELSE IF Sides \cap free # {} THEN Sides \cap free
      ELSE free

\* The call to the engine fails, or it answers one of its cells, or no move on
\* a full board.
Failed == -1
NoMove == -2
EngineAnswers(r) ==
  {Failed} \cup (IF IsBoardFull(r.board) THEN {NoMove} ELSE SelectEasyMove(r.board, r.turn))

\* As in chess a move that was applied is handled like a failed call as well.
PerformMachineMove(r, ans, ts) ==
  IF ans = NoMove THEN FinishGame(r, NoColor, "draw")
  ELSE IF ans = Failed THEN RetryBotLater(r, ts)
  ELSE RetryBotLater(MarkCell(r, ans, ts), ts)

\* One room of TickActiveRooms.
TickBoardResults(r, ts) ==
  LET timed == FinishIfTimedOut(AdvanceClock(r, ts))
  IN  IF ShouldPlayBotMove(timed, ts)
      THEN {PerformMachineMove(timed, ans, ts) : ans \in EngineAnswers(timed)}
      ELSE IF timed.status # r.status THEN {timed}
      ELSE {}
=============================================================================

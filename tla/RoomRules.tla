----------------------------- MODULE RoomRules -----------------------------
(***************************************************************************)
(* The chess room of match-core as data, and every command as a function   *)
(* of the room it loaded: internal/games/chess/service.go.  The commands   *)
(* that do not touch the board are also tic-tac-toe's, whose service.go is *)
(* the same there; TicTacToeRules adds the others.                         *)
(*                                                                         *)
(* A handler loads the record from Redis, changes its copy and saves it.   *)
(* XResults(r, ...) is the set of records handler X may save after loading *)
(* r: empty when it answers an error and saves nothing, {Absent} when it   *)
(* deletes the room, several when the move played or the answer of the bot *)
(* engine is left open.  Room uses these sets as atomic steps; RoomStore   *)
(* separates the load from the save.                                       *)
(***************************************************************************)
EXTENDS Integers

CONSTANTS
  Token,            \* session tokens of people (uuid.NewString)
  Machine,          \* the token in the bot's seat; no client ever learns it
  Nobody,           \* a nil seat
  Absent,           \* no record under the room's key
  InitialMs,        \* Config.RoomClockMs
  BotMoveDelayMs,   \* botMoveDelayMs
  WonOnBoard,       \* GameStatusCheckmate; GameStatusWon in tic-tac-toe
  MaxMoves          \* bound: the move that must end the game (chess is finite)

White == "w"
Black == "b"
Color == {White, Black}
NoColor == "none"
NoTime == -1        \* a nil timestamp

FinishedStatus == {WonOnBoard, "stalemate", "draw", "resigned", "timeout"}
Status == {"waiting", "active"} \cup FinishedStatus
Outcome == {"open", "checkmate", "stalemate", "draw"}

Time == Nat \cup {NoTime}

\* RoomState without names, wording and bookkeeping timestamps: the position
\* is its outcome (nine cells in tic-tac-toe), the history its length and the
\* time of its first move, and the Connected flags of seats and spectators are
\* one set of tokens.
RoomWith(positions) ==
        [mode          : {"pvp", "bot_easy"},
         clockEnabled  : BOOLEAN,
         board         : positions,
         turn          : Color,
         status        : Status,
         winner        : Color \cup {NoColor},
         seat          : [Color -> Token \cup {Machine, Nobody}],
         spectators    : SUBSET Token,
         connected     : SUBSET (Token \cup {Machine}),
         clocks        : [Color -> 0 .. InitialMs],
         activeColor   : Color \cup {NoColor},
         turnStartedAt : Time,
         moves         : 0 .. MaxMoves,
         firstMoveAt   : Time,
         drawOffer     : Color \cup {NoColor},
         botMoveDueAt  : Time]

Room == RoomWith(Outcome)

ASSUME ParametersAssumption ==
  /\ Machine \notin Token /\ Nobody \notin Token /\ Machine # Nobody
  /\ Absent \notin Room
  /\ InitialMs \in Nat \ {0}
  /\ BotMoveDelayMs \in Nat
  /\ MaxMoves \in Nat \ {0}
  /\ WonOnBoard \in {"checkmate", "won"}

-----------------------------------------------------------------------------
(* Seats and sessions.                                                     *)

Opposite(c) == IF c = White THEN Black ELSE White
IsFinished(r) == r.status \in FinishedStatus
Holds(r, t, c) == r.seat[c] = t
HoldsSeat(r, t) == \E c \in Color : Holds(r, t, c)
Members(r) == {t \in Token : HoldsSeat(r, t) \/ t \in r.spectators}
HumanSeats(r) == {c \in Color : r.seat[c] \in Token}
IsBotTurn(r) == r.seat[r.turn] = Machine

-----------------------------------------------------------------------------
(* The life of a game.                                                     *)

StartGame(r) ==
  [r EXCEPT !.status = "active", !.turn = White, !.drawOffer = NoColor,
            !.activeColor = NoColor, !.turnStartedAt = NoTime,
            !.botMoveDueAt = NoTime]

\* (slip) The pending draw offer outlives the game.
FinishGameKeepOffer(r, winner, status) ==
  [r EXCEPT !.status = status, !.winner = winner, !.activeColor = NoColor,
            !.turnStartedAt = NoTime, !.botMoveDueAt = NoTime]

FinishGame(r, winner, status) ==
  [r EXCEPT !.status = status, !.winner = winner, !.drawOffer = NoColor,
            !.activeColor = NoColor, !.turnStartedAt = NoTime,
            !.botMoveDueAt = NoTime]

TimeLeft(ms, elapsed) == IF elapsed < ms THEN ms - elapsed ELSE 0

AdvanceClock(r, ts) ==
  IF /\ r.clockEnabled
     /\ r.activeColor # NoColor /\ r.turnStartedAt # NoTime
     /\ ts > r.turnStartedAt
  THEN [r EXCEPT !.clocks[r.activeColor] = TimeLeft(@, ts - r.turnStartedAt),
                 !.turnStartedAt = ts]
  ELSE r

\* (slip) Only White's flag is looked at.
FinishIfWhiteTimedOut(r) ==
  IF r.clockEnabled /\ r.status = "active" /\ r.clocks[White] <= 0
  THEN FinishGame(r, Black, "timeout")
  ELSE r

FinishIfTimedOut(r) ==
  IF r.clockEnabled /\ r.status = "active"
  THEN IF r.clocks[White] <= 0 THEN FinishGame(r, Black, "timeout")
       ELSE IF r.clocks[Black] <= 0 THEN FinishGame(r, White, "timeout")
       ELSE r
  ELSE r

\* What a legal move may lead to; the last move the bound allows ends the game.
MoveOutcomes(r) == IF r.moves + 1 < MaxMoves THEN Outcome ELSE Outcome \ {"open"}

\* The position, turn and history after a legal move, before its outcome is judged.
Played(r, outcome, ts) ==
  [r EXCEPT !.board = outcome, !.turn = Opposite(@), !.moves = @ + 1,
            !.firstMoveAt = IF r.moves = 0 THEN ts ELSE @,
            !.drawOffer = NoColor]

\* The game goes on: the opponent's clock starts, a bot's move becomes due.
PassTurn(r, ts) ==
  [r EXCEPT !.activeColor = IF r.clockEnabled THEN r.turn ELSE NoColor,
            !.turnStartedAt = IF r.clockEnabled THEN ts ELSE NoTime,
            !.botMoveDueAt = IF IsBotTurn(r) THEN ts + BotMoveDelayMs ELSE NoTime]

ApplyMove(r, outcome, ts) ==
  LET played == Played(r, outcome, ts)
  IN  IF outcome = "open" THEN PassTurn(played, ts)
      ELSE IF outcome = "checkmate" THEN FinishGame(played, r.turn, WonOnBoard)
      ELSE FinishGame(played, NoColor, outcome)

-----------------------------------------------------------------------------
(* The commands.                                                           *)

NewRoom(mode, clockEnabled, t) ==
  LET waiting ==
        [mode |-> mode, clockEnabled |-> clockEnabled, board |-> "open",
         turn |-> White, status |-> "waiting", winner |-> NoColor,
         seat |-> [c \in Color |-> IF c = White THEN t
                                   ELSE IF mode = "bot_easy" THEN Machine ELSE Nobody],
         spectators |-> {},
         connected |-> IF mode = "bot_easy" THEN {t, Machine} ELSE {t},
         clocks |-> [c \in Color |-> IF clockEnabled THEN InitialMs ELSE 0],
         activeColor |-> NoColor, turnStartedAt |-> NoTime,
         moves |-> 0, firstMoveAt |-> NoTime,
         drawOffer |-> NoColor, botMoveDueAt |-> NoTime]
  IN  IF mode = "bot_easy" THEN StartGame(waiting) ELSE waiting

Reconnect(r, t) == [r EXCEPT !.connected = @ \cup {t}]
Disconnect(r, t) == [r EXCEPT !.connected = @ \ {t}]

SitDown(r, c, t) == [r EXCEPT !.seat[c] = t, !.connected = @ \cup {t}]

\* A session the room knows reconnects; anyone else gets a new token in the
\* first free seat, or among the spectators.
\* (slip) A newcomer takes the seat of a player who is away.
JoinResultsAway(r, t, fresh) ==
  IF t \in Members(r) THEN {Reconnect(r, t)}
  ELSE {SitDown(r, c, fresh) : c \in {d \in Color : r.seat[d] \in Token \ r.connected}}

\* (slip) Whoever takes the second seat starts a game, even after the end.
JoinResultsRestart(r, t, fresh) ==
  IF t \in Members(r) THEN {Reconnect(r, t)}
  ELSE {StartGame(SitDown(r, c, fresh)) : c \in {d \in Color : r.seat[d] = Nobody}}

JoinResults(r, t, fresh) ==
  IF t \in Members(r) THEN {Reconnect(r, t)}
  ELSE IF r.seat[White] = Nobody
       THEN {IF r.seat[Black] # Nobody /\ r.status = "waiting"
             THEN StartGame(SitDown(r, White, fresh))
             ELSE SitDown(r, White, fresh)}
  ELSE IF r.seat[Black] = Nobody
       THEN {IF r.status = "waiting"
             THEN StartGame(SitDown(r, Black, fresh))
             ELSE SitDown(r, Black, fresh)}
  ELSE {Reconnect([r EXCEPT !.spectators = @ \cup {fresh}], fresh)}

\* A seat is given up only before or after the game.
\* (slip) A player who leaves a game in play gives up the seat.
StandUpInPlay(r, t) ==
  [Disconnect(r, t) EXCEPT
     !.seat = [c \in Color |-> IF r.seat[c] = t THEN Nobody ELSE r.seat[c]]]

StandUp(r, t) ==
  IF r.status = "waiting" \/ IsFinished(r)
  THEN [Disconnect(r, t) EXCEPT
          !.seat = [c \in Color |-> IF r.seat[c] = t THEN Nobody ELSE r.seat[c]]]
  ELSE Disconnect(r, t)

ShouldDelete(r) ==
  /\ HumanSeats(r) = {}
  /\ \/ r.spectators = {}
     \/ IsFinished(r)

LeaveResults(r, t) ==
  LET left == IF HoldsSeat(r, t) THEN StandUp(r, t)
              ELSE [Disconnect(r, t) EXCEPT !.spectators = @ \ {t}]
  IN  IF t \notin Members(r) THEN {}
      ELSE IF (r.mode = "bot_easy" /\ HoldsSeat(r, t)) \/ ShouldDelete(left)
      THEN {Absent}
      ELSE {left}

\* SyncState saves the room even when the session is unknown.
SyncResults(r, t) == {IF t \in Members(r) THEN Reconnect(r, t) ELSE r}

MarkDisconnectedResults(r, t) ==
  IF t \in Members(r) THEN {Disconnect(r, t)} ELSE {}

\* The flag is looked at before the move; a room already lost on time is
\* saved again and answered as a success.
\* (slip) The move is applied without a look at the clock.
SubmitActionResultsUntimed(r, t, ts) ==
  IF r.status = "active" /\ Holds(r, t, r.turn)
  THEN {ApplyMove(r, o, ts) : o \in MoveOutcomes(r)}
  ELSE {}

SubmitActionResults(r, t, ts) ==
  LET timed == FinishIfTimedOut(AdvanceClock(r, ts))
  IN  IF ~HoldsSeat(r, t) THEN {}
      ELSE IF timed.status = "timeout" THEN {timed}
      ELSE IF timed.status = "active" /\ Holds(timed, t, timed.turn)
      THEN {ApplyMove(timed, o, ts) : o \in MoveOutcomes(timed)}
      ELSE {}

\* (slip) A game that is over can be resigned.
ResignResultsAnytime(r, t) ==
  {FinishGame(r, Opposite(c), "resigned") : c \in {d \in Color : Holds(r, t, d)}}

ResignResults(r, t) ==
  {FinishGame(r, Opposite(c), "resigned") :
     c \in {d \in Color : Holds(r, t, d) /\ ~IsFinished(r)}}

OfferDrawResults(r, t) ==
  {[r EXCEPT !.drawOffer = c] :
     c \in {d \in Color : /\ Holds(r, t, d)
                          /\ r.mode # "bot_easy"
                          /\ r.status = "active"
                          /\ r.drawOffer # d}}

\* Accepting and declining look at the pending offer only, not at the status.
MayAnswerOffer(r, t) ==
  /\ r.mode # "bot_easy"
  /\ \E c \in Color : Holds(r, t, c) /\ r.drawOffer = Opposite(c)

AcceptDrawResults(r, t) ==
  IF MayAnswerOffer(r, t) THEN {FinishGame(r, NoColor, "draw")} ELSE {}

DeclineDrawResults(r, t) ==
  IF MayAnswerOffer(r, t) THEN {[r EXCEPT !.drawOffer = NoColor]} ELSE {}

-----------------------------------------------------------------------------
(* One room of TickActiveRooms.                                            *)

ShouldPlayBotMove(r, ts) ==
  /\ r.status = "active"
  /\ r.botMoveDueAt # NoTime /\ r.botMoveDueAt <= ts
  /\ IsBotTurn(r)

\* What the engine may answer: a move with its outcome, no move, or an
\* error, which covers a timeout and a move that selectMove refuses.
BotAnswers(r) == MoveOutcomes(r) \cup {"none", "error"}

\* (slip) A failed call to the engine is not scheduled again.
RetryBotNever(r, ts) == [r EXCEPT !.botMoveDueAt = NoTime]

RetryBotLater(r, ts) == [r EXCEPT !.botMoveDueAt = ts + BotMoveDelayMs]

\* performBotMove returns applyMoveToState's nil *AppError as an error that is
\* not nil, so the tick handles a move that was applied like a failed call too.
PerformBotMove(r, ans, ts) ==
  IF ans = "none"
  THEN IF r.board = "open" THEN RetryBotLater(r, ts)
       ELSE IF r.board = "checkmate" THEN FinishGame(r, Opposite(r.turn), WonOnBoard)
       ELSE FinishGame(r, NoColor, "stalemate")
  ELSE IF ans = "error" THEN RetryBotLater(r, ts)
  ELSE RetryBotLater(ApplyMove(r, ans, ts), ts)

\* The clock alone is not saved: nothing is, unless a flag fell or a bot was asked.
\* (slip) The tick saves the room only when a machine has moved.
TickResultsBotOnly(r, ts) ==
  LET timed == FinishIfTimedOut(AdvanceClock(r, ts))
  IN  IF ShouldPlayBotMove(timed, ts)
      THEN {PerformBotMove(timed, ans, ts) : ans \in BotAnswers(timed)}
      ELSE {}

TickResults(r, ts) ==
  LET timed == FinishIfTimedOut(AdvanceClock(r, ts))
  IN  IF ShouldPlayBotMove(timed, ts)
      THEN {PerformBotMove(timed, ans, ts) : ans \in BotAnswers(timed)}
      ELSE IF timed.status # r.status THEN {timed}
      ELSE {}
=============================================================================

----------------------------- MODULE RoomSafety -----------------------------
(***************************************************************************)
(* What makes one stored room record sound.  The predicates speak of a     *)
(* single record, so the same ones are checked of the room in Room and of  *)
(* every stored, loaded and half-processed record in RoomStore.            *)
(***************************************************************************)
EXTENDS RoomRules

\* Seats, session tokens and status fit together: a waiting room has White
\* alone in it, a game in play has both seats taken, a bot room keeps its
\* human in White and its machine in Black, and no session has two places
\* (JoinRoom 219-280, LeaveRoom 315-353, CreateRoom 138-141).
SeatsSound(r) ==
  /\ r.status = "waiting" =>
       /\ r.seat[White] \in Token /\ r.seat[Black] = Nobody
       /\ r.spectators = {}
  /\ r.status = "active" => \A c \in Color : r.seat[c] # Nobody
  /\ IF r.mode = "bot_easy"
     THEN r.seat[White] \in Token /\ r.seat[Black] = Machine /\ r.status # "waiting"
     ELSE \A c \in Color : r.seat[c] # Machine
  /\ r.seat[White] \in Token => r.seat[White] # r.seat[Black]
  /\ \A c \in Color : r.seat[c] \notin r.spectators
  /\ r.connected \subseteq Members(r) \cup {Machine}

\* No room is kept once its last player is gone (LeaveRoom 350-371), though
\* players come and go in finished rooms and in any order.
HasPlayer(r) == HumanSeats(r) # {}

\* The verdict agrees with the position, the history and the clocks: mate is
\* given by the player who just moved, the flag that fell is the mover's and
\* the other one is up, a game in play has no verdict and a live position
\* (finishIfTimedOut 870-886, applyMoveToState 756-779, finishGame 888-899).
VerdictSound(r) ==
  /\ r.status \in {"waiting", "active"} => r.board = "open" /\ r.winner = NoColor
  /\ r.status = "waiting" => r.moves = 0
  /\ r.status = WonOnBoard => r.board = "checkmate" /\ r.winner = Opposite(r.turn)
  /\ r.status = "stalemate" => r.board = "stalemate" /\ r.winner = NoColor
  /\ r.status = "draw" => r.board \in {"open", "draw"} /\ r.winner = NoColor
  /\ r.status = "resigned" => r.board = "open" /\ r.winner \in Color
  /\ r.status = "timeout" =>
       /\ r.clockEnabled /\ r.moves > 0 /\ r.board = "open"
       /\ r.winner = Opposite(r.turn)
       /\ r.clocks[r.turn] = 0 /\ r.clocks[r.winner] > 0

\* A draw offer stands only while the game between two people is in play;
\* AcceptDraw relies on it, as it never looks at the status (641-651).
OfferSound(r) ==
  r.drawOffer # NoColor => r.status = "active" /\ r.mode = "pvp"

\* Exactly one clock runs in a timed game from its first move to its end, and
\* it is the mover's; the bot's seat is no exception.
MoverOnTheClock(r) ==
  /\ r.activeColor # NoColor <=>
       r.clockEnabled /\ r.status = "active" /\ r.moves > 0
  /\ r.turnStartedAt # NoTime <=> r.activeColor # NoColor
  /\ r.activeColor # NoColor => r.activeColor = r.turn

\* No thinking time is lost or charged twice: while a clock runs, what the two
\* players have used adds up to the time from the first move to the last
\* reading, and nobody has used up his own (advanceClock 849-868).
ClockConserved(r) ==
  /\ r.activeColor # NoColor =>
       (InitialMs - r.clocks[White]) + (InitialMs - r.clocks[Black])
         = r.turnStartedAt - r.firstMoveAt
  /\ r.clockEnabled /\ r.status = "active" => \A c \in Color : r.clocks[c] > 0
  /\ r.clockEnabled /\ r.moves = 0 => \A c \in Color : r.clocks[c] = InitialMs

\* The machine on turn always has a time at which it is asked for its move
\* (startGame clears it, applyMoveToState and TickActiveRooms set it again).
BotScheduled(r) ==
  r.status = "active" /\ IsBotTurn(r) => r.botMoveDueAt # NoTime

\* The history the predicates above lean on.
HistorySound(r) ==
  /\ r.turn = IF r.moves % 2 = 0 THEN White ELSE Black
  /\ r.firstMoveAt # NoTime <=> r.moves > 0
  /\ r.board = "open" => r.moves < MaxMoves

\* Nothing in the record is dated after the clock t.
NotAfter(r, t) ==
  r.firstMoveAt <= t /\ r.turnStartedAt <= t /\ r.botMoveDueAt <= t + BotMoveDelayMs

Sound(r, t) ==
  /\ r \in Room
  /\ SeatsSound(r)
  /\ HasPlayer(r)
  /\ VerdictSound(r)
  /\ OfferSound(r)
  /\ MoverOnTheClock(r)
  /\ ClockConserved(r)
  /\ BotScheduled(r)
  /\ HistorySound(r)
  /\ NotAfter(r, t)
=============================================================================

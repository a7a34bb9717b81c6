------------------------------ MODULE RoomLive ------------------------------
(***************************************************************************)
(* What the ticker guarantees: Room with the fairness of the gateway's     *)
(* one-second ticker and of time itself, and a bot engine that is up for   *)
(* good from some time on.                                                 *)
(***************************************************************************)
EXTENDS Room

CONSTANT EngineUpAt      \* from here on the engine answers with legal moves

ASSUME EngineAssumption ==
  EngineUpAt \in Nat /\ EngineUpAt + BotMoveDelayMs <= MaxTime

\* A tick that asks the machine for a move, once the engine is up, does not come
\* back empty-handed.  Nothing else is bound by it: time and the players go on.
EngineUp ==
  LET timed == FinishIfTimedOut(AdvanceClock(room, now))
  IN  now >= EngineUpAt /\ ShouldPlayBotMove(timed, now) => room' # RetryBotLater(timed, now)

EngineTick == TickActiveRooms /\ EngineUp

LiveNext == PlayerAction \/ EngineTick \/ TimePasses

LiveSpec ==
  /\ Init /\ [][LiveNext]_vars
  /\ WF_vars(TimePasses)
  /\ WF_vars(EngineTick)

\* A timed game does not hang: once a move is made, somebody's flag falls or the
\* game ends before that, even if both players walk away (TickActiveRooms
\* 583-586).  The bound on the clock must leave both players their time.
TimedGameEnds ==
  (Exists /\ room.activeColor # NoColor /\ room.firstMoveAt + 2 * InitialMs <= MaxTime)
    ~> (~Exists \/ IsFinished(room))

\* The machine does not leave its opponent waiting: however many calls to the
\* engine fail, its turn ends (TickActiveRooms 588-596).  A due time beyond the
\* bound on the clock says nothing.
BotReplies ==
  (Exists /\ room.status = "active" /\ IsBotTurn(room) /\ room.botMoveDueAt <= MaxTime)
    ~> (~Exists \/ room.status # "active" \/ ~IsBotTurn(room))
=============================================================================

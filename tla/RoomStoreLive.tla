---------------------------- MODULE RoomStoreLive ----------------------------
(***************************************************************************)
(* What the ticker and the heartbeats guarantee together although handlers *)
(* overlap, match-core restarts and Redis forgets.  Fairness: the gateway  *)
(* ticks every second, somebody keeps the page open and so sends a         *)
(* sync_state, Redis does not refuse every write for ever, and a handler   *)
(* that has written ends.                                                  *)
(***************************************************************************)
EXTENDS RoomStore

Heartbeat == \E w \in Worker, t \in Token : Load(w, "sync", t, t)

LiveSpec ==
  /\ Spec
  /\ WF_vars(TimePasses)
  /\ WF_vars(TickLoad)
  /\ WF_vars(Heartbeat)
  /\ \A h \in Handler : SF_vars(Write(h)) /\ WF_vars(Note(h))

\* A stored room does not drop out of the ticker's sight for good, although a
\* restart whose PrimeMetrics fails forgets it and a tick that found no record
\* untracks it after another handler has created it (TickActiveRooms 572-573,
\* saveRoom 664): any save brings it back.
TrackedAgain == store # Absent /\ ~tracked ~> store = Absent \/ tracked

\* No clock runs for ever: even if the verdict of the tick is overwritten by a
\* handler with an older copy, a timed game ends, is taken back to where no
\* clock runs, or goes away.  The bound must leave both players their time.
ClockStops ==
  (store # Absent /\ store.activeColor # NoColor /\ store.firstMoveAt + 2 * InitialMs <= MaxTime)
    ~> (store = Absent \/ store.activeColor = NoColor)
=============================================================================

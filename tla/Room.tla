-------------------------------- MODULE Room --------------------------------
(***************************************************************************)
(* One chess room of match-core, every handler one step: the behaviour the *)
(* service has when no two handlers overlap.                               *)
(***************************************************************************)
EXTENDS RoomSafety

CONSTANT MaxTime      \* bound on the wall clock

VARIABLES room,       \* the record under the room's key, or Absent
          issued,     \* the session tokens handed out so far
          now         \* the wall clock, in units of time

vars == <<room, issued, now>>

ASSUME MaxTimeAssumption == MaxTime \in Nat

Init == room = Absent /\ issued = {} /\ now = 0

Exists == room # Absent

\* The rooms in which a handler of the session t leaves the record.
Saves(results) == room' \in results /\ UNCHANGED <<issued, now>>

CreateRoom(mode, clockEnabled, t) ==
  /\ ~Exists /\ issued = {}
  /\ room' = NewRoom(mode, clockEnabled, t)
  /\ issued' = {t}
  /\ UNCHANGED now

JoinRoom(t, fresh) ==
  /\ Exists
  /\ t \notin Members(room) => fresh \notin issued
  /\ room' \in JoinResults(room, t, fresh)
  /\ issued' = issued \cup Members(room')
  /\ UNCHANGED now

LeaveRoom(t) == Exists /\ Saves(LeaveResults(room, t))
SyncState(t) == Exists /\ Saves(SyncResults(room, t))
MarkDisconnected(t) == Exists /\ Saves(MarkDisconnectedResults(room, t))
SubmitAction(t) == Exists /\ Saves(SubmitActionResults(room, t, now))
Resign(t) == Exists /\ Saves(ResignResults(room, t))
OfferDraw(t) == Exists /\ Saves(OfferDrawResults(room, t))
AcceptDraw(t) == Exists /\ Saves(AcceptDrawResults(room, t))
DeclineDraw(t) == Exists /\ Saves(DeclineDrawResults(room, t))

TickActiveRooms == Exists /\ Saves(TickResults(room, now))

TimePasses == now < MaxTime /\ now' = now + 1 /\ UNCHANGED <<room, issued>>

\* One call of a player.
PlayerAction ==
  \/ \E mode \in {"pvp", "bot_easy"}, clockEnabled \in BOOLEAN, t \in Token :
        CreateRoom(mode, clockEnabled, t)
  \/ \E t, fresh \in Token : JoinRoom(t, fresh)
  \/ \E t \in Token : LeaveRoom(t)
  \/ \E t \in Token : SyncState(t)
  \/ \E t \in Token : MarkDisconnected(t)
  \/ \E t \in Token : SubmitAction(t)
  \/ \E t \in Token : Resign(t)
  \/ \E t \in Token : OfferDraw(t)
  \/ \E t \in Token : AcceptDraw(t)
  \/ \E t \in Token : DeclineDraw(t)

Next == PlayerAction \/ TickActiveRooms \/ TimePasses

Spec == Init /\ [][Next]_vars

-----------------------------------------------------------------------------

\* The shape of the record, and only tokens that were handed out are in it.
TypeOK ==
  /\ room \in Room \cup {Absent}
  /\ issued \subseteq Token
  /\ now \in 0 .. MaxTime
  /\ Exists => Members(room) \subseteq issued

\* The inductive invariant.
RoomSound == TypeOK /\ (Exists => Sound(room, now))

-----------------------------------------------------------------------------

\* A game that is over stays as it ended, whoever leaves, returns, joins the
\* empty seat, answers an old draw offer or ticks (JoinRoom 228 and 255,
\* SubmitAction 458-467, Resign 494).
Verdict == <<room.status, room.winner, room.board, room.moves, room.clocks>>
FinishedIsFinal ==
  [][Exists /\ IsFinished(room) /\ room' # Absent => Verdict' = Verdict]_vars

\* Nobody takes a seat that has an owner, and during a game nobody leaves one:
\* a player who walks out of a game finds the seat again (LeaveRoom 315-324).
SeatsKept ==
  [][Exists /\ room' # Absent =>
       \A c \in Color :
          /\ room'.seat[c] \in {room.seat[c], Nobody} \/ room.seat[c] = Nobody
          /\ room.status = "active" => room'.seat[c] = room.seat[c]]_vars

\* No move is recorded by a player whose time was up when it arrived, even when
\* no tick has noticed it yet (SubmitAction 456-463, TickActiveRooms 583-588).
NoMoveAfterFlag ==
  [][Exists /\ room' # Absent /\ room'.moves > room.moves /\ room.activeColor # NoColor =>
       now - room.turnStartedAt < room.clocks[room.activeColor]]_vars
=============================================================================

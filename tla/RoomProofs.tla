----------------------------- MODULE RoomProofs -----------------------------
(***************************************************************************)
(* Room's invariant for any number of sessions, any clock and any length   *)
(* of game, from the lemmas on the single commands; from it, what happens  *)
(* to seats and to flagged players, and that the room is a match.          *)
(***************************************************************************)
EXTENDS RoomRefinement, RoomRulesProofs

USE ParametersAssumption, MaxTimeAssumption DEF RoomWith

LEMMA InitSound == ASSUME Init PROVE RoomSound
BY DEF Init, RoomSound, TypeOK, Exists, Members

\* A handler that saves a sound room without new members keeps the invariant.
LEMMA SaveSound ==
  ASSUME RoomSound, Exists, UNCHANGED <<issued, now>>,
         room' = Absent \/ (Sound(room', now) /\ Members(room') \subseteq Members(room))
  PROVE  RoomSound'
<1>1. /\ issued \subseteq Token /\ now \in 0 .. MaxTime /\ Members(room) \subseteq issued
      /\ issued' = issued /\ now' = now
  BY DEF RoomSound, TypeOK
<1>2. room' \in Room \cup {Absent} BY DEF Sound
<1>3. Exists' => Sound(room', now') /\ Members(room') \subseteq issued'
  BY <1>1 DEF Exists
<1> QED BY <1>1, <1>2, <1>3 DEF RoomSound, TypeOK

LEMMA NextSound == ASSUME RoomSound, [Next]_vars PROVE RoomSound'
<1>1. now \in Nat /\ issued \subseteq Token
  BY DEF RoomSound, TypeOK
<1>2. Exists => Sound(room, now) /\ room \in Room /\ Members(room) \subseteq issued
  BY DEF RoomSound, TypeOK, Sound
<1>3. ASSUME NEW mode \in {"pvp", "bot_easy"}, NEW clockEnabled \in BOOLEAN, NEW t \in Token,
             CreateRoom(mode, clockEnabled, t)
      PROVE  RoomSound'
  <2>1. room' = NewRoom(mode, clockEnabled, t) /\ issued' = {t} /\ now' = now
    BY <1>3 DEF CreateRoom
  <2>2. Sound(room', now) /\ Members(room') = {t}
    BY <1>1, <2>1, NewRoomSound
  <2> QED BY <2>1, <2>2 DEF RoomSound, TypeOK, Exists, Sound
<1>4. ASSUME NEW t \in Token, NEW fresh \in Token, JoinRoom(t, fresh) PROVE RoomSound'
  <2>1. /\ Exists /\ room' \in JoinResults(room, t, fresh)
        /\ issued' = issued \cup Members(room') /\ now' = now
        /\ t \notin Members(room) => fresh \notin Members(room)
    BY <1>2, <1>4 DEF JoinRoom
  <2>2. Sound(room', now)
    BY <1>1, <1>2, <2>1, JoinSound
  <2>3. Members(room') \subseteq Token
    BY DEF Members
  <2> QED BY <1>1, <2>1, <2>2, <2>3 DEF RoomSound, TypeOK, Exists, Sound
<1>5. ASSUME NEW t \in Token, LeaveRoom(t) PROVE RoomSound'
  <2>1. Exists /\ room' \in LeaveResults(room, t) /\ UNCHANGED <<issued, now>>
    BY <1>5 DEF LeaveRoom, Saves
  <2>2. room' # Absent => Sound(room', now) /\ Members(room') \subseteq Members(room)
    BY <1>1, <1>2, <2>1, LeaveSound, LeavePeople
  <2> QED BY <2>1, <2>2, SaveSound
<1>6. ASSUME NEW t \in Token, SyncState(t) \/ MarkDisconnected(t) PROVE RoomSound'
  <2>1. /\ Exists /\ UNCHANGED <<issued, now>>
        /\ room' \in SyncResults(room, t) \cup MarkDisconnectedResults(room, t)
    BY <1>6 DEF SyncState, MarkDisconnected, Saves
  <2>2. Sound(room', now)
    BY <1>1, <1>2, <2>1, ReconnectSound, DisconnectSound
    DEF SyncResults, MarkDisconnectedResults
  <2>3. Members(room') = Members(room)
    BY <1>2, <2>1, OtherPeople
  <2> QED BY <2>1, <2>2, <2>3, SaveSound
<1>7. ASSUME NEW t \in Token, SubmitAction(t) PROVE RoomSound'
  <2>1. /\ Exists /\ UNCHANGED <<issued, now>> /\ room' \in SubmitActionResults(room, t, now)
    BY <1>7 DEF SubmitAction, Saves
  <2>2. Sound(room', now) /\ Members(room') = Members(room)
    BY <1>1, <1>2, <2>1, SubmitActionSound, GamePeople
  <2> QED BY <2>1, <2>2, SaveSound
<1>8. ASSUME NEW t \in Token, Resign(t) \/ OfferDraw(t) \/ AcceptDraw(t) \/ DeclineDraw(t)
      PROVE  RoomSound'
  <2>1. /\ Exists /\ UNCHANGED <<issued, now>>
        /\ \/ room' \in ResignResults(room, t)
           \/ room' \in OfferDrawResults(room, t) \cup AcceptDrawResults(room, t)
                          \cup DeclineDrawResults(room, t)
    BY <1>8 DEF Resign, OfferDraw, AcceptDraw, DeclineDraw, Saves
  <2>2. Sound(room', now)
    BY <1>1, <1>2, <2>1, ResignSound, DrawSound
  <2>3. Members(room') = Members(room)
    BY <1>2, <2>1, OtherPeople
  <2> QED BY <2>1, <2>2, <2>3, SaveSound
<1>9. CASE TickActiveRooms
  <2>1. /\ Exists /\ UNCHANGED <<issued, now>> /\ room' \in TickResults(room, now)
    BY <1>9 DEF TickActiveRooms, Saves
  <2>2. Sound(room', now)
    BY <1>1, <1>2, <2>1, TickSound
  <2>3. CASE Token = {}
    BY <2>1, <2>2, <2>3, SaveSound DEF Members
  <2>4. CASE Token # {}
    <3>1. PICK t \in Token : TRUE BY <2>4
    <3>2. Members(room') = Members(room)
      BY <1>1, <1>2, <2>1, GamePeople
    <3> QED BY <2>1, <2>2, <3>2, SaveSound
  <2> QED BY <2>3, <2>4
<1>10. CASE TimePasses
  <2>1. now' = now + 1 /\ now < MaxTime /\ UNCHANGED <<room, issued>>
    BY <1>10 DEF TimePasses
  <2>2. Exists => Sound(room, now + 1)
    BY <1>1, <1>2, SoundLater
  <2> QED BY <2>1, <2>2 DEF RoomSound, TypeOK, Exists
<1>11. CASE UNCHANGED vars
  BY <1>11 DEF vars, RoomSound, TypeOK, Exists
<1> QED
  BY <1>3, <1>4, <1>5, <1>6, <1>7, <1>8, <1>9, <1>10, <1>11 DEF Next, PlayerAction

\* The room that match-core stores is sound in every reachable state: for any
\* number of sessions, any clock and any length of the game.
THEOREM RoomIsSound == Spec => []RoomSound
<1>1. Init => RoomSound BY InitSound
<1>2. RoomSound /\ [Next]_vars => RoomSound' BY NextSound
<1> QED BY <1>1, <1>2, PTL DEF Spec

-----------------------------------------------------------------------------

LEMMA FinishedStepIsFinal ==
  ASSUME RoomSound, [Next]_vars, Exists, IsFinished(room), room' # Absent
  PROVE  Verdict' = Verdict
<1>1. now \in Nat /\ Sound(room, now)
  BY DEF RoomSound, TypeOK
<1>2. SameTable(room', room) => Verdict' = Verdict
  BY DEF SameTable, SameGame, SamePhase, Verdict
<1>3. ASSUME NEW t \in Token, NEW fresh \in Token,
             \/ JoinRoom(t, fresh) \/ LeaveRoom(t) \/ SyncState(t) \/ MarkDisconnected(t)
      PROVE  Verdict' = Verdict
  <2>1. room' \in JoinResults(room, t, fresh) \cup LeaveResults(room, t) \cup SyncResults(room, t)
                    \cup MarkDisconnectedResults(room, t)
    BY <1>3 DEF JoinRoom, LeaveRoom, SyncState, MarkDisconnected, Saves
  <2> QED BY <1>1, <1>2, <2>1, VerdictKeptByPeople
<1>4. ASSUME NEW t \in Token,
             \/ SubmitAction(t) \/ Resign(t) \/ OfferDraw(t) \/ AcceptDraw(t) \/ DeclineDraw(t)
      PROVE  Verdict' = Verdict
  <2>1. room' \in SubmitActionResults(room, t, now) \cup ResignResults(room, t)
                    \cup OfferDrawResults(room, t) \cup AcceptDrawResults(room, t)
                    \cup DeclineDrawResults(room, t)
    BY <1>4 DEF SubmitAction, Resign, OfferDraw, AcceptDraw, DeclineDraw, Saves
  <2>2. room' = room BY <1>1, <2>1, VerdictKeptByPlay
  <2> QED BY <2>2 DEF Verdict
<1>5. ~TickActiveRooms
  BY <1>1, VerdictKeptByTick DEF TickActiveRooms, Saves
<1>6. CASE TimePasses \/ UNCHANGED vars
  BY <1>6 DEF TimePasses, vars, Verdict
<1>7. ASSUME NEW mode, NEW clockEnabled, NEW t PROVE ~CreateRoom(mode, clockEnabled, t)
  BY DEF CreateRoom
<1>8. ASSUME NEW t \in Token, \/ LeaveRoom(t) \/ SyncState(t) \/ MarkDisconnected(t)
      PROVE  Verdict' = Verdict
  BY <1>3, <1>8
<1> QED BY <1>3, <1>4, <1>5, <1>6, <1>7, <1>8 DEF Next, PlayerAction

\* No command and no tick touches the verdict, the position, the history or
\* the clocks of a game that is over.
THEOREM VerdictIsFinal == Spec => FinishedIsFinal
<1>1. RoomSound /\ [Next]_vars =>
        [Exists /\ IsFinished(room) /\ room' # Absent => Verdict' = Verdict]_vars
  BY FinishedStepIsFinal
<1> QED BY <1>1, RoomIsSound, PTL DEF Spec, FinishedIsFinal

-----------------------------------------------------------------------------
(* Each step and the match, the seats and the flag.                        *)

\* A step of a handler or of the tick, from a room that exists.
LEMMA HandlersProceed ==
  ASSUME RoomSound, [Next]_vars, Exists
  PROVE  /\ Exists' => Proceeds(room', room) /\ SeatsHeld(room', room)
         /\ ~Exists' => IsFinished(room) \/ room.status = "waiting" \/ room.mode = "bot_easy"
         /\ Exists' /\ room'.moves > room.moves /\ room.activeColor # NoColor =>
              now - room.turnStartedAt < room.clocks[room.activeColor]
<1>1. now \in Nat /\ Sound(room, now) /\ room \in Room
  BY DEF RoomSound, TypeOK, Sound
<1>2. room.moves \in Nat BY <1>1 DEF Room
<1>3. ASSUME NEW t \in Token, NEW fresh \in Token, JoinRoom(t, fresh)
      PROVE  Proceeds(room', room) /\ SeatsHeld(room', room) /\ room'.moves = room.moves
  BY <1>1, <1>3, JoinProceeds DEF JoinRoom
<1>4. ASSUME NEW t \in Token, LeaveRoom(t)
      PROVE  /\ Exists' => Proceeds(room', room) /\ SeatsHeld(room', room)
                           /\ room'.moves = room.moves
             /\ ~Exists' => IsFinished(room) \/ room.status = "waiting" \/ room.mode = "bot_easy"
  BY <1>1, <1>4, LeaveProceeds DEF LeaveRoom, Saves, Exists
<1>5. ASSUME NEW t \in Token, SyncState(t) \/ MarkDisconnected(t)
      PROVE  Proceeds(room', room) /\ SeatsHeld(room', room) /\ room'.moves = room.moves
  BY <1>1, <1>5, PresenceProceeds DEF SyncState, MarkDisconnected, Saves
<1>6. ASSUME NEW t \in Token, Resign(t) \/ OfferDraw(t) \/ AcceptDraw(t) \/ DeclineDraw(t)
      PROVE  Proceeds(room', room) /\ SeatsHeld(room', room) /\ room'.moves = room.moves
  BY <1>1, <1>6, ResignProceeds, DrawProceeds DEF Resign, OfferDraw, AcceptDraw, DeclineDraw, Saves
<1>7. ASSUME NEW t \in Token, SubmitAction(t) \/ TickActiveRooms
      PROVE  /\ Proceeds(room', room) /\ SeatsHeld(room', room)
             /\ room'.moves > room.moves /\ room.activeColor # NoColor =>
                  now - room.turnStartedAt < room.clocks[room.activeColor]
  <2>1. room' \in SubmitActionResults(room, t, now) \cup TickResults(room, now)
    BY <1>7 DEF SubmitAction, TickActiveRooms, Saves
  <2> QED BY <1>1, <2>1, SubmitActionProceeds, TickProceeds, GameMovesInTime
<1>8. CASE TimePasses \/ UNCHANGED vars
  BY <1>2, <1>8 DEF TimePasses, vars, Exists, Proceeds, SameMatch, SeatsHeld
<1>9. ASSUME NEW mode, NEW clockEnabled, NEW t PROVE ~CreateRoom(mode, clockEnabled, t)
  BY DEF CreateRoom
<1>10. CASE TickActiveRooms
  <2>1. Members(room) # {}
    <3>1. HumanSeats(room) # {} BY <1>1 DEF Sound, HasPlayer
    <3> QED BY <3>1, <1>1 DEF HumanSeats, Members, HoldsSeat, Holds
  <2>2. PICK t \in Token : TRUE BY <2>1 DEF Members
  <2>3. /\ Proceeds(room', room) /\ SeatsHeld(room', room)
        /\ room'.moves > room.moves /\ room.activeColor # NoColor =>
             now - room.turnStartedAt < room.clocks[room.activeColor]
    BY <1>7, <1>10, <2>2
  <2>4. Exists' BY <1>1, <1>10, TickSound DEF TickActiveRooms, Saves, Exists, Sound
  <2> QED BY <2>3, <2>4
<1>11. \A t, fresh \in Token :
         JoinRoom(t, fresh) \/ SyncState(t) \/ MarkDisconnected(t) \/ Resign(t)
           \/ OfferDraw(t) \/ AcceptDraw(t) \/ DeclineDraw(t) \/ SubmitAction(t) => Exists'
  <2> TAKE t, fresh \in Token
  <2>1. \A q : Sound(q, now) => q # Absent BY DEF Sound
  <2>2. JoinRoom(t, fresh) => Exists'
    <3>1. ASSUME JoinRoom(t, fresh) PROVE Exists'
      <4>1. t \notin Members(room) => fresh \notin Members(room)
        BY <3>1 DEF JoinRoom, RoomSound, TypeOK
      <4> QED BY <1>1, <2>1, <3>1, <4>1, JoinSound DEF JoinRoom, Exists
    <3> QED BY <3>1
  <2>3. SyncState(t) \/ MarkDisconnected(t) => Exists'
    BY <1>1, <2>1, ReconnectSound, DisconnectSound
    DEF SyncState, MarkDisconnected, Saves, SyncResults, MarkDisconnectedResults, Exists
  <2>4. Resign(t) \/ OfferDraw(t) \/ AcceptDraw(t) \/ DeclineDraw(t) => Exists'
    BY <1>1, <2>1, ResignSound, DrawSound
    DEF Resign, OfferDraw, AcceptDraw, DeclineDraw, Saves, Exists
  <2>5. SubmitAction(t) => Exists'
    BY <1>1, <2>1, SubmitActionSound DEF SubmitAction, Saves, Exists
  <2> QED BY <2>2, <2>3, <2>4, <2>5
<1> QED
  BY <1>2, <1>3, <1>4, <1>5, <1>6, <1>7, <1>8, <1>9, <1>10, <1>11 DEF Next, PlayerAction

\* Nobody takes a seat that has an owner, and nobody loses one during a game, with
\* any number of people coming and going (service.go 219-280, 315-324).
THEOREM NobodyIsUnseated == Spec => SeatsKept
<1>1. RoomSound /\ [Next]_vars =>
        [Exists /\ room' # Absent =>
           \A c \in Color :
              /\ room'.seat[c] \in {room.seat[c], Nobody} \/ room.seat[c] = Nobody
              /\ room.status = "active" => room'.seat[c] = room.seat[c]]_vars
  BY HandlersProceed DEF SeatsHeld, Exists
<1> QED BY <1>1, RoomIsSound, PTL DEF Spec, SeatsKept

\* No move is taken after the mover's flag fell, at any time at which it arrives and
\* whether or not the tick has seen the flag (service.go 456-463, 583-588).
THEOREM MovesAreInTime == Spec => NoMoveAfterFlag
<1>1. RoomSound /\ [Next]_vars =>
        [Exists /\ room' # Absent /\ room'.moves > room.moves /\ room.activeColor # NoColor =>
           now - room.turnStartedAt < room.clocks[room.activeColor]]_vars
  BY HandlersProceed DEF Exists
<1> QED BY <1>1, RoomIsSound, PTL DEF Spec, NoMoveAfterFlag

\* A room that exists was handed to somebody.
LEMMA RoomHasOwner == ASSUME RoomSound, Exists PROVE issued # {}
<1>1. Sound(room, now) /\ Members(room) \subseteq issued BY DEF RoomSound, TypeOK
<1>2. HumanSeats(room) # {} BY <1>1 DEF Sound, HasPlayer
<1> QED BY <1>1, <1>2 DEF HumanSeats, Members, HoldsSeat, Holds

\* Who is on turn in the match.
LEMMA MoverOnTurn ==
  ASSUME NEW r, r \in Room, HistorySound(r)
  PROVE  /\ r.turn = Match!Mover(r.moves) /\ Opposite(r.turn) = Match!Other(r.turn)
         /\ r.moves \in Nat
BY DEF Room, HistorySound, Match!Mover, Match!Other, Opposite, White, Black

\* The phases that the statuses stand for, in a room as it is and as it will be.
LEMMA PhaseNow ==
  ASSUME Exists
  PROVE  /\ room.status = "waiting" => MatchPhase = "waiting" /\ MatchResult = Match!Undecided
         /\ room.status = "active" => MatchPhase = "playing" /\ MatchResult = Match!Undecided
         /\ room.status \in FinishedStatus =>
              MatchPhase = "over" /\ MatchResult = <<Told(room.status), room.winner>>
BY DEF MatchPhase, MatchResult, Match!Undecided, IsFinished, FinishedStatus

LEMMA PhaseNext ==
  ASSUME Exists'
  PROVE  /\ room'.status = "active" => MatchPhase' = "playing" /\ MatchResult' = Match!Undecided
         /\ room'.status \in FinishedStatus =>
              MatchPhase' = "over" /\ MatchResult' = <<Told(room'.status), room'.winner>>
BY DEF MatchPhase, MatchResult, Match!Undecided, IsFinished, FinishedStatus

LEMMA MatchBegins == Init => Match!Init
BY DEF Init, Match!Init, MatchPhase, MatchResult, Match!Undecided, Exists

\* A room is created for a match that was not there.
LEMMA MatchOpens ==
  ASSUME NEW mode \in {"pvp", "bot_easy"}, NEW clockEnabled \in BOOLEAN, NEW t \in Token,
         RoomSound, CreateRoom(mode, clockEnabled, t)
  PROVE  Match!Next
<1>1. room = Absent /\ issued = {} /\ room' = NewRoom(mode, clockEnabled, t)
  BY DEF CreateRoom, Exists
<1>2. now \in Nat BY DEF RoomSound, TypeOK
<1>3. room' \in Room BY <1>1, <1>2, NewRoomSound DEF Sound
<1>4. /\ room'.mode = mode /\ room'.moves = 0
      /\ room'.status = IF mode = "bot_easy" THEN "active" ELSE "waiting"
  BY <1>1 DEF NewRoom, StartGame
<1>5. Match!Open(mode = "bot_easy")
  BY <1>1, <1>3, <1>4 DEF Match!Open, MatchPhase, MatchResult, Exists, IsFinished, FinishedStatus,
                          Match!Undecided
<1> QED BY <1>5 DEF Match!Next

\* A step between two rooms is a step of the match.
LEMMA MatchProceeds ==
  ASSUME RoomSound, RoomSound', Exists, Exists', Proceeds(room', room)
  PROVE  [Match!Next]_Match!vars
<1> DEFINE r == room
           q == room'
<1>1. q.mode = r.mode BY DEF Proceeds
<1>2. CASE SameMatch(q, r)
  <2>1. UNCHANGED Match!vars
    BY <1>1, <1>2 DEF Match!vars, MatchPhase, MatchResult, Exists, IsFinished, SameMatch
  <2> QED BY <2>1
<1> USE DEF Exists
<1>3. /\ r.turn = Match!Mover(r.moves) /\ Opposite(r.turn) = Match!Other(r.turn)
      /\ r.moves \in Nat
  BY MoverOnTurn DEF RoomSound, Sound
<1>4. /\ {WonOnBoard, "stalemate", "draw", "resigned", "timeout"} = FinishedStatus
      /\ Told(WonOnBoard) = "checkmate"
      /\ \A s \in {"stalemate", "draw", "resigned", "timeout"} : Told(s) = s
  BY DEF FinishedStatus, Told
<1>5. CASE Started(q, r)
  <2>1. Match!Start BY <1>1, <1>5, PhaseNow, PhaseNext DEF Match!Start, Started
  <2> QED BY <2>1 DEF Match!Next
<1>6. CASE Moved(q, r)
  <2>1. MatchPhase = "playing" /\ MatchResult = Match!Undecided BY <1>6, PhaseNow DEF Moved
  <2>2. \/ MatchPhase' = "playing" /\ MatchResult' = Match!Undecided
        \/ /\ MatchPhase' = "over"
           /\ MatchResult' \in {<<"checkmate", Match!Mover(r.moves)>>, <<"stalemate", "none">>,
                                <<"draw", "none">>}
    <3>1. CASE q.status = "active" BY <3>1, PhaseNext
    <3>2. CASE q.status # "active"
      <4>1. <<q.status, q.winner>> \in {<<WonOnBoard, r.turn>>, <<"stalemate", "none">>,
                                        <<"draw", "none">>}
        BY <1>6, <3>2 DEF Moved, NoColor
      <4>2. q.status \in FinishedStatus BY <1>4, <4>1
      <4> QED BY <1>3, <1>4, <4>1, <4>2, PhaseNext
    <3> QED BY <3>1, <3>2
  <2>3. Match!Move BY <1>1, <1>6, <2>1, <2>2 DEF Match!Move, Moved
  <2> QED BY <2>3 DEF Match!Next
<1>7. CASE Stopped(q, r)
  <2>1. /\ q.status \in FinishedStatus
        /\ MatchPhase' = "over" /\ MatchResult' = <<Told(q.status), q.winner>>
    BY <1>4, <1>7, PhaseNext DEF Stopped
  <2>2. MatchPhase = IF r.status = "waiting" THEN "waiting" ELSE "playing"
    BY <1>7, PhaseNow DEF Stopped
  <2>3. \/ MatchResult' = <<"resigned", "b">>
        \/ /\ MatchPhase = "playing"
           /\ MatchResult' \in {<<"resigned", "w">>,
                                <<"timeout", Match!Other(Match!Mover(r.moves))>>}
        \/ MatchPhase = "playing" /\ r.mode # "bot_easy" /\ MatchResult' = <<"draw", "none">>
    BY <1>3, <1>4, <1>7, <2>1, <2>2 DEF Stopped, White, Black, NoColor
  <2>4. Match!Stop BY <1>1, <1>7, <2>1, <2>2, <2>3 DEF Match!Stop, Stopped
  <2> QED BY <2>4 DEF Match!Next
<1> QED BY <1>2, <1>5, <1>6, <1>7 DEF Proceeds

\* A room is deleted before or after a match, or with the player of one against the
\* machine.
LEMMA MatchCloses ==
  ASSUME RoomSound, [Next]_vars, Exists, ~Exists'
  PROVE  Match!Close
<1>1. IsFinished(room) \/ room.status = "waiting" \/ room.mode = "bot_easy"
  BY HandlersProceed
<1>2. issued' # {}
  <2>1. issued \subseteq issued'
    BY DEF Next, PlayerAction, vars, CreateRoom, JoinRoom, LeaveRoom, SyncState, MarkDisconnected, SubmitAction,
           Resign, OfferDraw, AcceptDraw, DeclineDraw, TickActiveRooms, TimePasses, Saves
  <2> QED BY <2>1, RoomHasOwner
<1>3. MatchPhase \in {"waiting", "over"} \/ (MatchPhase = "playing" /\ room.mode = "bot_easy")
  BY <1>1 DEF MatchPhase
<1>4. MatchPhase' = "closed" /\ MatchResult' = Match!Undecided
  BY <1>2 DEF MatchPhase, MatchResult, Match!Undecided, Exists
<1> QED BY <1>3, <1>4 DEF Match!Close, Exists

LEMMA MatchSteps ==
  ASSUME RoomSound, RoomSound', [Next]_vars
  PROVE  [Match!Next]_Match!vars
<1>1. CASE Exists /\ Exists'
  BY <1>1, HandlersProceed, MatchProceeds
<1>2. CASE Exists /\ ~Exists'
  BY <1>2, MatchCloses DEF Match!Next
<1>3. CASE ~Exists
  <2>1. ASSUME NEW mode \in {"pvp", "bot_easy"}, NEW clockEnabled \in BOOLEAN, NEW t \in Token,
               CreateRoom(mode, clockEnabled, t)
        PROVE  Match!Next
    BY <2>1, MatchOpens
  <2>2. CASE TimePasses \/ UNCHANGED vars
    BY <2>2 DEF TimePasses, vars, Match!vars, MatchPhase, MatchResult, Exists
  <2> QED
    BY <1>3, <2>1, <2>2
    DEF Next, PlayerAction, JoinRoom, LeaveRoom, SyncState, MarkDisconnected, SubmitAction, Resign, OfferDraw,
        AcceptDraw, DeclineDraw, TickActiveRooms
<1> QED BY <1>1, <1>2, <1>3

\* The chess room implements the match that its players are promised: opened,
\* started, played move by move, decided once, by a verdict that fits, and only then
\* put away; for any sessions, clock and length of the game.
THEOREM RoomImplementsMatch == Spec => ImplementsMatch
<1>1. Init => Match!Init BY MatchBegins
<1>2. RoomSound /\ RoomSound' /\ [Next]_vars => [Match!Next]_Match!vars BY MatchSteps
<1> QED BY <1>1, <1>2, RoomIsSound, PTL DEF Spec, ImplementsMatch, Match!Spec
=============================================================================

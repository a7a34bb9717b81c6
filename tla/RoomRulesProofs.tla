--------------------------- MODULE RoomRulesProofs ---------------------------
(***************************************************************************)
(* A command saves only sound records when it loaded a sound one: first    *)
(* what the helpers do to the record, field by field; then one lemma per   *)
(* command; then who may be in the record it saves.  RoomProofs and        *)
(* RoomStoreProofs build on these lemmas.                                  *)
(***************************************************************************)
EXTENDS RoomSafety, TLAPS

USE ParametersAssumption DEF RoomWith

-----------------------------------------------------------------------------
(* What the helpers change and what they keep.                             *)

\* The fields a command may keep together.
SamePeople(q, r) ==
  /\ q.mode = r.mode /\ q.seat = r.seat
  /\ q.spectators = r.spectators /\ q.connected = r.connected
SameGame(q, r) ==
  /\ q.clockEnabled = r.clockEnabled /\ q.board = r.board /\ q.turn = r.turn
  /\ q.moves = r.moves /\ q.firstMoveAt = r.firstMoveAt
SamePhase(q, r) ==
  /\ q.status = r.status /\ q.winner = r.winner /\ q.clocks = r.clocks
  /\ q.activeColor = r.activeColor /\ q.turnStartedAt = r.turnStartedAt
SameTable(q, r) == SameGame(q, r) /\ SamePhase(q, r) /\ q.botMoveDueAt = r.botMoveDueAt

\* The clocks do not run and nothing is pending.
AtRest(q) ==
  /\ q.drawOffer = NoColor /\ q.activeColor = NoColor
  /\ q.turnStartedAt = NoTime /\ q.botMoveDueAt = NoTime

LEMMA ColorFacts ==
  /\ White \in Color /\ Black \in Color /\ White # Black
  /\ NoColor \notin Color
  /\ \A c \in Color : Opposite(c) \in Color /\ Opposite(c) # c
  /\ \A c, d \in Color : c # d => d = Opposite(c)
BY DEF Color, White, Black, NoColor, Opposite

LEMMA FinishGameFields ==
  ASSUME NEW r \in Room, NEW w \in Color \cup {NoColor}, NEW s \in Status
  PROVE  /\ FinishGame(r, w, s) \in Room
         /\ SamePeople(FinishGame(r, w, s), r)
         /\ SameGame(FinishGame(r, w, s), r)
         /\ FinishGame(r, w, s).status = s
         /\ FinishGame(r, w, s).winner = w
         /\ FinishGame(r, w, s).clocks = r.clocks
         /\ AtRest(FinishGame(r, w, s))
BY DEF FinishGame, Room, Time, NoColor, NoTime, Color, SamePeople, SameGame, AtRest

LEMMA StartGameFields ==
  ASSUME NEW r \in Room, r.turn = White
  PROVE  /\ StartGame(r) \in Room
         /\ SamePeople(StartGame(r), r)
         /\ SameGame(StartGame(r), r)
         /\ StartGame(r).status = "active"
         /\ StartGame(r).winner = r.winner
         /\ StartGame(r).clocks = r.clocks
         /\ AtRest(StartGame(r))
BY ZenonT(60) DEF StartGame, Room, Time, NoColor, NoTime, Color, Status, SamePeople, SameGame, AtRest

LEMMA TimeLeftType ==
  ASSUME NEW ms \in 0 .. InitialMs, NEW e \in Nat
  PROVE  /\ TimeLeft(ms, e) \in 0 .. InitialMs
         /\ TimeLeft(ms, e) > 0 => TimeLeft(ms, e) = ms - e
BY DEF TimeLeft

LEMMA PlayedFields ==
  ASSUME NEW r \in Room, NEW o \in Outcome, NEW ts \in Nat, r.moves < MaxMoves
  PROVE  /\ Played(r, o, ts) \in Room
         /\ SamePeople(Played(r, o, ts), r)
         /\ SamePhase(Played(r, o, ts), r)
         /\ Played(r, o, ts).clockEnabled = r.clockEnabled
         /\ Played(r, o, ts).board = o
         /\ Played(r, o, ts).turn = Opposite(r.turn)
         /\ Played(r, o, ts).moves = r.moves + 1
         /\ Played(r, o, ts).firstMoveAt = IF r.moves = 0 THEN ts ELSE r.firstMoveAt
         /\ Played(r, o, ts).drawOffer = NoColor
         /\ Played(r, o, ts).botMoveDueAt = r.botMoveDueAt
<1> DEFINE turn == Opposite(r.turn)
           moves == r.moves + 1
           first == IF r.moves = 0 THEN ts ELSE r.firstMoveAt
<1>1. turn \in Color /\ moves \in 0 .. MaxMoves /\ first \in Time /\ NoColor \in Color \cup {NoColor}
  BY ColorFacts DEF Room, Time
<1>2. Played(r, o, ts) = [r EXCEPT !.board = o, !.turn = turn, !.moves = moves,
                                   !.firstMoveAt = first, !.drawOffer = NoColor]
  BY DEF Played, Room
<1> HIDE DEF turn, moves, first
<1>3. /\ Played(r, o, ts) \in Room
      /\ Played(r, o, ts).turn = turn
      /\ Played(r, o, ts).moves = moves
      /\ Played(r, o, ts).firstMoveAt = first
      /\ Played(r, o, ts).board = o
      /\ Played(r, o, ts).drawOffer = NoColor
  BY <1>1, <1>2, ZenonT(60) DEF Room
<1>4. /\ SamePeople(Played(r, o, ts), r)
      /\ SamePhase(Played(r, o, ts), r)
      /\ Played(r, o, ts).clockEnabled = r.clockEnabled
      /\ Played(r, o, ts).botMoveDueAt = r.botMoveDueAt
  BY <1>2 DEF Room, SamePeople, SamePhase
<1> QED BY <1>3, <1>4 DEF turn, moves, first

LEMMA PassTurnFields ==
  ASSUME NEW r \in Room, NEW ts \in Nat
  PROVE  /\ PassTurn(r, ts) \in Room
         /\ SamePeople(PassTurn(r, ts), r)
         /\ SameGame(PassTurn(r, ts), r)
         /\ PassTurn(r, ts).status = r.status
         /\ PassTurn(r, ts).winner = r.winner
         /\ PassTurn(r, ts).clocks = r.clocks
         /\ PassTurn(r, ts).drawOffer = r.drawOffer
         /\ PassTurn(r, ts).activeColor = IF r.clockEnabled THEN r.turn ELSE NoColor
         /\ PassTurn(r, ts).turnStartedAt = IF r.clockEnabled THEN ts ELSE NoTime
         /\ PassTurn(r, ts).botMoveDueAt
              = IF IsBotTurn(r) THEN ts + BotMoveDelayMs ELSE NoTime
<1> DEFINE active == IF r.clockEnabled THEN r.turn ELSE NoColor
           since == IF r.clockEnabled THEN ts ELSE NoTime
           due == IF IsBotTurn(r) THEN ts + BotMoveDelayMs ELSE NoTime
<1>1. active \in Color \cup {NoColor} /\ since \in Time /\ due \in Time
  BY DEF Room, Time
<1>2. PassTurn(r, ts) = [r EXCEPT !.activeColor = active, !.turnStartedAt = since,
                                  !.botMoveDueAt = due]
  BY DEF PassTurn
<1> HIDE DEF active, since, due
<1>3. /\ PassTurn(r, ts) \in Room
      /\ PassTurn(r, ts).activeColor = active
      /\ PassTurn(r, ts).turnStartedAt = since
      /\ PassTurn(r, ts).botMoveDueAt = due
  BY <1>1, <1>2 DEF Room
<1>4. /\ SamePeople(PassTurn(r, ts), r)
      /\ SameGame(PassTurn(r, ts), r)
      /\ PassTurn(r, ts).status = r.status
      /\ PassTurn(r, ts).winner = r.winner
      /\ PassTurn(r, ts).clocks = r.clocks
      /\ PassTurn(r, ts).drawOffer = r.drawOffer
  BY <1>2 DEF Room, SamePeople, SameGame
<1> QED BY <1>3, <1>4 DEF active, since, due

LEMMA RetryBotLaterFields ==
  ASSUME NEW r \in Room, NEW ts \in Nat
  PROVE  /\ RetryBotLater(r, ts) \in Room
         /\ SamePeople(RetryBotLater(r, ts), r)
         /\ SameGame(RetryBotLater(r, ts), r)
         /\ SamePhase(RetryBotLater(r, ts), r)
         /\ RetryBotLater(r, ts).drawOffer = r.drawOffer
         /\ RetryBotLater(r, ts).botMoveDueAt = ts + BotMoveDelayMs
BY DEF RetryBotLater, Room, Time, SamePeople, SameGame, SamePhase

\* Advancing the clock charges the running clock, and only it.
LEMMA AdvanceClockFields ==
  ASSUME NEW r \in Room, NEW ts \in Nat
  PROVE  /\ AdvanceClock(r, ts) \in Room
         /\ SamePeople(AdvanceClock(r, ts), r)
         /\ SameGame(AdvanceClock(r, ts), r)
         /\ AdvanceClock(r, ts).status = r.status
         /\ AdvanceClock(r, ts).winner = r.winner
         /\ AdvanceClock(r, ts).activeColor = r.activeColor
         /\ AdvanceClock(r, ts).drawOffer = r.drawOffer
         /\ AdvanceClock(r, ts).botMoveDueAt = r.botMoveDueAt
         /\ IF /\ r.clockEnabled
               /\ r.activeColor # NoColor /\ r.turnStartedAt # NoTime
               /\ ts > r.turnStartedAt
            THEN /\ AdvanceClock(r, ts).turnStartedAt = ts
                 /\ AdvanceClock(r, ts).clocks
                      = [r.clocks EXCEPT ![r.activeColor]
                           = TimeLeft(r.clocks[r.activeColor], ts - r.turnStartedAt)]
            ELSE AdvanceClock(r, ts) = r
<1>1. CASE /\ r.clockEnabled
           /\ r.activeColor # NoColor /\ r.turnStartedAt # NoTime
           /\ ts > r.turnStartedAt
  <2> DEFINE c == r.activeColor
             e == ts - r.turnStartedAt
             clocks == [r.clocks EXCEPT ![c] = TimeLeft(r.clocks[c], e)]
  <2>1. c \in Color /\ e \in Nat /\ r.clocks \in [Color -> 0 .. InitialMs]
    BY <1>1 DEF Room, Time, NoTime, NoColor
  <2>2. clocks \in [Color -> 0 .. InitialMs]
    BY <2>1, TimeLeftType
  <2>3. AdvanceClock(r, ts) = [[r EXCEPT !.clocks = clocks] EXCEPT !.turnStartedAt = ts]
    BY <1>1 DEF AdvanceClock, Room
  <2>4. clocks = [r.clocks EXCEPT ![r.activeColor]
                    = TimeLeft(r.clocks[r.activeColor], ts - r.turnStartedAt)]
    OBVIOUS
  <2> HIDE DEF clocks
  <2> QED BY <1>1, <2>2, <2>3, <2>4 DEF Room, Time, SamePeople, SameGame
<1>2. CASE ~(/\ r.clockEnabled
           /\ r.activeColor # NoColor /\ r.turnStartedAt # NoTime
           /\ ts > r.turnStartedAt)
  BY <1>2 DEF AdvanceClock, SamePeople, SameGame
<1> QED BY <1>1, <1>2
-----------------------------------------------------------------------------
(* How soundness follows from the fields.                                  *)

\* The same people in the same seats are as sound, and a game may start or end
\* under them once both seats are taken.
LEMMA SamePeopleSound ==
  ASSUME NEW q, NEW r, SamePeople(q, r), SeatsSound(r), HasPlayer(r),
         q.status = r.status \/ q.status \in FinishedStatus
  PROVE  SeatsSound(q) /\ HasPlayer(q)
<1>1. Members(q) = Members(r) /\ HumanSeats(q) = HumanSeats(r)
  BY DEF SamePeople, Members, HumanSeats, HoldsSeat, Holds
<1> QED BY <1>1 DEF SamePeople, SeatsSound, HasPlayer, FinishedStatus

\* A room at rest whose verdict is sound is sound as a whole.
LEMMA FinishSound ==
  ASSUME NEW r \in Room, NEW w \in Color \cup {NoColor}, NEW s \in FinishedStatus, NEW t \in Nat,
         SeatsSound(r), HasPlayer(r), HistorySound(r), r.firstMoveAt <= t,
         r.clockEnabled /\ r.moves = 0 => \A c \in Color : r.clocks[c] = InitialMs,
         VerdictSound(FinishGame(r, w, s))
  PROVE  Sound(FinishGame(r, w, s), t)
<1> DEFINE q == FinishGame(r, w, s)
<1>1. s \in Status BY DEF Status
<1>2. /\ q \in Room /\ SamePeople(q, r) /\ SameGame(q, r) /\ AtRest(q)
      /\ q.status = s /\ q.clocks = r.clocks
  BY <1>1, FinishGameFields
<1>3. VerdictSound(q) OBVIOUS
<1> HIDE DEF q
<1>4. SeatsSound(q) /\ HasPlayer(q) BY <1>2, SamePeopleSound
<1>5. s # "active" BY DEF FinishedStatus
<1>6. OfferSound(q) /\ BotScheduled(q) /\ MoverOnTheClock(q)
  BY <1>2, <1>5 DEF OfferSound, BotScheduled, MoverOnTheClock, AtRest
<1>7. ClockConserved(q)
  BY <1>2, <1>5 DEF ClockConserved, AtRest, SameGame
<1>8. HistorySound(q) BY <1>2 DEF HistorySound, SameGame
<1>9. NotAfter(q, t) BY <1>2 DEF NotAfter, AtRest, SameGame, NoTime
<1> QED BY <1>2, <1>3, <1>4, <1>6, <1>7, <1>8, <1>9 DEF Sound, q

\* Commands that move people and leave the game alone.
LEMMA PeopleSound ==
  ASSUME NEW r, NEW t \in Nat, Sound(r, t), NEW q \in Room,
         SameTable(q, r), q.mode = r.mode, q.drawOffer = r.drawOffer,
         SeatsSound(q), HasPlayer(q),
         r.status = "active" => q.seat = r.seat
  PROVE  Sound(q, t)
<1>1. VerdictSound(q)
  BY DEF Sound, VerdictSound, SameTable, SameGame, SamePhase
<1>2. OfferSound(q) /\ BotScheduled(q)
  BY DEF Sound, OfferSound, BotScheduled, IsBotTurn, SameTable, SameGame, SamePhase
<1>3. MoverOnTheClock(q) /\ ClockConserved(q)
  BY DEF Sound, MoverOnTheClock, ClockConserved, SameTable, SameGame, SamePhase
<1>4. HistorySound(q) /\ NotAfter(q, t)
  BY DEF Sound, HistorySound, NotAfter, SameTable, SameGame, SamePhase
<1> QED BY <1>1, <1>2, <1>3, <1>4 DEF Sound

\* Time only makes a record older.
LEMMA SoundLater ==
  ASSUME NEW r, NEW t \in Nat, NEW u \in Nat, t <= u, Sound(r, t)
  PROVE  Sound(r, u)
BY DEF Sound, NotAfter, Room, Time, NoTime

-----------------------------------------------------------------------------
(* The clock.                                                              *)

\* What advanceClock followed by finishIfTimedOut leaves: a sound room whose
\* running clock was read just now, or a game lost on time.
Read(q, ts) == q.activeColor # NoColor => q.turnStartedAt = ts

LEMMA TimedSound ==
  ASSUME NEW r, NEW ts \in Nat, Sound(r, ts)
  PROVE  LET q == FinishIfTimedOut(AdvanceClock(r, ts))
         IN  /\ Sound(q, ts) /\ Read(q, ts)
             /\ SamePeople(q, r) /\ SameGame(q, r)
             /\ q.status = r.status \/ (r.status = "active" /\ q.status = "timeout")
             /\ q.status = r.status => q.winner = r.winner
<1> DEFINE a == AdvanceClock(r, ts)
           q == FinishIfTimedOut(a)
           c == r.activeColor
<1>1. r \in Room /\ a \in Room BY AdvanceClockFields DEF Sound
<1>2. CASE ~(/\ r.clockEnabled
             /\ c # NoColor /\ r.turnStartedAt # NoTime
             /\ ts > r.turnStartedAt)
  <2>1. a = r BY <1>1, <1>2, AdvanceClockFields
  <2>2. q = r
    BY <1>1, <2>1, ColorFacts DEF FinishIfTimedOut, Sound, ClockConserved, Room
  <2>3. Read(r, ts)
    <3> SUFFICES ASSUME c # NoColor PROVE r.turnStartedAt = ts BY DEF Read
    <3>1. r.clockEnabled /\ r.turnStartedAt # NoTime BY DEF Sound, MoverOnTheClock
    <3>2. r.turnStartedAt <= ts /\ r.turnStartedAt \in Nat
      BY <3>1, <1>1 DEF Sound, NotAfter, Room, Time
    <3> QED BY <1>2, <3>1, <3>2
  <2> QED BY <2>2, <2>3 DEF SamePeople, SameGame
<1>3. CASE /\ r.clockEnabled
           /\ c # NoColor /\ r.turnStartedAt # NoTime
           /\ ts > r.turnStartedAt
  <2> DEFINE e == ts - r.turnStartedAt
             left == TimeLeft(r.clocks[c], e)
  <2>1. /\ SamePeople(a, r) /\ SameGame(a, r)
        /\ a.status = r.status /\ a.winner = r.winner
        /\ a.activeColor = c /\ a.drawOffer = r.drawOffer
        /\ a.botMoveDueAt = r.botMoveDueAt
        /\ a.turnStartedAt = ts
        /\ a.clocks = [r.clocks EXCEPT ![c] = left]
    BY <1>1, <1>3, AdvanceClockFields
  <2>2. /\ r.status = "active" /\ r.moves > 0 /\ c = r.turn /\ c \in Color
        /\ r.board = "open" /\ r.winner = NoColor
    BY <1>3, <1>1 DEF Sound, MoverOnTheClock, VerdictSound, Room
  <2>3. /\ r.turnStartedAt \in Nat /\ r.firstMoveAt \in Nat
        /\ \A d \in Color : r.clocks[d] \in 0 .. InitialMs /\ r.clocks[d] > 0
        /\ r.clocks \in [Color -> 0 .. InitialMs]
    BY <1>3, <1>1, <2>2 DEF Sound, ClockConserved, HistorySound, Room, Time
  <2>4. e \in Nat /\ left \in 0 .. InitialMs /\ (left > 0 => left = r.clocks[c] - e)
    BY <1>3, <2>2, <2>3, TimeLeftType
  <2>5. /\ a.clocks[c] = left
        /\ a.clocks[Opposite(c)] = r.clocks[Opposite(c)]
    BY <2>1, <2>2, <2>3, ColorFacts
  <2> HIDE DEF a, left, e
  <2>6. SeatsSound(a) /\ HasPlayer(a)
    BY <2>1, SamePeopleSound DEF Sound
  <2>7. HistorySound(a) BY <2>1 DEF Sound, HistorySound, SameGame
  <2>8. NotAfter(a, ts)
    BY <2>1 DEF Sound, NotAfter, SameGame
  <2>9. CASE left = 0
    <3>1. q = FinishGame(a, Opposite(c), "timeout")
      <4>1. CASE c = White
        BY <4>1, <2>1, <2>2, <2>5, <2>9, <1>3 DEF FinishIfTimedOut, SameGame, Opposite
      <4>2. CASE c = Black
        <5>1. a.clocks[White] > 0 /\ a.clocks[White] \in Nat /\ ~(a.clocks[White] <= 0)
          BY <4>2, <2>5, <2>3, ColorFacts DEF Opposite
        <5> QED
          BY <4>2, <5>1, <2>1, <2>2, <2>5, <2>9, <1>3, ColorFacts
          DEF FinishIfTimedOut, SameGame, Opposite
      <4> QED BY <4>1, <4>2, <2>2 DEF Color
    <3>2. /\ Opposite(c) \in Color /\ "timeout" \in Status /\ "timeout" \in FinishedStatus
      BY <2>2, ColorFacts DEF Status, FinishedStatus
    <3>3. /\ q \in Room /\ SamePeople(q, a) /\ SameGame(q, a) /\ AtRest(q)
          /\ q.status = "timeout" /\ q.winner = Opposite(c) /\ q.clocks = a.clocks
      BY <1>1, <3>1, <3>2, FinishGameFields
    <3>4. VerdictSound(q)
      BY <3>3, <2>1, <2>2, <2>3, <2>5, <2>9, <3>2, <1>3 DEF VerdictSound, SameGame
    <3>5. Sound(q, ts)
      BY <3>1, <3>2, <3>4, <1>1, <2>1, <2>2, <2>6, <2>7, <2>8, FinishSound DEF NotAfter, SameGame
    <3>6. Read(q, ts) BY <3>3 DEF Read, AtRest
    <3>7. SamePeople(q, r) /\ SameGame(q, r)
      BY <3>3, <2>1 DEF SamePeople, SameGame
    <3> HIDE DEF q
    <3> QED BY <3>3, <3>5, <3>6, <3>7, <2>2 DEF q, a
  <2>10. CASE left > 0
    <3>1. \A d \in Color : a.clocks[d] > 0 /\ a.clocks[d] \in Nat
      BY <2>10, <2>2, <2>3, <2>4, <2>5, ColorFacts
    <3>2. q = a BY <3>1, ColorFacts DEF FinishIfTimedOut
    <3>3. VerdictSound(a)
      BY <2>1, <2>2 DEF VerdictSound, SameGame
    <3>4. OfferSound(a) /\ BotScheduled(a)
      BY <2>1 DEF Sound, OfferSound, BotScheduled, IsBotTurn, SameGame, SamePeople
    <3>5. MoverOnTheClock(a)
      BY <2>1, <2>2, <1>3 DEF MoverOnTheClock, SameGame, NoTime
    <3>6. ClockConserved(a)
      <4>1. (InitialMs - r.clocks[c]) + (InitialMs - r.clocks[Opposite(c)])
              = r.turnStartedAt - r.firstMoveAt
        BY <1>3, <2>2, <2>3, ColorFacts DEF Sound, ClockConserved, Opposite, Color
      <4>2. (InitialMs - a.clocks[c]) + (InitialMs - a.clocks[Opposite(c)])
              = a.turnStartedAt - a.firstMoveAt
        BY <4>1, <2>1, <2>2, <2>3, <2>4, <2>5, <2>10, ColorFacts DEF SameGame, e
      <4>3. (InitialMs - a.clocks[White]) + (InitialMs - a.clocks[Black])
              = a.turnStartedAt - a.firstMoveAt
        BY <4>2, <2>2, <3>1 DEF Opposite, Color
      <4> QED BY <4>3, <3>1, <2>1, <2>2 DEF ClockConserved, SameGame
    <3>7. Sound(a, ts)
      BY <1>1, <2>6, <2>7, <2>8, <3>3, <3>4, <3>5, <3>6 DEF Sound, a
    <3>8. Read(a, ts) BY <2>1 DEF Read
    <3> HIDE DEF q
    <3> QED BY <3>2, <3>7, <3>8, <2>1 DEF q, a
  <2> QED BY <2>4, <2>9, <2>10
<1> QED BY <1>2, <1>3
-----------------------------------------------------------------------------
(* Moves.                                                                  *)

LEMMA PlayedSound ==
  ASSUME NEW r, NEW ts \in Nat, Sound(r, ts), r.status = "active", NEW o \in MoveOutcomes(r)
  PROVE  LET p == Played(r, o, ts)
         IN  /\ o \in Outcome /\ r.moves < MaxMoves
             /\ SeatsSound(p) /\ HasPlayer(p) /\ HistorySound(p) /\ p.firstMoveAt <= ts
<1> DEFINE p == Played(r, o, ts)
<1>1. r \in Room /\ r.board = "open" /\ r.moves < MaxMoves /\ r.moves \in Nat
  BY DEF Sound, VerdictSound, HistorySound, Room
<1>2. o \in Outcome /\ (o = "open" => r.moves + 1 < MaxMoves)
  BY DEF MoveOutcomes
<1>3. /\ p \in Room /\ SamePeople(p, r) /\ SamePhase(p, r)
      /\ p.board = o /\ p.turn = Opposite(r.turn) /\ p.moves = r.moves + 1
      /\ p.firstMoveAt = IF r.moves = 0 THEN ts ELSE r.firstMoveAt
  BY <1>1, <1>2, PlayedFields
<1> HIDE DEF p
<1>4. SeatsSound(p) /\ HasPlayer(p)
  BY <1>3, SamePeopleSound DEF Sound, SamePhase
<1>5. p.firstMoveAt <= ts /\ p.firstMoveAt # NoTime
  BY <1>1, <1>3 DEF Sound, NotAfter, HistorySound, NoTime
<1>6. p.turn = IF p.moves % 2 = 0 THEN White ELSE Black
  <2>1. (r.moves + 1) % 2 = 0 <=> ~(r.moves % 2 = 0)
    BY <1>1
  <2> QED BY <1>3, <2>1, ColorFacts DEF Sound, HistorySound, Opposite
<1>7. HistorySound(p)
  BY <1>1, <1>2, <1>3, <1>5, <1>6 DEF HistorySound
<1> QED BY <1>1, <1>2, <1>4, <1>5, <1>7 DEF p

LEMMA ApplyMoveSound ==
  ASSUME NEW r, NEW ts \in Nat, Sound(r, ts), Read(r, ts), r.status = "active",
         NEW o \in MoveOutcomes(r)
  PROVE  Sound(ApplyMove(r, o, ts), ts)
<1> DEFINE p == Played(r, o, ts)
<1>1. /\ r \in Room /\ r.board = "open" /\ r.winner = NoColor
      /\ r.moves \in Nat /\ r.turn \in Color
  BY DEF Sound, VerdictSound, Room
<1>2. /\ o \in Outcome /\ r.moves < MaxMoves
      /\ SeatsSound(p) /\ HasPlayer(p) /\ HistorySound(p) /\ p.firstMoveAt <= ts
  BY PlayedSound
<1>3. /\ p \in Room /\ SamePeople(p, r) /\ SamePhase(p, r)
      /\ p.clockEnabled = r.clockEnabled
      /\ p.board = o /\ p.turn = Opposite(r.turn) /\ p.moves = r.moves + 1
      /\ p.firstMoveAt = (IF r.moves = 0 THEN ts ELSE r.firstMoveAt)
      /\ p.drawOffer = NoColor
  BY <1>1, <1>2, PlayedFields
<1>4. ApplyMove(r, o, ts)
        = IF o = "open" THEN PassTurn(p, ts)
          ELSE IF o = "checkmate" THEN FinishGame(p, r.turn, WonOnBoard)
          ELSE FinishGame(p, NoColor, o)
  BY DEF ApplyMove
<1>5. p.turn \in Color /\ Opposite(p.turn) = r.turn
  BY <1>1, <1>3, ColorFacts DEF Opposite
<1> HIDE DEF p
<1>6. CASE o = "open"
  <2> DEFINE q == PassTurn(p, ts)
  <2>1. /\ q \in Room /\ SamePeople(q, p) /\ SameGame(q, p)
        /\ q.status = p.status /\ q.winner = p.winner /\ q.clocks = p.clocks
        /\ q.drawOffer = p.drawOffer
        /\ q.activeColor = (IF p.clockEnabled THEN p.turn ELSE NoColor)
        /\ q.turnStartedAt = (IF p.clockEnabled THEN ts ELSE NoTime)
        /\ q.botMoveDueAt = (IF IsBotTurn(p) THEN ts + BotMoveDelayMs ELSE NoTime)
    BY <1>3, PassTurnFields
  <2> HIDE DEF q
  <2>2. q.status = "active" /\ q.winner = NoColor /\ q.clocks = r.clocks /\ q.board = "open"
    BY <2>1, <1>1, <1>3, <1>6 DEF SamePhase, SameGame
  <2>3. SeatsSound(q) /\ HasPlayer(q)
    BY <1>2, <2>1, SamePeopleSound
  <2>4. VerdictSound(q) /\ OfferSound(q)
    BY <2>1, <2>2, <1>3 DEF VerdictSound, OfferSound
  <2>5. MoverOnTheClock(q)
    BY <2>1, <2>2, <1>1, <1>3, <1>5, ColorFacts DEF MoverOnTheClock, SameGame, NoTime
  <2>6. ClockConserved(q)
    <3>1. q.moves > 0 /\ q.clockEnabled = r.clockEnabled /\ q.firstMoveAt = p.firstMoveAt
      BY <2>1, <1>1, <1>3 DEF SameGame
    <3>2. q.clockEnabled => \A c \in Color : q.clocks[c] > 0
      BY <3>1, <2>2 DEF Sound, ClockConserved
    <3>3. ASSUME q.clockEnabled
          PROVE  (InitialMs - q.clocks[White]) + (InitialMs - q.clocks[Black])
                   = q.turnStartedAt - q.firstMoveAt
      <4>1. q.turnStartedAt = ts BY <3>3, <3>1, <2>1, <1>3
      <4>2. CASE r.moves = 0
        BY <4>1, <4>2, <3>3, <3>1, <2>2, <1>1, <1>3, ColorFacts DEF Sound, ClockConserved
      <4>3. CASE r.moves > 0
        <5>1. r.activeColor # NoColor /\ r.turnStartedAt = ts
          BY <4>3, <3>1, <3>3 DEF Sound, MoverOnTheClock, Read
        <5> QED BY <5>1, <4>1, <4>3, <3>1, <2>2, <1>3 DEF Sound, ClockConserved
      <4> QED BY <4>2, <4>3, <1>1
    <3>4. q.activeColor # NoColor => q.clockEnabled
      BY <2>1 DEF SameGame
    <3> QED BY <3>1, <3>2, <3>3, <3>4 DEF ClockConserved
  <2>7. BotScheduled(q)
    <3>1. IsBotTurn(q) <=> IsBotTurn(p)
      BY <2>1 DEF IsBotTurn, SamePeople, SameGame
    <3> QED BY <3>1, <2>1 DEF BotScheduled, NoTime
  <2>8. HistorySound(q)
    BY <1>2, <2>1 DEF HistorySound, SameGame
  <2>9. NotAfter(q, ts)
    BY <1>2, <2>1 DEF NotAfter, SameGame, NoTime
  <2>10. Sound(q, ts)
    BY <2>1, <2>3, <2>4, <2>5, <2>6, <2>7, <2>8, <2>9 DEF Sound
  <2> QED BY <1>4, <1>6, <2>10 DEF q
<1>7. ASSUME o # "open",
             NEW w \in Color \cup {NoColor},
             w = IF o = "checkmate" THEN r.turn ELSE NoColor,
             NEW s, s = IF o = "checkmate" THEN WonOnBoard ELSE o
      PROVE  Sound(FinishGame(p, w, s), ts)
  <2>1. s \in FinishedStatus /\ s \in Status
    BY <1>2, <1>7 DEF Outcome, FinishedStatus, Status
  <2> DEFINE q == FinishGame(p, w, s)
  <2>2. SameGame(q, p) /\ q.status = s /\ q.winner = w
    BY <1>3, <2>1, FinishGameFields
  <2> HIDE DEF q
  <2>3. VerdictSound(q)
    BY <2>2, <1>2, <1>3, <1>5, <1>7 DEF VerdictSound, SameGame, Outcome
  <2>4. p.moves > 0 BY <1>1, <1>3
  <2> QED BY <1>2, <1>3, <2>1, <2>3, <2>4, FinishSound DEF q
<1>8. CASE o = "checkmate"
  BY <1>1, <1>4, <1>7, <1>8
<1>9. CASE o # "open" /\ o # "checkmate"
  BY <1>4, <1>7, <1>9
<1> QED BY <1>6, <1>8, <1>9

LEMMA RetryBotLaterSound ==
  ASSUME NEW r, NEW ts \in Nat, Sound(r, ts)
  PROVE  Sound(RetryBotLater(r, ts), ts)
<1> DEFINE q == RetryBotLater(r, ts)
<1>1. /\ r \in Room
      /\ q \in Room /\ SamePeople(q, r) /\ SameGame(q, r) /\ SamePhase(q, r)
      /\ q.drawOffer = r.drawOffer /\ q.botMoveDueAt = ts + BotMoveDelayMs
  BY RetryBotLaterFields DEF Sound
<1> HIDE DEF q
<1>2. SeatsSound(q) /\ HasPlayer(q)
  BY <1>1, SamePeopleSound DEF Sound, SamePhase
<1>3. VerdictSound(q) /\ OfferSound(q)
  BY <1>1 DEF Sound, VerdictSound, OfferSound, SamePeople, SameGame, SamePhase
<1>4. MoverOnTheClock(q) /\ ClockConserved(q)
  BY <1>1 DEF Sound, MoverOnTheClock, ClockConserved, SameGame, SamePhase
<1>5. BotScheduled(q) /\ HistorySound(q) /\ NotAfter(q, ts)
  BY <1>1 DEF Sound, BotScheduled, HistorySound, NotAfter, SameGame, SamePhase, NoTime
<1> QED BY <1>1, <1>2, <1>3, <1>4, <1>5 DEF Sound, q

LEMMA SubmitActionSound ==
  ASSUME NEW r, NEW ts \in Nat, Sound(r, ts), NEW t \in Token,
         NEW q \in SubmitActionResults(r, t, ts)
  PROVE  Sound(q, ts)
<1> DEFINE timed == FinishIfTimedOut(AdvanceClock(r, ts))
<1>1. Sound(timed, ts) /\ Read(timed, ts) BY TimedSound
<1>2. \/ q = timed
      \/ timed.status = "active" /\ \E o \in MoveOutcomes(timed) : q = ApplyMove(timed, o, ts)
  BY DEF SubmitActionResults
<1> HIDE DEF timed
<1> QED BY <1>1, <1>2, ApplyMoveSound

LEMMA TickSound ==
  ASSUME NEW r, NEW ts \in Nat, Sound(r, ts), NEW q \in TickResults(r, ts)
  PROVE  Sound(q, ts)
<1> DEFINE timed == FinishIfTimedOut(AdvanceClock(r, ts))
<1>1. Sound(timed, ts) /\ Read(timed, ts) BY TimedSound
<1>2. \/ q = timed
      \/ /\ ShouldPlayBotMove(timed, ts)
         /\ \E ans \in BotAnswers(timed) : q = PerformBotMove(timed, ans, ts)
  BY DEF TickResults
<1> HIDE DEF timed
<1>3. ASSUME ShouldPlayBotMove(timed, ts), NEW ans \in BotAnswers(timed)
      PROVE  Sound(PerformBotMove(timed, ans, ts), ts)
  <2>1. timed.status = "active" /\ timed.board = "open"
    BY <1>1, <1>3 DEF ShouldPlayBotMove, Sound, VerdictSound
  <2>2. CASE ans \in {"none", "error"}
    BY <1>1, <2>1, <2>2, RetryBotLaterSound DEF PerformBotMove
  <2>3. CASE ans \notin {"none", "error"}
    <3>1. ans \in MoveOutcomes(timed) BY <2>3 DEF BotAnswers
    <3>2. Sound(ApplyMove(timed, ans, ts), ts)
      BY <1>1, <2>1, <3>1, ApplyMoveSound
    <3> QED BY <2>3, <3>2, RetryBotLaterSound DEF PerformBotMove
  <2> QED BY <2>2, <2>3
<1> QED BY <1>1, <1>2, <1>3
-----------------------------------------------------------------------------
(* People.                                                                 *)

LEMMA ReconnectSound ==
  ASSUME NEW r, NEW n \in Nat, Sound(r, n), NEW t \in Members(r)
  PROVE  Sound(Reconnect(r, t), n)
<1> DEFINE q == Reconnect(r, t)
<1>1. r \in Room /\ t \in Token BY DEF Sound, Members
<1>2. /\ q \in Room /\ SameTable(q, r) /\ q.mode = r.mode /\ q.drawOffer = r.drawOffer
      /\ q.seat = r.seat /\ q.spectators = r.spectators
      /\ q.connected = r.connected \cup {t}
  BY <1>1 DEF Reconnect, Room, SameTable, SameGame, SamePhase
<1> HIDE DEF q
<1>3. Members(q) = Members(r) /\ HumanSeats(q) = HumanSeats(r)
  BY <1>2 DEF Members, HumanSeats, HoldsSeat, Holds
<1>4. SeatsSound(q) /\ HasPlayer(q)
  BY <1>2, <1>3 DEF Sound, SeatsSound, HasPlayer, SameTable, SamePhase
<1> QED BY <1>2, <1>4, PeopleSound DEF q

LEMMA DisconnectSound ==
  ASSUME NEW r, NEW n \in Nat, Sound(r, n), NEW t \in Token
  PROVE  Sound(Disconnect(r, t), n)
<1> DEFINE q == Disconnect(r, t)
<1>1. r \in Room BY DEF Sound
<1>2. /\ q \in Room /\ SameTable(q, r) /\ q.mode = r.mode /\ q.drawOffer = r.drawOffer
      /\ q.seat = r.seat /\ q.spectators = r.spectators
      /\ q.connected = r.connected \ {t}
  BY <1>1 DEF Disconnect, Room, SameTable, SameGame, SamePhase
<1> HIDE DEF q
<1>3. Members(q) = Members(r) /\ HumanSeats(q) = HumanSeats(r)
  BY <1>2 DEF Members, HumanSeats, HoldsSeat, Holds
<1>4. SeatsSound(q) /\ HasPlayer(q)
  BY <1>2, <1>3 DEF Sound, SeatsSound, HasPlayer, SameTable, SamePhase
<1> QED BY <1>2, <1>4, PeopleSound DEF q

LEMMA SitDownFields ==
  ASSUME NEW r \in Room, NEW c \in Color, NEW t \in Token
  PROVE  /\ SitDown(r, c, t) \in Room
         /\ SameTable(SitDown(r, c, t), r)
         /\ SitDown(r, c, t).mode = r.mode
         /\ SitDown(r, c, t).drawOffer = r.drawOffer
         /\ SitDown(r, c, t).spectators = r.spectators
         /\ SitDown(r, c, t).connected = r.connected \cup {t}
         /\ SitDown(r, c, t).seat = [r.seat EXCEPT ![c] = t]
<1> DEFINE seat == [r.seat EXCEPT ![c] = t]
           connected == r.connected \cup {t}
<1>1. /\ seat \in [Color -> Token \cup {Machine, Nobody}]
      /\ connected \in SUBSET (Token \cup {Machine})
  BY DEF Room
<1>2. SitDown(r, c, t) = [r EXCEPT !.seat = seat, !.connected = connected]
  BY DEF SitDown, Room
<1> HIDE DEF seat, connected
<1>3. /\ SitDown(r, c, t) \in Room
      /\ SitDown(r, c, t).seat = seat
      /\ SitDown(r, c, t).connected = connected
  BY <1>1, <1>2 DEF Room
<1>4. /\ SameTable(SitDown(r, c, t), r)
      /\ SitDown(r, c, t).mode = r.mode
      /\ SitDown(r, c, t).drawOffer = r.drawOffer
      /\ SitDown(r, c, t).spectators = r.spectators
  BY <1>2 DEF Room, SameTable, SameGame, SamePhase
<1> QED BY <1>3, <1>4 DEF seat, connected

\* Taking the empty seat c of a room whose other seat is taken.
LEMMA SitDownPeople ==
  ASSUME NEW r, NEW n \in Nat, Sound(r, n), NEW c \in Color,
         r.seat[c] = Nobody, r.mode = "pvp",
         c = White => r.seat[Black] # Nobody,
         NEW t \in Token \ Members(r)
  PROVE  LET q == SitDown(r, c, t)
         IN  /\ \A d \in Color : q.seat[d] # Machine
             /\ q.seat[White] \in Token /\ q.seat[Black] # Nobody => q.seat[White] # q.seat[Black]
             /\ \A d \in Color : q.seat[d] \notin q.spectators
             /\ q.connected \subseteq Members(q) \cup {Machine}
             /\ HasPlayer(q)
             /\ r.status \in {"waiting", "active"} => \A d \in Color : q.seat[d] # Nobody
<1> DEFINE q == SitDown(r, c, t)
<1>1. r \in Room /\ r.seat \in [Color -> Token \cup {Machine, Nobody}] BY DEF Sound, Room
<1>2. /\ q.spectators = r.spectators /\ q.connected = r.connected \cup {t}
      /\ q.seat = [r.seat EXCEPT ![c] = t]
  BY <1>1, SitDownFields
<1> HIDE DEF q
<1>3. /\ q.seat[c] = t
      /\ \A d \in Color : d # c => q.seat[d] = r.seat[d]
  BY <1>1, <1>2
<1>4. \A d \in Color : r.seat[d] # t
  BY <1>1 DEF Members, HoldsSeat, Holds
<1>5. t \notin r.spectators
  BY <1>1 DEF Members
<1>6. \A d \in Color : q.seat[d] # Machine
  BY <1>3, <1>1 DEF Sound, SeatsSound
<1>7. q.seat[White] # q.seat[Black] \/ q.seat[White] = Nobody
  BY <1>3, <1>4, ColorFacts DEF Color
<1>8. \A d \in Color : q.seat[d] \notin q.spectators
  BY <1>2, <1>3, <1>5 DEF Sound, SeatsSound
<1>9. Members(r) \subseteq Members(q) /\ t \in Members(q)
  BY <1>2, <1>3, <1>1 DEF Members, HoldsSeat, Holds
<1>10. q.connected \subseteq Members(q) \cup {Machine}
  BY <1>2, <1>9 DEF Sound, SeatsSound
<1>11. HasPlayer(q)
  BY <1>3 DEF HasPlayer, HumanSeats
<1>12. r.status \in {"waiting", "active"} => \A d \in Color : q.seat[d] # Nobody
  BY <1>3, ColorFacts DEF Sound, SeatsSound, Color
<1> QED BY <1>6, <1>7, <1>8, <1>10, <1>11, <1>12 DEF q

\* JoinRoom saves a sound room: a known session reconnects, a newcomer with a
\* token that is new to the room sits down or watches.
LEMMA JoinSound ==
  ASSUME NEW r, NEW n \in Nat, Sound(r, n), NEW t \in Token, NEW fresh \in Token,
         t \notin Members(r) => fresh \notin Members(r),
         NEW q \in JoinResults(r, t, fresh)
  PROVE  Sound(q, n)
<1>1. /\ r \in Room /\ SeatsSound(r) /\ r.status \in Status
      /\ r.seat \in [Color -> Token \cup {Machine, Nobody}] /\ r.mode \in {"pvp", "bot_easy"}
  BY DEF Sound, Room
<1>2. CASE t \in Members(r)
  BY <1>2, ReconnectSound DEF JoinResults
<1>3. ASSUME t \notin Members(r), NEW c \in Color, r.seat[c] = Nobody,
             c = White => r.seat[Black] # Nobody
      PROVE  /\ IsFinished(r) => Sound(SitDown(r, c, fresh), n)
             /\ r.status = "waiting" => Sound(StartGame(SitDown(r, c, fresh)), n)
             /\ IsFinished(r) \/ (r.status = "waiting" /\ c = Black)
  <2> DEFINE s == SitDown(r, c, fresh)
  <2>1. /\ r.mode = "pvp"
        /\ IsFinished(r) \/ (r.status = "waiting" /\ c = Black)
    BY <1>1, <1>3 DEF SeatsSound, Status, IsFinished, Color, White, Black
  <2>2. /\ s \in Room /\ SameTable(s, r)
        /\ s.mode = r.mode /\ s.drawOffer = r.drawOffer
        /\ s.spectators = r.spectators
    <3>1. r \in Room BY <1>1
    <3> QED BY ONLY <3>1, c \in Color, fresh \in Token, SitDownFields, ZenonT(60) DEF s
  <2>3. /\ \A d \in Color : s.seat[d] # Machine
        /\ s.seat[White] \in Token /\ s.seat[Black] # Nobody
             => s.seat[White] # s.seat[Black]
        /\ \A d \in Color : s.seat[d] \notin s.spectators
        /\ s.connected \subseteq Members(s) \cup {Machine}
        /\ HasPlayer(s)
        /\ r.status \in {"waiting", "active"} => \A d \in Color : s.seat[d] # Nobody
    BY <1>3, <2>1, SitDownPeople
  <2> HIDE DEF s
  <2>4. ASSUME IsFinished(r) PROVE Sound(s, n)
    <3>1. SeatsSound(s)
      BY <2>1, <2>2, <2>3, <2>4
      DEF SeatsSound, SameTable, SamePhase, IsFinished, FinishedStatus
    <3>2. r.status # "active" BY <2>4 DEF IsFinished, FinishedStatus
    <3> QED BY <2>2, <2>3, <3>1, <3>2, PeopleSound
  <2>5. ASSUME r.status = "waiting" PROVE Sound(StartGame(s), n)
    <3> DEFINE q1 == StartGame(s)
    <3>1. /\ r.moves = 0 /\ r.board = "open" /\ r.winner = NoColor /\ r.turn = White
          /\ r.firstMoveAt = NoTime
          /\ r.clockEnabled => \A d \in Color : r.clocks[d] = InitialMs
      BY <1>1, <2>5 DEF Sound, VerdictSound, HistorySound, ClockConserved, Room
    <3>2. /\ q1 \in Room /\ SamePeople(q1, s) /\ SameGame(q1, s)
          /\ q1.status = "active" /\ q1.winner = r.winner
          /\ q1.clocks = r.clocks /\ AtRest(q1)
      BY <2>2, <3>1, StartGameFields DEF SameTable, SameGame, SamePhase
    <3> HIDE DEF q1
    <3>3. Members(q1) = Members(s) /\ HumanSeats(q1) = HumanSeats(s)
      BY <3>2 DEF SamePeople, Members, HumanSeats, HoldsSeat, Holds
    <3>4. SeatsSound(q1)
      BY <2>1, <2>2, <2>3, <2>5, <3>2, <3>3 DEF SeatsSound, SamePeople
    <3>5. HasPlayer(q1) BY <2>3, <3>3 DEF HasPlayer
    <3>6. /\ q1.moves = 0 /\ q1.board = "open" /\ q1.turn = White
          /\ q1.firstMoveAt = NoTime /\ q1.clockEnabled = r.clockEnabled
      BY <2>2, <3>1, <3>2 DEF SameTable, SameGame
    <3>7. VerdictSound(q1) BY <3>1, <3>2, <3>6 DEF VerdictSound
    <3>8. OfferSound(q1) /\ MoverOnTheClock(q1)
      BY <3>2, <3>6 DEF OfferSound, MoverOnTheClock, AtRest
    <3>9. ClockConserved(q1)
      BY <3>1, <3>2, <3>6 DEF ClockConserved, AtRest
    <3>10. ~IsBotTurn(q1)
      BY <2>3, <3>2, <3>6, ColorFacts DEF IsBotTurn, SamePeople
    <3>11. HistorySound(q1)
      BY <3>6 DEF HistorySound
    <3>12. NotAfter(q1, n) BY <3>2, <3>6 DEF NotAfter, AtRest, NoTime
    <3> QED BY <3>2, <3>4, <3>5, <3>7, <3>8, <3>9, <3>10, <3>11, <3>12 DEF Sound, BotScheduled, q1
  <2> QED BY <2>1, <2>4, <2>5 DEF s
<1>4. CASE t \notin Members(r) /\ r.seat[White] = Nobody
  <2>1. r.seat[Black] # Nobody
    BY <1>4 DEF Sound, HasPlayer, HumanSeats, Color
  <2>2. Sound(SitDown(r, White, fresh), n) /\ r.status # "waiting"
    BY <1>3, <1>4, <2>1, ColorFacts DEF IsFinished, FinishedStatus
  <2> QED BY <1>4, <2>2 DEF JoinResults
<1>5. CASE t \notin Members(r) /\ r.seat[White] # Nobody /\ r.seat[Black] = Nobody
  <2>1. /\ IsFinished(r) => Sound(SitDown(r, Black, fresh), n)
        /\ r.status = "waiting" => Sound(StartGame(SitDown(r, Black, fresh)), n)
        /\ IsFinished(r) \/ r.status = "waiting"
    BY <1>3, <1>5, ColorFacts
  <2>2. IsFinished(r) => r.status # "waiting" BY DEF IsFinished, FinishedStatus
  <2> QED BY <1>5, <2>1, <2>2 DEF JoinResults
<1>6. CASE t \notin Members(r) /\ r.seat[White] # Nobody /\ r.seat[Black] # Nobody
  <2> DEFINE s1 == [r EXCEPT !.spectators = @ \cup {fresh}]
  <2>1. q = Reconnect(s1, fresh) BY <1>6 DEF JoinResults
  <2>2. /\ s1 \in Room /\ SameTable(s1, r) /\ s1.mode = r.mode /\ s1.drawOffer = r.drawOffer
        /\ s1.seat = r.seat /\ s1.connected = r.connected
        /\ s1.spectators = r.spectators \cup {fresh}
    BY <1>1 DEF Room, SameTable, SameGame, SamePhase
  <2> HIDE DEF s1
  <2>3. /\ HumanSeats(s1) = HumanSeats(r) /\ Members(r) \subseteq Members(s1)
        /\ fresh \in Members(s1)
    BY <2>2 DEF Members, HumanSeats, HoldsSeat, Holds
  <2>4. r.status # "waiting" BY <1>1, <1>6 DEF SeatsSound
  <2>5. \A c \in Color : r.seat[c] # fresh
    BY <1>6 DEF Members, HoldsSeat, Holds
  <2>6. SeatsSound(s1) /\ HasPlayer(s1)
    BY <2>2, <2>3, <2>4, <2>5 DEF Sound, SeatsSound, HasPlayer, SameTable, SamePhase
  <2>7. Sound(s1, n) BY <2>2, <2>6, PeopleSound
  <2> QED BY <2>1, <2>3, <2>7, ReconnectSound
<1> QED BY <1>2, <1>4, <1>5, <1>6

LEMMA LeaveSound ==
  ASSUME NEW r, NEW n \in Nat, Sound(r, n), NEW t \in Token,
         NEW q \in LeaveResults(r, t), q # Absent
  PROVE  Sound(q, n)
<1>1. r \in Room /\ r.seat \in [Color -> Token \cup {Machine, Nobody}]
  BY DEF Sound, Room
<1> DEFINE d == Disconnect(r, t)
           up == [d EXCEPT !.seat = [c \in Color |-> IF r.seat[c] = t THEN Nobody ELSE r.seat[c]]]
           away == [d EXCEPT !.spectators = @ \ {t}]
<1>2. Sound(d, n) BY DisconnectSound
<1>3. /\ d \in Room /\ SameTable(d, r) /\ d.mode = r.mode /\ d.drawOffer = r.drawOffer
      /\ d.seat = r.seat /\ d.spectators = r.spectators
      /\ d.connected = r.connected \ {t}
  BY <1>1 DEF Disconnect, Room, SameTable, SameGame, SamePhase
<1>4. /\ t \in Members(r)
      /\ q = IF HoldsSeat(r, t) THEN StandUp(r, t) ELSE away
      /\ ~ShouldDelete(q)
      /\ HoldsSeat(r, t) => r.mode # "bot_easy"
  BY DEF LeaveResults
<1> HIDE DEF d
<1>5. CASE HoldsSeat(r, t) /\ ~(r.status = "waiting" \/ IsFinished(r))
  BY <1>2, <1>4, <1>5 DEF StandUp, d
<1>6. CASE HoldsSeat(r, t) /\ (r.status = "waiting" \/ IsFinished(r))
  <2>1. q = up BY <1>4, <1>6 DEF StandUp, d
  <2> DEFINE seat == [c \in Color |-> IF r.seat[c] = t THEN Nobody ELSE r.seat[c]]
  <2>2. seat \in [Color -> Token \cup {Machine, Nobody}] BY <1>1
  <2>3. /\ \A c \in Color : seat[c] = IF r.seat[c] = t THEN Nobody ELSE r.seat[c]
    OBVIOUS
  <2> HIDE DEF seat
  <2>4. /\ q \in Room /\ SameTable(q, d) /\ q.mode = d.mode /\ q.drawOffer = d.drawOffer
        /\ q.seat = seat /\ q.spectators = d.spectators /\ q.connected = d.connected
    BY <1>3, <2>1, <2>2 DEF Room, SameTable, SameGame, SamePhase, seat
  <2>5. HasPlayer(q) /\ r.status # "waiting"
    <3>1. r.status = "waiting" => HumanSeats(q) = {} /\ q.spectators = {}
      <4> SUFFICES ASSUME r.status = "waiting" PROVE HumanSeats(q) = {} /\ q.spectators = {}
        OBVIOUS
      <4>1. r.seat[White] = t /\ r.seat[Black] = Nobody /\ r.spectators = {}
        BY <1>6 DEF Sound, SeatsSound, HoldsSeat, Holds, Color
      <4>2. seat[White] = Nobody /\ seat[Black] = Nobody
        BY <4>1, <2>3, ColorFacts
      <4> QED BY <1>3, <2>4, <4>1, <4>2 DEF HumanSeats, Color
    <3>2. r.status # "waiting" BY <3>1, <1>4 DEF ShouldDelete
    <3>3. IsFinished(q)
      BY <1>3, <1>6, <2>4, <3>2 DEF IsFinished, SameTable, SamePhase
    <3> QED BY <1>4, <3>2, <3>3 DEF ShouldDelete, HasPlayer
  <2>6. /\ \A c \in Color : seat[c] # t
        /\ \A u \in Token \ {t} : \A c \in Color : r.seat[c] = u => seat[c] = u
    BY <2>3
  <2>7. Members(r) \ {t} \subseteq Members(q)
    BY <1>3, <2>4, <2>6 DEF Members, HoldsSeat, Holds
  <2>8. SeatsSound(q)
    <3>1. r.status # "active" BY <1>6 DEF IsFinished, FinishedStatus
    <3>2. q.connected \subseteq Members(q) \cup {Machine}
      BY <1>3, <2>4, <2>7 DEF Sound, SeatsSound
    <3>3. q.mode # "bot_easy" /\ \A c \in Color : q.seat[c] # Machine
      BY <1>3, <1>4, <1>6, <2>3, <2>4 DEF Sound, SeatsSound
    <3>4. q.seat[White] \in Token => q.seat[White] # q.seat[Black]
      BY <2>3, <2>4, ColorFacts DEF Sound, SeatsSound
    <3>5. \A c \in Color : q.seat[c] \notin q.spectators
      BY <1>1, <1>3, <2>3, <2>4 DEF Sound, SeatsSound, Room
    <3> QED BY <1>3, <2>4, <2>5, <3>1, <3>2, <3>3, <3>4, <3>5
        DEF SeatsSound, SameTable, SamePhase
  <2>9. d.status # "active"
    BY <1>3, <1>6 DEF IsFinished, FinishedStatus, SameTable, SamePhase
  <2> QED BY <1>2, <2>4, <2>5, <2>8, <2>9, PeopleSound
<1>7. CASE ~HoldsSeat(r, t)
  <2>1. q = away BY <1>4, <1>7
  <2>2. /\ q \in Room /\ SameTable(q, d) /\ q.mode = d.mode /\ q.drawOffer = d.drawOffer
        /\ q.seat = d.seat /\ q.spectators = d.spectators \ {t} /\ q.connected = d.connected
    BY <1>3, <2>1 DEF Room, SameTable, SameGame, SamePhase
  <2>3. HumanSeats(q) = HumanSeats(r) /\ Members(r) \ {t} \subseteq Members(q)
    BY <1>3, <2>2 DEF Members, HumanSeats, HoldsSeat, Holds
  <2>4. SeatsSound(q) /\ HasPlayer(q)
    BY <1>3, <2>2, <2>3 DEF Sound, SeatsSound, HasPlayer, SameTable, SamePhase
  <2> QED BY <1>2, <2>2, <2>4, PeopleSound
<1> QED BY <1>5, <1>6, <1>7

-----------------------------------------------------------------------------
(* Resignations, draws and new rooms.                                      *)

LEMMA FinishUndecidedSound ==
  ASSUME NEW r, NEW n \in Nat, Sound(r, n), ~IsFinished(r),
         NEW w \in Color \cup {NoColor}, NEW s \in {"resigned", "draw"},
         s = "resigned" <=> w \in Color
  PROVE  Sound(FinishGame(r, w, s), n)
<1>1. /\ r \in Room /\ s \in FinishedStatus /\ s \in Status /\ r.status \in {"waiting", "active"}
  BY DEF Sound, Room, Status, FinishedStatus, IsFinished
<1>2. /\ FinishGame(r, w, s).status = s /\ FinishGame(r, w, s).winner = w
      /\ FinishGame(r, w, s).board = r.board
  BY <1>1, FinishGameFields DEF SameGame
<1>3. VerdictSound(FinishGame(r, w, s))
  BY <1>1, <1>2, ColorFacts DEF Sound, VerdictSound
<1> QED BY <1>1, <1>3, FinishSound DEF Sound, ClockConserved, NotAfter

LEMMA ResignSound ==
  ASSUME NEW r, NEW n \in Nat, Sound(r, n), NEW t \in Token, NEW q \in ResignResults(r, t)
  PROVE  Sound(q, n)
<1>1. PICK c \in Color : ~IsFinished(r) /\ q = FinishGame(r, Opposite(c), "resigned")
  BY DEF ResignResults
<1>2. Opposite(c) \in Color BY ColorFacts
<1> QED BY <1>1, <1>2, FinishUndecidedSound

\* A new offer or none in a game in play.
LEMMA OfferChangeSound ==
  ASSUME NEW r, NEW n \in Nat, Sound(r, n), r.status = "active", r.mode = "pvp",
         NEW o \in Color \cup {NoColor}
  PROVE  Sound([r EXCEPT !.drawOffer = o], n)
<1> DEFINE q == [r EXCEPT !.drawOffer = o]
<1>1. /\ q \in Room /\ SamePeople(q, r) /\ SameTable(q, r)
  BY DEF Sound, Room, SamePeople, SameTable, SameGame, SamePhase
<1> HIDE DEF q
<1>2. SeatsSound(q) /\ HasPlayer(q)
  BY <1>1, SamePeopleSound DEF Sound, SameTable, SamePhase
<1>3. VerdictSound(q) /\ OfferSound(q) /\ BotScheduled(q)
  BY <1>1 DEF Sound, VerdictSound, OfferSound, BotScheduled, IsBotTurn,
              SamePeople, SameTable, SameGame, SamePhase
<1>4. MoverOnTheClock(q) /\ ClockConserved(q) /\ HistorySound(q) /\ NotAfter(q, n)
  BY <1>1 DEF Sound, MoverOnTheClock, ClockConserved, HistorySound, NotAfter,
              SameTable, SameGame, SamePhase
<1> QED BY <1>1, <1>2, <1>3, <1>4 DEF Sound, q

LEMMA DrawSound ==
  ASSUME NEW r, NEW n \in Nat, Sound(r, n), NEW t \in Token,
         NEW q \in OfferDrawResults(r, t) \cup AcceptDrawResults(r, t) \cup DeclineDrawResults(r, t)
  PROVE  Sound(q, n)
<1>1. CASE q \in OfferDrawResults(r, t)
  <2>1. PICK c \in Color : /\ r.mode # "bot_easy" /\ r.status = "active"
                           /\ q = [r EXCEPT !.drawOffer = c]
    BY <1>1 DEF OfferDrawResults
  <2>2. r.mode = "pvp" BY <2>1 DEF Sound, Room
  <2> QED BY <2>1, <2>2, OfferChangeSound
<1>2. CASE q \in AcceptDrawResults(r, t) \cup DeclineDrawResults(r, t)
  <2>1. MayAnswerOffer(r, t)
    BY <1>2 DEF AcceptDrawResults, DeclineDrawResults
  <2>2. r.drawOffer # NoColor
    BY <2>1, ColorFacts DEF MayAnswerOffer
  <2>3. r.status = "active" /\ r.mode = "pvp" /\ ~IsFinished(r)
    BY <2>2 DEF Sound, OfferSound, IsFinished, FinishedStatus
  <2>4. q = FinishGame(r, NoColor, "draw") \/ q = [r EXCEPT !.drawOffer = NoColor]
    BY <1>2, <2>1 DEF AcceptDrawResults, DeclineDrawResults
  <2>5. Sound(FinishGame(r, NoColor, "draw"), n)
    BY <2>3, ColorFacts, FinishUndecidedSound
  <2>6. Sound([r EXCEPT !.drawOffer = NoColor], n)
    BY <2>3, OfferChangeSound
  <2> QED BY <2>4, <2>5, <2>6
<1> QED BY <1>1, <1>2

\* CreateRoom saves a sound room, waiting for Black or in play with the machine.
LEMMA NewRoomSound ==
  ASSUME NEW mode \in {"pvp", "bot_easy"}, NEW clockEnabled \in BOOLEAN, NEW t \in Token,
         NEW n \in Nat
  PROVE  Sound(NewRoom(mode, clockEnabled, t), n) /\ Members(NewRoom(mode, clockEnabled, t)) = {t}
<1> DEFINE q == NewRoom(mode, clockEnabled, t)
           status == IF mode = "bot_easy" THEN "active" ELSE "waiting"
           seat == [c \in Color |-> IF c = White THEN t
                                    ELSE IF mode = "bot_easy" THEN Machine ELSE Nobody]
           connected == IF mode = "bot_easy" THEN {t, Machine} ELSE {t}
           clocks == [c \in Color |-> IF clockEnabled THEN InitialMs ELSE 0]
<1>1. /\ seat \in [Color -> Token \cup {Machine, Nobody}]
      /\ clocks \in [Color -> 0 .. InitialMs]
      /\ connected \in SUBSET (Token \cup {Machine})
      /\ status \in Status
  BY DEF Status
<1>2. q = [mode |-> mode, clockEnabled |-> clockEnabled, board |-> "open",
           turn |-> White, status |-> status, winner |-> NoColor, seat |-> seat,
           spectators |-> {}, connected |-> connected, clocks |-> clocks,
           activeColor |-> NoColor, turnStartedAt |-> NoTime,
           moves |-> 0, firstMoveAt |-> NoTime,
           drawOffer |-> NoColor, botMoveDueAt |-> NoTime]
  BY DEF NewRoom, StartGame
<1>3. /\ seat[White] = t
      /\ seat[Black] = IF mode = "bot_easy" THEN Machine ELSE Nobody
      /\ \A c \in Color : clocks[c] = IF clockEnabled THEN InitialMs ELSE 0
  BY ColorFacts
<1> HIDE DEF q, seat, connected, clocks, status
<1>4. q \in Room
  BY <1>1, <1>2, ColorFacts DEF Room, Outcome, Time
<1>5. /\ q.mode = mode /\ q.clockEnabled = clockEnabled /\ q.board = "open"
      /\ q.turn = White /\ q.status = status /\ q.winner = NoColor
      /\ q.seat = seat /\ q.spectators = {} /\ q.connected = connected
      /\ q.clocks = clocks /\ q.moves = 0 /\ q.firstMoveAt = NoTime /\ AtRest(q)
  BY <1>2 DEF AtRest
<1>6. \A c \in Color : c = White \/ c = Black BY DEF Color
<1>7. Members(q) = {t}
  BY <1>3, <1>5, <1>6, ColorFacts DEF Members, HoldsSeat, Holds
<1>8. SeatsSound(q) /\ HasPlayer(q)
  <2>1. q.connected \subseteq Members(q) \cup {Machine}
    BY <1>5, <1>7 DEF connected
  <2>2. HasPlayer(q) BY <1>3, <1>5, ColorFacts DEF HasPlayer, HumanSeats
  <2> QED BY <2>1, <2>2, <1>3, <1>5, <1>6, ColorFacts DEF SeatsSound, status
<1>9. VerdictSound(q) /\ OfferSound(q) /\ MoverOnTheClock(q)
  BY <1>5 DEF VerdictSound, OfferSound, MoverOnTheClock, AtRest, status
<1>10. ClockConserved(q)
  BY <1>3, <1>5 DEF ClockConserved, AtRest
<1>11. ~IsBotTurn(q)
  BY <1>3, <1>5 DEF IsBotTurn
<1>12. HistorySound(q) /\ NotAfter(q, n)
  BY <1>5 DEF HistorySound, NotAfter, AtRest, NoTime
<1> QED BY <1>4, <1>7, <1>8, <1>9, <1>10, <1>11, <1>12 DEF Sound, BotScheduled, q

-----------------------------------------------------------------------------
(* The members of what a command saves: only JoinRoom adds one.            *)

LEMMA SameMembers ==
  ASSUME NEW r, NEW q, q.seat = r.seat, q.spectators = r.spectators
  PROVE  Members(q) = Members(r)
BY DEF Members, HoldsSeat, Holds

LEMMA ApplyMovePeople ==
  ASSUME NEW r, NEW ts \in Nat, Sound(r, ts), r.status = "active", NEW o \in MoveOutcomes(r)
  PROVE  SamePeople(ApplyMove(r, o, ts), r)
<1> DEFINE p == Played(r, o, ts)
<1>1. o \in Outcome /\ r.moves < MaxMoves BY PlayedSound
<1>2. p \in Room /\ SamePeople(p, r)
  BY <1>1, PlayedFields DEF Sound
<1>3. r.turn \in Color BY DEF Sound, Room
<1>4. SamePeople(PassTurn(p, ts), p) BY <1>2, PassTurnFields
<1>5. \A w \in Color \cup {NoColor}, s \in Status : SamePeople(FinishGame(p, w, s), p)
  BY <1>2, FinishGameFields
<1>6. ApplyMove(r, o, ts)
        = IF o = "open" THEN PassTurn(p, ts)
          ELSE IF o = "checkmate" THEN FinishGame(p, r.turn, WonOnBoard)
          ELSE FinishGame(p, NoColor, o)
  BY DEF ApplyMove
<1>7. SamePeople(ApplyMove(r, o, ts), p)
  <2>1. /\ o \notin {"open", "checkmate"} => o \in Status
        /\ WonOnBoard \in Status
    BY <1>1 DEF Outcome, Status, FinishedStatus
  <2>2. CASE o = "open" BY <2>2, <1>4, <1>6
  <2>3. CASE o = "checkmate" BY <2>1, <2>3, <1>3, <1>5, <1>6
  <2>4. CASE o # "open" /\ o # "checkmate" BY <2>1, <2>4, <1>5, <1>6
  <2> QED BY <2>2, <2>3, <2>4
<1> QED BY <1>2, <1>7 DEF SamePeople

\* Moves and ticks leave the people alone.
LEMMA GamePeople ==
  ASSUME NEW r, NEW ts \in Nat, Sound(r, ts), NEW t \in Token,
         NEW q \in SubmitActionResults(r, t, ts) \cup TickResults(r, ts)
  PROVE  Members(q) = Members(r)
<1> DEFINE timed == FinishIfTimedOut(AdvanceClock(r, ts))
<1>1. Sound(timed, ts) /\ SamePeople(timed, r) BY TimedSound
<1>2. \/ q = timed
      \/ timed.status = "active" /\ \E o \in MoveOutcomes(timed) : q = ApplyMove(timed, o, ts)
      \/ /\ ShouldPlayBotMove(timed, ts)
         /\ \E ans \in BotAnswers(timed) : q = PerformBotMove(timed, ans, ts)
  BY DEF SubmitActionResults, TickResults
<1> HIDE DEF timed
<1>3. ASSUME timed.status = "active", NEW o \in MoveOutcomes(timed)
      PROVE  /\ SamePeople(ApplyMove(timed, o, ts), timed)
             /\ SamePeople(RetryBotLater(ApplyMove(timed, o, ts), ts), timed)
  <2>1. SamePeople(ApplyMove(timed, o, ts), timed)
    BY <1>1, <1>3, ApplyMovePeople
  <2>2. Sound(ApplyMove(timed, o, ts), ts) BY <1>1, <1>3, ApplyMoveSound, TimedSound DEF timed
  <2>3. ApplyMove(timed, o, ts) \in Room BY <2>2 DEF Sound
  <2> QED BY <2>1, <2>3, RetryBotLaterFields DEF SamePeople
<1>4. ASSUME ShouldPlayBotMove(timed, ts), NEW ans \in BotAnswers(timed)
      PROVE  SamePeople(PerformBotMove(timed, ans, ts), timed)
  <2>1. timed.status = "active" /\ timed.board = "open" /\ timed \in Room
    BY <1>1, <1>4 DEF ShouldPlayBotMove, Sound, VerdictSound
  <2>2. CASE ans \in {"none", "error"}
    BY <2>1, <2>2, RetryBotLaterFields DEF PerformBotMove
  <2>3. CASE ans \notin {"none", "error"}
    <3>1. ans \in MoveOutcomes(timed) BY <2>3 DEF BotAnswers
    <3> QED BY <1>3, <2>1, <2>3, <3>1 DEF PerformBotMove
  <2> QED BY <2>2, <2>3
<1>5. SamePeople(q, timed) \/ q = timed BY <1>2, <1>3, <1>4
<1>6. q.seat = r.seat /\ q.spectators = r.spectators
  BY <1>1, <1>5 DEF SamePeople
<1> QED BY <1>6, SameMembers

\* So do resignations, draws, heartbeats and lost connections; who leaves goes.
LEMMA OtherPeople ==
  ASSUME NEW r \in Room, NEW t \in Token,
         NEW q \in ResignResults(r, t) \cup OfferDrawResults(r, t) \cup AcceptDrawResults(r, t)
                   \cup DeclineDrawResults(r, t) \cup SyncResults(r, t)
                   \cup MarkDisconnectedResults(r, t)
  PROVE  Members(q) = Members(r)
<1>1. q.seat = r.seat /\ q.spectators = r.spectators
  <2>1. CASE q \in ResignResults(r, t) \cup AcceptDrawResults(r, t)
    <3>1. PICK w, s : q = FinishGame(r, w, s)
      BY <2>1 DEF ResignResults, AcceptDrawResults
    <3> QED BY <3>1 DEF FinishGame, Room
  <2>2. CASE q \in OfferDrawResults(r, t) \cup DeclineDrawResults(r, t)
    <3>1. PICK o : q = [r EXCEPT !.drawOffer = o]
      BY <2>2 DEF OfferDrawResults, DeclineDrawResults
    <3> QED BY <3>1 DEF Room
  <2>3. CASE q \in SyncResults(r, t) \cup MarkDisconnectedResults(r, t)
    <3>1. q \in {r, Reconnect(r, t), Disconnect(r, t)}
      BY <2>3 DEF SyncResults, MarkDisconnectedResults
    <3> QED BY <3>1 DEF Reconnect, Disconnect, Room
  <2> QED BY <2>1, <2>2, <2>3
<1> QED BY <1>1, SameMembers

LEMMA LeavePeople ==
  ASSUME NEW r \in Room, NEW t \in Token, NEW q \in LeaveResults(r, t), q # Absent
  PROVE  Members(q) \subseteq Members(r)
<1> DEFINE d == Disconnect(r, t)
           seat == [c \in Color |-> IF r.seat[c] = t THEN Nobody ELSE r.seat[c]]
<1>1. d \in Room /\ d.seat = r.seat /\ d.spectators = r.spectators
  BY DEF Disconnect, Room
<1> HIDE DEF d
<1>2. \/ q = d
      \/ q = [d EXCEPT !.seat = seat]
      \/ q = [d EXCEPT !.spectators = @ \ {t}]
  BY DEF LeaveResults, StandUp, d
<1>3. \A c \in Color : seat[c] \in Token => seat[c] = r.seat[c]
  OBVIOUS
<1> HIDE DEF seat
<1>4. /\ q.spectators \subseteq r.spectators
      /\ q.seat = r.seat \/ q.seat = seat
  BY <1>1, <1>2 DEF Room
<1> QED BY <1>3, <1>4 DEF Members, HoldsSeat, Holds

\* Joining adds nobody but the session that was handed the new token.
LEMMA JoinPeople ==
  ASSUME NEW r \in Room, NEW t \in Token, NEW fresh \in Token, NEW q \in JoinResults(r, t, fresh)
  PROVE  /\ Members(q) \subseteq Members(r) \cup {fresh}
         /\ t \in Members(r) => Members(q) = Members(r)
<1>1. CASE t \in Members(r)
  <2>1. q = Reconnect(r, t) BY <1>1 DEF JoinResults
  <2>2. q.seat = r.seat /\ q.spectators = r.spectators BY <2>1 DEF Reconnect, Room
  <2> QED BY <2>2, SameMembers
<1>2. CASE t \notin Members(r)
  <2>1. \/ \E c \in Color : q = SitDown(r, c, fresh) \/ q = StartGame(SitDown(r, c, fresh))
        \/ q = Reconnect([r EXCEPT !.spectators = @ \cup {fresh}], fresh)
    BY <1>2, ColorFacts DEF JoinResults
  <2>2. CASE \E c \in Color : q = SitDown(r, c, fresh) \/ q = StartGame(SitDown(r, c, fresh))
    <3>1. PICK c \in Color : q = SitDown(r, c, fresh) \/ q = StartGame(SitDown(r, c, fresh))
      BY <2>2
    <3> DEFINE s == SitDown(r, c, fresh)
    <3>2. /\ s \in Room /\ s.seat = [r.seat EXCEPT ![c] = fresh] /\ s.spectators = r.spectators
      BY SitDownFields
    <3>3. q = s \/ q = StartGame(s) BY <3>1
    <3> HIDE DEF s
    <3>4. q.seat = s.seat /\ q.spectators = s.spectators
      BY ONLY <3>2, <3>3 DEF StartGame, Room
    <3>5. \A d \in Color : q.seat[d] \in {r.seat[d], fresh}
      BY <3>2, <3>4 DEF Room
    <3> QED BY <1>2, <3>2, <3>4, <3>5 DEF Members, HoldsSeat, Holds
  <2>3. CASE q = Reconnect([r EXCEPT !.spectators = @ \cup {fresh}], fresh)
    <3>1. q.seat = r.seat /\ q.spectators = r.spectators \cup {fresh}
      BY <2>3 DEF Reconnect, Room
    <3> QED BY <1>2, <3>1 DEF Members, HoldsSeat, Holds
  <2> QED BY <2>1, <2>2, <2>3
<1> QED BY <1>1, <1>2

-----------------------------------------------------------------------------
(* A game that is over.                                                    *)

LEMMA OverStandsStill ==
  ASSUME NEW r, NEW n \in Nat, Sound(r, n), IsFinished(r), NEW ts \in Nat
  PROVE  /\ FinishIfTimedOut(AdvanceClock(r, ts)) = r
         /\ r.status # "active" /\ r.status # "waiting"
         /\ r.drawOffer \notin Color
<1>1. r.status # "active" /\ r.status # "waiting"
  BY DEF IsFinished, FinishedStatus
<1>2. r.activeColor = NoColor /\ r.drawOffer = NoColor
  BY <1>1 DEF Sound, MoverOnTheClock, OfferSound
<1>3. AdvanceClock(r, ts) = r
  BY <1>2 DEF AdvanceClock
<1> QED BY <1>1, <1>2, <1>3, ColorFacts DEF FinishIfTimedOut

\* Those who come, go, return or lose their connection change nothing at the table.
LEMMA VerdictKeptByPeople ==
  ASSUME NEW r, NEW n \in Nat, Sound(r, n), IsFinished(r), NEW t \in Token, NEW fresh \in Token,
         NEW q \in JoinResults(r, t, fresh) \cup LeaveResults(r, t) \cup SyncResults(r, t)
                  \cup MarkDisconnectedResults(r, t), q # Absent
  PROVE  SameTable(q, r)
<1>1. r \in Room /\ r.status # "waiting"
  BY OverStandsStill DEF Sound
<1>2. \A p \in Room : SameTable(Reconnect(p, t), p) /\ SameTable(Disconnect(p, t), p)
  BY DEF Reconnect, Disconnect, Room, SameTable, SameGame, SamePhase
<1>3. CASE q \in JoinResults(r, t, fresh)
  <2>1. \/ q = Reconnect(r, t)
        \/ \E c \in Color : q = SitDown(r, c, fresh)
        \/ q = Reconnect([r EXCEPT !.spectators = @ \cup {fresh}], fresh)
    BY <1>1, <1>3, ColorFacts DEF JoinResults
  <2>2. \A c \in Color : SameTable(SitDown(r, c, fresh), r)
    BY <1>1, SitDownFields
  <2>3. SameTable(Reconnect([r EXCEPT !.spectators = @ \cup {fresh}], fresh), r)
    BY <1>1 DEF Reconnect, Room, SameTable, SameGame, SamePhase
  <2> QED BY <1>1, <1>2, <2>1, <2>2, <2>3
<1>4. CASE q \in LeaveResults(r, t)
  <2> DEFINE d == Disconnect(r, t)
             seat == [c \in Color |-> IF r.seat[c] = t THEN Nobody ELSE r.seat[c]]
  <2>1. d \in Room /\ SameTable(d, r)
    BY <1>1, <1>2 DEF Disconnect, Room
  <2> HIDE DEF d
  <2>2. \/ q = d
        \/ q = [d EXCEPT !.seat = seat]
        \/ q = [d EXCEPT !.spectators = @ \ {t}]
    BY <1>4 DEF LeaveResults, StandUp, d
  <2> HIDE DEF seat
  <2>3. SameTable(q, d) BY <2>1, <2>2 DEF Room, SameTable, SameGame, SamePhase
  <2> QED BY <2>1, <2>3 DEF SameTable, SameGame, SamePhase
<1>5. CASE q \in SyncResults(r, t) \cup MarkDisconnectedResults(r, t)
  <2>1. q \in {r, Reconnect(r, t), Disconnect(r, t)}
    BY <1>5 DEF SyncResults, MarkDisconnectedResults
  <2> QED BY <1>1, <1>2, <2>1 DEF SameTable, SameGame, SamePhase
<1> QED BY <1>3, <1>4, <1>5

\* Moves, resignations, draw offers and ticks find the game over.
LEMMA VerdictKeptByPlay ==
  ASSUME NEW r, NEW n \in Nat, Sound(r, n), IsFinished(r), NEW t \in Token, NEW ts \in Nat,
         NEW q \in SubmitActionResults(r, t, ts) \cup ResignResults(r, t) \cup OfferDrawResults(r, t)
                  \cup AcceptDrawResults(r, t) \cup DeclineDrawResults(r, t)
  PROVE  q = r
<1>1. /\ FinishIfTimedOut(AdvanceClock(r, ts)) = r /\ r.status # "active"
      /\ r.drawOffer \notin Color
  BY OverStandsStill
<1>2. ~MayAnswerOffer(r, t) BY <1>1, ColorFacts DEF MayAnswerOffer
<1> QED
  BY <1>1, <1>2 DEF SubmitActionResults, ResignResults, OfferDrawResults, AcceptDrawResults,
                    DeclineDrawResults

LEMMA VerdictKeptByTick ==
  ASSUME NEW r, NEW n \in Nat, Sound(r, n), IsFinished(r), NEW ts \in Nat
  PROVE  TickResults(r, ts) = {}
<1>1. FinishIfTimedOut(AdvanceClock(r, ts)) = r /\ r.status # "active"
  BY OverStandsStill
<1> QED BY <1>1 DEF TickResults, ShouldPlayBotMove
-----------------------------------------------------------------------------
(* What a command makes of the match, and of the seats.                    *)

\* Both seats are what they were, or become free; nobody's seat is taken.
SeatsHeld(q, r) ==
  \A c \in Color : /\ q.seat[c] \in {r.seat[c], Nobody} \/ r.seat[c] = Nobody
                   /\ r.status = "active" => q.seat[c] = r.seat[c]

SameMatch(q, r) ==
  q.status = r.status /\ q.winner = r.winner /\ q.moves = r.moves /\ q.turn = r.turn
Started(q, r) == r.status = "waiting" /\ q.status = "active" /\ q.moves = r.moves
Moved(q, r) ==
  /\ r.status = "active" /\ q.moves = r.moves + 1
  /\ \/ q.status = "active"
     \/ <<q.status, q.winner>> \in {<<WonOnBoard, r.turn>>, <<"stalemate", NoColor>>,
                                    <<"draw", NoColor>>}
Stopped(q, r) ==
  /\ r.status \in {"waiting", "active"} /\ q.moves = r.moves
  /\ \/ <<q.status, q.winner>> = <<"resigned", Black>>
     \/ r.status = "active" /\ <<q.status, q.winner>> \in {<<"resigned", White>>,
                                                           <<"timeout", Opposite(r.turn)>>}
     \/ r.status = "active" /\ r.mode = "pvp" /\ <<q.status, q.winner>> = <<"draw", NoColor>>

\* A step of the match, or none.
Proceeds(q, r) ==
  /\ q.mode = r.mode
  /\ SameMatch(q, r) \/ Started(q, r) \/ Moved(q, r) \/ Stopped(q, r)

LEMMA SamePeopleHeld ==
  ASSUME NEW q, NEW r, SamePeople(q, r)
  PROVE  SeatsHeld(q, r) /\ q.mode = r.mode
BY DEF SamePeople, SeatsHeld

LEMMA ApplyMoveMoves ==
  ASSUME NEW r, NEW ts \in Nat, Sound(r, ts), r.status = "active", NEW o \in MoveOutcomes(r)
  PROVE  /\ ApplyMove(r, o, ts) \in Room
         /\ SamePeople(ApplyMove(r, o, ts), r)
         /\ Moved(ApplyMove(r, o, ts), r)
<1> DEFINE p == Played(r, o, ts)
<1>1. o \in Outcome /\ r.moves < MaxMoves /\ r \in Room /\ r.turn \in Color
  BY PlayedSound DEF Sound, Room
<1>2. p \in Room /\ p.status = "active" /\ p.moves = r.moves + 1
  BY <1>1, PlayedFields DEF SamePhase
<1>3. ApplyMove(r, o, ts)
        = IF o = "open" THEN PassTurn(p, ts)
          ELSE IF o = "checkmate" THEN FinishGame(p, r.turn, WonOnBoard)
          ELSE FinishGame(p, NoColor, o)
  BY DEF ApplyMove
<1>4. SamePeople(ApplyMove(r, o, ts), r) BY <1>1, ApplyMovePeople
<1> HIDE DEF p
<1>5. CASE o = "open"
  <2>1. PassTurn(p, ts) \in Room /\ SameGame(PassTurn(p, ts), p) /\ PassTurn(p, ts).status = p.status
    BY <1>2, PassTurnFields
  <2>2. PassTurn(p, ts).moves = r.moves + 1 /\ PassTurn(p, ts).status = "active"
    BY <1>2, <2>1 DEF SameGame
  <2>3. ApplyMove(r, o, ts) = PassTurn(p, ts) BY <1>3, <1>5
  <2> QED BY <1>4, <2>1, <2>2, <2>3 DEF Moved
<1>6. CASE o = "checkmate"
  <2>1. WonOnBoard \in Status BY DEF Status, FinishedStatus
  <2> QED BY <1>1, <1>2, <1>3, <1>4, <1>6, <2>1, FinishGameFields DEF Moved, SameGame
<1>7. CASE o \notin {"open", "checkmate"}
  <2>1. o \in {"stalemate", "draw"} /\ o \in Status
    BY <1>1, <1>7 DEF Outcome, Status, FinishedStatus
  <2> QED BY <1>2, <1>3, <1>4, <1>7, <2>1, FinishGameFields DEF Moved, SameGame
<1> QED BY <1>5, <1>6, <1>7

\* The clock read and the flag looked at: nothing, or the mover's time is up.
LEMMA TimedProceeds ==
  ASSUME NEW r, NEW ts \in Nat, Sound(r, ts)
  PROVE  LET q == FinishIfTimedOut(AdvanceClock(r, ts))
         IN  /\ Sound(q, ts) /\ SamePeople(q, r) /\ q.moves = r.moves /\ q.turn = r.turn
             /\ SameMatch(q, r) \/ (Stopped(q, r) /\ q.status = "timeout")
<1> DEFINE q == FinishIfTimedOut(AdvanceClock(r, ts))
<1>1. /\ Sound(q, ts) /\ SamePeople(q, r) /\ SameGame(q, r)
      /\ q.status = r.status \/ (r.status = "active" /\ q.status = "timeout")
      /\ q.status = r.status => q.winner = r.winner
  BY TimedSound
<1> HIDE DEF q
<1>2. q.status = "timeout" => q.winner = Opposite(q.turn)
  BY <1>1 DEF Sound, VerdictSound
<1> QED BY <1>1, <1>2 DEF SameGame, SameMatch, Stopped, q

LEMMA MovedLater ==
  ASSUME NEW q, NEW r, NEW s, Moved(q, s), SameMatch(s, r)
  PROVE  Moved(q, r)
BY DEF Moved, SameMatch

LEMMA SubmitActionProceeds ==
  ASSUME NEW r, NEW ts \in Nat, Sound(r, ts), NEW t \in Token,
         NEW q \in SubmitActionResults(r, t, ts)
  PROVE  Proceeds(q, r) /\ SeatsHeld(q, r)
<1> DEFINE timed == FinishIfTimedOut(AdvanceClock(r, ts))
<1>1. /\ Sound(timed, ts) /\ SamePeople(timed, r)
      /\ SameMatch(timed, r) \/ (Stopped(timed, r) /\ timed.status = "timeout")
  BY TimedProceeds
<1>2. \/ q = timed
      \/ timed.status = "active" /\ \E o \in MoveOutcomes(timed) : q = ApplyMove(timed, o, ts)
  BY DEF SubmitActionResults
<1> HIDE DEF timed
<1>3. CASE q = timed
  BY <1>1, <1>3, SamePeopleHeld DEF Proceeds
<1>4. ASSUME timed.status = "active", NEW o \in MoveOutcomes(timed), q = ApplyMove(timed, o, ts)
      PROVE  Proceeds(q, r) /\ SeatsHeld(q, r)
  <2>1. SamePeople(q, timed) /\ Moved(q, timed) BY <1>1, <1>4, ApplyMoveMoves
  <2>2. Moved(q, r) BY <1>1, <1>4, <2>1, MovedLater
  <2>3. SamePeople(q, r) BY <1>1, <2>1 DEF SamePeople
  <2> QED BY <2>2, <2>3, SamePeopleHeld DEF Proceeds
<1> QED BY <1>2, <1>3, <1>4

LEMMA TickProceeds ==
  ASSUME NEW r, NEW ts \in Nat, Sound(r, ts), NEW q \in TickResults(r, ts)
  PROVE  Proceeds(q, r) /\ SeatsHeld(q, r)
<1> DEFINE timed == FinishIfTimedOut(AdvanceClock(r, ts))
<1>1. /\ Sound(timed, ts) /\ SamePeople(timed, r)
      /\ SameMatch(timed, r) \/ (Stopped(timed, r) /\ timed.status = "timeout")
  BY TimedProceeds
<1>2. \/ q = timed
      \/ /\ ShouldPlayBotMove(timed, ts)
         /\ \E ans \in BotAnswers(timed) : q = PerformBotMove(timed, ans, ts)
  BY DEF TickResults
<1> HIDE DEF timed
<1>3. CASE q = timed
  BY <1>1, <1>3, SamePeopleHeld DEF Proceeds
<1>4. ASSUME ShouldPlayBotMove(timed, ts), NEW ans \in BotAnswers(timed),
             q = PerformBotMove(timed, ans, ts)
      PROVE  Proceeds(q, r) /\ SeatsHeld(q, r)
  <2>1. timed.status = "active" /\ timed.board = "open" /\ timed \in Room
    BY <1>1, <1>4 DEF ShouldPlayBotMove, Sound, VerdictSound
  <2>2. SameMatch(timed, r) BY <1>1, <2>1
  <2>3. CASE ans \in {"none", "error"}
    <3>1. q = RetryBotLater(timed, ts) BY <1>4, <2>1, <2>3 DEF PerformBotMove
    <3>2. SamePeople(q, timed) /\ SameGame(q, timed) /\ SamePhase(q, timed)
      BY <2>1, <3>1, RetryBotLaterFields
    <3>3. SameMatch(q, r) BY <2>2, <3>2 DEF SameMatch, SameGame, SamePhase
    <3>4. SamePeople(q, r) BY <1>1, <3>2 DEF SamePeople
    <3> QED BY <3>3, <3>4, SamePeopleHeld DEF Proceeds
  <2>4. CASE ans \notin {"none", "error"}
    <3> DEFINE p == ApplyMove(timed, ans, ts)
    <3>1. ans \in MoveOutcomes(timed) BY <2>4 DEF BotAnswers
    <3>2. p \in Room /\ SamePeople(p, timed) /\ Moved(p, timed)
      BY <1>1, <2>1, <3>1, ApplyMoveMoves
    <3>3. q = RetryBotLater(p, ts) BY <1>4, <2>4 DEF PerformBotMove
    <3> HIDE DEF p
    <3>4. SamePeople(q, p) /\ SameGame(q, p) /\ SamePhase(q, p)
      BY <3>2, <3>3, RetryBotLaterFields
    <3>5. Moved(q, timed) BY <3>2, <3>4 DEF Moved, SameGame, SamePhase
    <3>6. Moved(q, r) BY <2>2, <3>5, MovedLater
    <3>7. SamePeople(q, r) BY <1>1, <3>2, <3>4 DEF SamePeople
    <3> QED BY <3>6, <3>7, SamePeopleHeld DEF Proceeds
  <2> QED BY <2>3, <2>4
<1> QED BY <1>2, <1>3, <1>4

LEMMA ResignProceeds ==
  ASSUME NEW r, NEW n \in Nat, Sound(r, n), NEW t \in Token, NEW q \in ResignResults(r, t)
  PROVE  Proceeds(q, r) /\ SeatsHeld(q, r) /\ q.moves = r.moves
<1>1. r \in Room /\ r.status \in Status BY DEF Sound, Room
<1>2. PICK c \in Color : Holds(r, t, c) /\ ~IsFinished(r) /\ q = FinishGame(r, Opposite(c), "resigned")
  BY DEF ResignResults
<1>3. "resigned" \in Status /\ Opposite(c) \in Color
  BY ColorFacts DEF Status, FinishedStatus
<1>4. SamePeople(q, r) /\ SameGame(q, r) /\ q.status = "resigned" /\ q.winner = Opposite(c)
  BY <1>1, <1>2, <1>3, FinishGameFields
<1>5. r.status \in {"waiting", "active"} BY <1>1, <1>2 DEF Status, IsFinished
<1>6. r.status = "waiting" => c = White
  BY <1>2, ColorFacts DEF Sound, SeatsSound, Holds, Color
<1>7. c = White \/ c = Black BY DEF Color
<1>8. Opposite(White) = Black /\ Opposite(Black) = White BY DEF Opposite, White, Black
<1>9. Stopped(q, r) BY <1>4, <1>5, <1>6, <1>7, <1>8 DEF Stopped, SameGame
<1> QED BY <1>4, <1>9, SamePeopleHeld DEF Proceeds, Stopped

LEMMA DrawProceeds ==
  ASSUME NEW r, NEW n \in Nat, Sound(r, n), NEW t \in Token,
         NEW q \in OfferDrawResults(r, t) \cup AcceptDrawResults(r, t) \cup DeclineDrawResults(r, t)
  PROVE  Proceeds(q, r) /\ SeatsHeld(q, r) /\ q.moves = r.moves
<1>1. r \in Room BY DEF Sound
<1>2. CASE q \in OfferDrawResults(r, t) \cup DeclineDrawResults(r, t)
  <2>1. PICK o : q = [r EXCEPT !.drawOffer = o]
    BY <1>2 DEF OfferDrawResults, DeclineDrawResults
  <2>2. SamePeople(q, r) /\ SameMatch(q, r)
    BY <1>1, <2>1 DEF Room, SamePeople, SameMatch
  <2> QED BY <2>2, SamePeopleHeld DEF Proceeds, SameMatch
<1>3. CASE q \in AcceptDrawResults(r, t)
  <2>1. MayAnswerOffer(r, t) /\ q = FinishGame(r, NoColor, "draw")
    BY <1>3 DEF AcceptDrawResults
  <2>2. r.drawOffer # NoColor BY <2>1, ColorFacts DEF MayAnswerOffer
  <2>3. r.status = "active" /\ r.mode = "pvp" BY <2>2 DEF Sound, OfferSound
  <2>4. SamePeople(q, r) /\ SameGame(q, r) /\ q.status = "draw" /\ q.winner = NoColor
    BY <1>1, <2>1, FinishGameFields DEF Status, FinishedStatus
  <2>5. Stopped(q, r) BY <2>3, <2>4 DEF Stopped, SameGame
  <2> QED BY <2>4, <2>5, SamePeopleHeld DEF Proceeds, Stopped
<1> QED BY <1>2, <1>3

LEMMA PresenceProceeds ==
  ASSUME NEW r, NEW n \in Nat, Sound(r, n), NEW t \in Token,
         NEW q \in SyncResults(r, t) \cup MarkDisconnectedResults(r, t)
  PROVE  Proceeds(q, r) /\ SeatsHeld(q, r) /\ q.moves = r.moves
<1>1. q \in {r, Reconnect(r, t), Disconnect(r, t)}
  BY DEF SyncResults, MarkDisconnectedResults
<1>2. q.seat = r.seat /\ q.mode = r.mode /\ SameMatch(q, r)
  BY <1>1 DEF Sound, Reconnect, Disconnect, Room, SameMatch
<1> QED BY <1>2 DEF Proceeds, SeatsHeld, SameMatch

LEMMA JoinProceeds ==
  ASSUME NEW r, NEW n \in Nat, Sound(r, n), NEW t \in Token, NEW fresh \in Token,
         NEW q \in JoinResults(r, t, fresh)
  PROVE  Proceeds(q, r) /\ SeatsHeld(q, r) /\ q.moves = r.moves
<1>1. r \in Room /\ r.seat \in [Color -> Token \cup {Machine, Nobody}] BY DEF Sound, Room
<1>2. CASE t \in Members(r)
  BY <1>1, <1>2 DEF JoinResults, Reconnect, Room, Proceeds, SameMatch, SeatsHeld
<1>3. ASSUME NEW c \in Color, r.seat[c] = Nobody,
             \/ q = SitDown(r, c, fresh) /\ r.status # "waiting"
             \/ q = StartGame(SitDown(r, c, fresh)) /\ r.status = "waiting"
      PROVE  Proceeds(q, r) /\ SeatsHeld(q, r) /\ q.moves = r.moves
  <2> DEFINE s == SitDown(r, c, fresh)
  <2>1. s \in Room /\ SameTable(s, r) /\ s.mode = r.mode /\ s.seat = [r.seat EXCEPT ![c] = fresh]
    BY <1>1, SitDownFields
  <2>2. \/ q = s /\ r.status # "waiting"
        \/ q = StartGame(s) /\ r.status = "waiting"
    BY <1>3
  <2> HIDE DEF s
  <2>3. r.status # "active" BY <1>3 DEF Sound, SeatsSound
  <2>4. q.seat = s.seat /\ q.mode = s.mode /\ q.moves = s.moves
    <3>1. s \in Room /\ (q = s \/ q = StartGame(s)) BY <2>1, <2>2
    <3> QED BY ONLY <3>1 DEF StartGame, Room
  <2>5. SeatsHeld(q, r) BY <1>1, <1>3, <2>1, <2>3, <2>4 DEF SeatsHeld
  <2>6. CASE q = s
    BY <2>1, <2>5, <2>6 DEF Proceeds, SameMatch, SameTable, SameGame, SamePhase
  <2>7. CASE q = StartGame(s) /\ r.status = "waiting"
    <3>1. q.status = "active" BY <2>1, <2>7 DEF StartGame, Room
    <3> QED BY <2>1, <2>4, <2>5, <2>7, <3>1 DEF Proceeds, Started, SameTable, SameGame
  <2> QED BY <2>2, <2>6, <2>7
<1>4. CASE t \notin Members(r) /\ r.seat[White] = Nobody
  <2>1. r.status # "waiting" BY <1>4 DEF Sound, SeatsSound
  <2>2. q = SitDown(r, White, fresh) BY <1>4, <2>1 DEF JoinResults
  <2> QED BY <1>3, <1>4, <2>1, <2>2, ColorFacts
<1>5. CASE t \notin Members(r) /\ r.seat[White] # Nobody /\ r.seat[Black] = Nobody
  <2>1. \/ q = SitDown(r, Black, fresh) /\ r.status # "waiting"
        \/ q = StartGame(SitDown(r, Black, fresh)) /\ r.status = "waiting"
    BY <1>5 DEF JoinResults
  <2> QED BY <1>3, <1>5, <2>1, ColorFacts
<1>6. CASE t \notin Members(r) /\ r.seat[White] # Nobody /\ r.seat[Black] # Nobody
  <2>1. q = Reconnect([r EXCEPT !.spectators = @ \cup {fresh}], fresh)
    BY <1>6 DEF JoinResults
  <2>2. q.seat = r.seat /\ q.mode = r.mode /\ SameMatch(q, r)
    BY <1>1, <2>1 DEF Reconnect, Room, SameMatch
  <2> QED BY <2>2 DEF Proceeds, SeatsHeld, SameMatch
<1> QED BY <1>2, <1>4, <1>5, <1>6

\* Whoever leaves changes no match; the room is deleted before or after one, or
\* with the only player of one against the machine.
LEMMA LeaveProceeds ==
  ASSUME NEW r, NEW n \in Nat, Sound(r, n), NEW t \in Token, NEW q \in LeaveResults(r, t)
  PROVE  /\ q # Absent => Proceeds(q, r) /\ SeatsHeld(q, r) /\ q.moves = r.moves
         /\ q = Absent => IsFinished(r) \/ r.status = "waiting" \/ r.mode = "bot_easy"
<1>1. r \in Room /\ r.seat \in [Color -> Token \cup {Machine, Nobody}] BY DEF Sound, Room
<1> DEFINE d == Disconnect(r, t)
           seat == [c \in Color |-> IF r.seat[c] = t THEN Nobody ELSE r.seat[c]]
<1>2. /\ d \in Room /\ d.seat = r.seat /\ d.mode = r.mode /\ SameMatch(d, r)
      /\ d.status = r.status
  BY <1>1 DEF Disconnect, Room, SameMatch
<1> HIDE DEF d
<1>3. \/ q = Absent
      \/ q = d
      \/ q = [d EXCEPT !.seat = seat] /\ r.status # "active"
      \/ q = [d EXCEPT !.spectators = @ \ {t}]
  <2>1. r.status = "waiting" \/ IsFinished(r) => r.status # "active"
    BY DEF IsFinished, FinishedStatus
  <2> QED BY <2>1 DEF LeaveResults, StandUp, d
<1>4. ASSUME q # Absent PROVE Proceeds(q, r) /\ SeatsHeld(q, r) /\ q.moves = r.moves
  <2>1. q.mode = d.mode /\ SameMatch(q, d)
    BY <1>2, <1>3, <1>4 DEF Room, SameMatch
  <2>2. q.seat = r.seat \/ (q.seat = seat /\ r.status # "active")
    BY <1>2, <1>3, <1>4 DEF Room
  <2> QED BY <1>1, <1>2, <2>1, <2>2 DEF Proceeds, SeatsHeld, SameMatch
<1>5. ASSUME r.status = "active", r.mode # "bot_easy" PROVE q # Absent
  <2>1. ~IsFinished(r) BY <1>5 DEF IsFinished, FinishedStatus
  <2>2. HumanSeats(r) # {} BY DEF Sound, HasPlayer
  <2> DEFINE left == IF HoldsSeat(r, t) THEN StandUp(r, t)
                     ELSE [Disconnect(r, t) EXCEPT !.spectators = @ \ {t}]
  <2>3. left.seat = r.seat
    BY <1>2, <1>5, <2>1 DEF StandUp, d, Room
  <2> HIDE DEF left
  <2>4. ~ShouldDelete(left) BY <2>2, <2>3 DEF ShouldDelete, HumanSeats
  <2>5. left # Absent
    <3>1. left \in Room BY <1>2, <1>5, <2>1 DEF left, StandUp, d, Room
    <3> QED BY <3>1
  <2>6. q = left BY <1>5, <2>4 DEF LeaveResults, left
  <2> QED BY <2>5, <2>6
<1>6. r.status \in Status /\ r.mode \in {"pvp", "bot_easy"} BY <1>1 DEF Room
<1> QED BY <1>4, <1>5, <1>6 DEF Status, IsFinished

\* A move is taken only from a player whose time is not up.
LEMMA InTime ==
  ASSUME NEW r, NEW ts \in Nat, Sound(r, ts), r.activeColor # NoColor,
         FinishIfTimedOut(AdvanceClock(r, ts)).status = "active"
  PROVE  ts - r.turnStartedAt < r.clocks[r.activeColor]
<1> DEFINE a == AdvanceClock(r, ts)
<1>1. /\ r \in Room /\ r.activeColor \in Color /\ r.turnStartedAt \in Nat
      /\ r.clockEnabled /\ r.turnStartedAt <= ts
      /\ r.clocks[r.activeColor] \in Nat /\ r.clocks[r.activeColor] > 0
  BY DEF Sound, Room, MoverOnTheClock, ClockConserved, NotAfter, Time, NoTime
<1>2. CASE ts = r.turnStartedAt
  BY <1>1, <1>2
<1>3. CASE ts > r.turnStartedAt
  <2>1. a = [r EXCEPT !.clocks[r.activeColor] = TimeLeft(@, ts - r.turnStartedAt),
                      !.turnStartedAt = ts]
    BY <1>1, <1>3 DEF AdvanceClock, NoTime
  <2>2. /\ a.clocks[r.activeColor] = TimeLeft(r.clocks[r.activeColor], ts - r.turnStartedAt)
        /\ a.clockEnabled
    BY <1>1, <2>1 DEF Room
  <2>3. FinishIfTimedOut(a).status = "active" OBVIOUS
  <2> HIDE DEF a
  <2>4. a.clocks[r.activeColor] > 0
    <3>1. \A w : FinishGame(a, w, "timeout").status # "active"
      <4>1. a.status = r.status /\ DOMAIN a = DOMAIN r BY <1>1, <2>1 DEF Room
      <4>2. "status" \in DOMAIN a BY <1>1, <4>1 DEF Room
      <4> QED BY <4>2 DEF FinishGame
    <3>2. ~(a.clocks[White] <= 0) /\ ~(a.clocks[Black] <= 0)
      <4>1. a.status = "active"
        BY <2>2, <2>3, <3>1 DEF FinishIfTimedOut
      <4> QED BY <2>2, <2>3, <3>1, <4>1 DEF FinishIfTimedOut
    <3>3. a.clocks[r.activeColor] \in Int BY <1>1, <1>3, <2>2 DEF TimeLeft
    <3> QED BY <1>1, <3>2, <3>3 DEF Color
  <2> QED BY <1>1, <1>3, <2>2, <2>4 DEF TimeLeft
<1> QED BY <1>1, <1>2, <1>3

LEMMA GameMovesInTime ==
  ASSUME NEW r, NEW ts \in Nat, Sound(r, ts), NEW t \in Token,
         NEW q \in SubmitActionResults(r, t, ts) \cup TickResults(r, ts),
         q.moves > r.moves, r.activeColor # NoColor
  PROVE  ts - r.turnStartedAt < r.clocks[r.activeColor]
<1> DEFINE timed == FinishIfTimedOut(AdvanceClock(r, ts))
<1>1. timed.moves = r.moves BY TimedProceeds
<1>2. q = timed \/ timed.status = "active"
  BY DEF SubmitActionResults, TickResults, ShouldPlayBotMove
<1>3. r.moves \in Nat BY DEF Sound, Room
<1>4. timed.status = "active" BY <1>1, <1>2, <1>3
<1> QED BY <1>4, InTime

=============================================================================

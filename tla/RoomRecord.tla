----------------------------- MODULE RoomRecord ------------------------------
(***************************************************************************)
(* The times and the clock of a room's record: what the commands and the   *)
(* tick stamp on it, each from the moment it loaded its copy and from the  *)
(* wall clock when a game ends, what SaveRoom stamps, and the defaults     *)
(* that every load fills in.  Handlers overlap as they like.               *)
(***************************************************************************)
EXTENDS Naturals

CONSTANTS Writer,      \* handlers that may run at the same time
          LastTime     \* bound on the wall clock

VARIABLES record,      \* the record in Redis, or NoRecord
          copies,      \* the copy each handler works on, with its timestamp, or Resting
          time         \* the wall clock

recordVars == <<record, copies, time>>

Nil == 0               \* a nil or zero time
\* The clocks are known by which are above zero: the initial time, a player's.
Running == {"initial", "player"}
NoRecord == [status |-> "none"]
Resting == [step |-> "resting"]

Init == record = NoRecord /\ copies = [w \in Writer |-> Resting] /\ time = 1

-----------------------------------------------------------------------------
(* normalizeStateDefaults, on every load *)

Finished(r) == r.status = "finished"
FirstOf(a, b) == IF a # Nil THEN a ELSE b

StartedDefault(r) ==
  IF r.started # Nil THEN r.started
  ELSE FirstOf(r.first, IF r.status # "waiting" THEN r.created ELSE Nil)

FinishedDefault(r) ==
  IF ~Finished(r) THEN Nil
  ELSE FirstOf(r.finished,
         FirstOf(r.updated, FirstOf(r.last, FirstOf(StartedDefault(r), r.created))))

NormalizeStateDefaults(r) ==
  [r EXCEPT !.started = StartedDefault(r), !.finished = FinishedDefault(r),
            !.timed = r.timed \/ r.running # {}]

-----------------------------------------------------------------------------
(* What a handler does to its copy, at the timestamp ts *)

StartGame(r, ts) ==
  [r EXCEPT !.status = "active", !.started = FirstOf(@, ts), !.finished = Nil]

FinishGame(r, at) == [r EXCEPT !.status = "finished", !.finished = FirstOf(@, at)]

\* (slip) The bot's room starts without a word on when.
NewRecordUnstamped(ts, timed, bot) ==
  [status |-> IF bot THEN "active" ELSE "waiting", created |-> ts, started |-> Nil,
   first |-> Nil, last |-> Nil, finished |-> Nil, updated |-> ts,
   timed |-> timed, running |-> IF timed THEN Running ELSE {}]

NewRecord(ts, timed, bot) ==
  LET r == [status |-> "waiting", created |-> ts, started |-> Nil,
            first |-> Nil, last |-> Nil, finished |-> Nil, updated |-> ts,
            timed |-> timed, running |-> IF timed THEN Running ELSE {}]
  IN  IF bot THEN StartGame(r, ts) ELSE r

AppliedMove(r, ts) == [r EXCEPT !.first = FirstOf(@, ts), !.last = ts]

\* advanceClock takes time from the side to move, down to zero.
AdvanceClock(r) ==
  {r} \cup IF r.timed /\ r.status = "active" THEN {[r EXCEPT !.running = @ \ {"player"}]} ELSE {}

\* A second player, a move and the end it may bring, a flag, a resignation, in a room
\* that still waits too, an agreed draw, or nothing but who is there.  A machine's game
\* that is closed is not saved.
Changed(r, ts) ==
  UNION {{c} \cup
    (IF c.status = "waiting" THEN {StartGame(c, ts), FinishGame(c, time)} ELSE {}) \cup
    (IF c.status = "active"
     THEN {AppliedMove(c, ts), FinishGame(AppliedMove(c, ts), time),
           FinishGame(c, time)} ELSE {}) : c \in AdvanceClock(r)}

-----------------------------------------------------------------------------

Takes(w, step, r, ts) == copies' = [copies EXCEPT ![w] = [step |-> step, room |-> r, ts |-> ts]]

\* CreateRoom, with the code found free
Create(w) ==
  /\ copies[w] = Resting /\ record = NoRecord
  /\ \E timed, bot \in BOOLEAN : Takes(w, "save", NewRecord(time, timed, bot), time)
  /\ UNCHANGED <<record, time>>

\* GetRoom, and the timestamp after it
Load(w) ==
  /\ copies[w] = Resting /\ record # NoRecord
  /\ Takes(w, "loaded", NormalizeStateDefaults(record), time)
  /\ UNCHANGED <<record, time>>

\* Some time later, after the bot's answer for the tick, the copy is changed.
Change(w) ==
  /\ copies[w].step = "loaded"
  /\ \E r \in Changed(copies[w].room, copies[w].ts) : Takes(w, "save", r, copies[w].ts)
  /\ UNCHANGED <<record, time>>

SaveRoom(w) ==
  /\ copies[w].step = "save"
  /\ record' = [copies[w].room EXCEPT !.updated = time]
  /\ copies' = [copies EXCEPT ![w] = Resting]
  /\ UNCHANGED time

\* The command is refused, or fails.
GiveUp(w) ==
  /\ copies[w] # Resting /\ copies' = [copies EXCEPT ![w] = Resting]
  /\ UNCHANGED <<record, time>>

\* The room is deleted or expires.
Vanish == record # NoRecord /\ record' = NoRecord /\ UNCHANGED <<copies, time>>

Pass == time < LastTime /\ time' = time + 1 /\ UNCHANGED <<record, copies>>

Next ==
  \/ \E w \in Writer : Create(w) \/ Load(w) \/ Change(w) \/ SaveRoom(w) \/ GiveUp(w)
  \/ Vanish \/ Pass

Spec == Init /\ [][Next]_recordVars

-----------------------------------------------------------------------------

\* While the wall clock does not go back, every record in Redis is loaded with its
\* times in order, those that are set, and all that its status calls for, however
\* the handlers that stamped them overlapped; and loading fills in nothing but the
\* start of a game that was resigned before it began, which is then the creation of
\* its room: the other defaults of normalizeStateDefaults, the clock switched on
\* among them (service.go 1167-1201), are for records of other versions only.
TimesInOrder(r) ==
  /\ r.created <= r.updated
  /\ r.status = "waiting" => r.started = Nil
  /\ r.status # "waiting" => r.created <= r.started
  /\ r.first # Nil => r.started <= r.first /\ r.first <= r.last
  /\ Finished(r) <=> r.finished # Nil
  /\ Finished(r) => r.started <= r.finished /\ r.last <= r.finished /\ r.finished <= r.updated

ResignedWaiting(r) == Finished(r) /\ r.started = Nil /\ r.first = Nil

LoadedTimesInOrder ==
  record # NoRecord =>
    /\ TimesInOrder(NormalizeStateDefaults(record))
    /\ NormalizeStateDefaults(record) =
         IF ResignedWaiting(record) THEN [record EXCEPT !.started = record.created] ELSE record
=============================================================================

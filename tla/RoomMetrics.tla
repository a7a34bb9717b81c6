----------------------------- MODULE RoomMetrics ------------------------------
(***************************************************************************)
(* The gauges and counters match-core derives from the rooms it saves:     *)
(* metrics.go of both runtimes and its callers in service.go (saveRoom,    *)
(* deleteRoom, the tick, PrimeMetrics).  One room code, which goes from    *)
(* game to game.  Each method of Metrics holds its mutex; the store, the   *)
(* active-room set and the metrics are written one after the other with    *)
(* nothing held in between.                                                *)
(***************************************************************************)
EXTENDS Naturals, FiniteSets

CONSTANTS Game,           \* game ids
          FinishedStatus, \* statuses of a finished game, "resigned" among them
          Handler,        \* the tick and the commands under way
          MaxCounted,     \* bound on the counter of a game that changes again
          MaxFailures,    \* bound on the failed deletions of a game's room
          MaxRestarts     \* bound on restarts of the process

Mode == {"pvp", "bot_easy"}
Status == {"waiting", "active"} \cup FinishedStatus
Room == [game : Game, mode : Mode, status : Status]
None == [game |-> "none"]
Step == {"save", "track", "report", "close", "drop", "untrack", "forget"}

VARIABLES stored,     \* the record in Redis
          tracked,    \* the code is in activeRooms
          work,       \* what each handler has still to do, and the room it holds
          roomState,  \* roomStates[code], or None
          archived,   \* archivedRoomStates[code], or None
          info,       \* the room_info series of the code that are exported
          open,       \* the room_open series of the code: mode -> 0 or 1
          counted,    \* finished_games_total, game by game
          used,       \* games that have been created
          restarts,
          overlap,    \* handlers run at the same time, or one after the other
          \* history since the start, for handlers that do not overlap:
          ended,      \* games that ended after a report of theirs
          failures,   \* of each game: the deletions of its room that failed
          unreported  \* games that a save left unreported

store == <<stored, tracked>>
metrics == <<roomState, archived, info, open, counted>>
faults == <<failures, unreported>>
metricsVars == <<store, work, metrics, used, ended, faults, restarts, overlap>>

Idle == [step |-> "idle", room |-> None, does |-> "nothing"]
Rest == \A h \in Handler : work[h] = Idle
MayStart(h) == work[h] = Idle /\ (overlap \/ Rest)
Begin(h, step, room, does) ==
  work' = [work EXCEPT ![h] = [step |-> step, room |-> room, does |-> does]]
GoOn(h, step) == work' = [work EXCEPT ![h].step = step]
Over(h) == work' = [work EXCEPT ![h] = Idle]

NoSeries == /\ roomState = None /\ archived = None /\ info = {}
            /\ open = <<>> /\ counted = [g \in Game |-> 0]

Init ==
  /\ stored = None /\ tracked = FALSE
  /\ work = [h \in Handler |-> Idle]
  /\ NoSeries /\ used = {} /\ ended = {} /\ restarts = 0
  /\ failures = [g \in Game |-> 0] /\ unreported = {}
  /\ overlap \in BOOLEAN

-----------------------------------------------------------------------------

\* recomputeModeGaugesLocked: what the mode gauges say of this code.
ActiveRooms == IF roomState = None THEN 0 ELSE 1

\* deleteRoomSeriesLocked is called for the archived and for the previous state.
LeftFromBefore == {archived, roomState} \ {None}

\* setRoomSeriesLocked, after deleteRoomSeriesLocked of the states in old; the
\* open series is not among those it deletes.
SetSeries(old, new, isOpen) ==
  /\ info' = (info \ old) \cup {new}
  /\ open' = [x \in DOMAIN open \cup {new.mode} |->
                IF x = new.mode THEN isOpen ELSE open[x]]

\* (slip) Every report of a finished game is counted.
CountsAlways(new) == new.status \in FinishedStatus

\* A report counts when an earlier one had another status.
Counts(new) ==
  roomState # None /\ roomState.status # new.status /\ new.status \in FinishedStatus

UpdateRoom(new) ==
  /\ SetSeries(LeftFromBefore, new, 1)
  /\ counted' = IF Counts(new) THEN [counted EXCEPT ![new.game] = @ + 1] ELSE counted
  /\ roomState' = new /\ archived' = None

\* (slip) The archived room is still shown as open.
DeleteRoomOpen ==
  IF roomState = None THEN UNCHANGED metrics
  ELSE /\ SetSeries({}, roomState, 1)
       /\ archived' = roomState /\ roomState' = None
       /\ UNCHANGED counted

DeleteRoom ==
  IF roomState = None THEN UNCHANGED metrics
  ELSE /\ SetSeries({}, roomState, 0)
       /\ archived' = roomState /\ roomState' = None
       /\ UNCHANGED counted

\* This handler ended the game it holds, and an earlier report of the room exists.
Ends(h) ==
  ended' = IF work[h].does = "end" /\ roomState # None /\ ~overlap
           THEN ended \cup {work[h].room.game} ELSE ended

\* What a handler does to the game it has loaded, when it leaves it in status s.
Doing(s) ==
  IF s \in FinishedStatus /\ stored.status \notin FinishedStatus THEN "end" ELSE "play"

\* A room can be found once CreateRoom has answered its code; the first tick that
\* has something to do in it comes botMoveDelayMs later.
Known == \A h \in Handler : work[h].does # "create"

-----------------------------------------------------------------------------

\* CreateRoom finds the code free.
CreateRoom(h) ==
  /\ MayStart(h) /\ stored = None
  /\ \E g \in Game \ used, x \in {[mode |-> "pvp", status |-> "waiting"],
                                  [mode |-> "bot_easy", status |-> "active"]} :
       /\ used' = used \cup {g}
       /\ Begin(h, "save", [game |-> g, mode |-> x.mode, status |-> x.status], "create")
  /\ UNCHANGED <<store, metrics, ended, faults, restarts, overlap>>

\* A command or the tick changes its copy of the room, or only saves it.
Change(h) ==
  /\ MayStart(h) /\ Known /\ stored # None
  /\ counted[stored.game] < MaxCounted
  /\ \E s \in Status :
       /\ s # stored.status => stored.status \notin FinishedStatus /\ s # "waiting"
       /\ Begin(h, "save", [stored EXCEPT !.status = s], Doing(s))
  /\ UNCHANGED <<store, metrics, used, ended, faults, restarts, overlap>>

\* The last player leaves: a game against the machine is resigned first.
Leave(h) ==
  /\ MayStart(h) /\ Known /\ stored # None /\ (stored.status = "active" => stored.mode = "bot_easy")
  /\ LET s == IF stored.status = "active" THEN "resigned" ELSE stored.status
     IN  Begin(h, "close", [stored EXCEPT !.status = s], Doing(s))
  /\ UNCHANGED <<store, metrics, used, ended, faults, restarts, overlap>>

\* The tick finds no record of a tracked room.
FindGone(h) ==
  /\ MayStart(h) /\ tracked /\ stored = None
  /\ Begin(h, "untrack", None, "forget")
  /\ UNCHANGED <<store, metrics, used, ended, faults, restarts, overlap>>

SaveRoom(h) ==
  /\ work[h].step = "save"
  /\ stored' = work[h].room /\ Ends(h)
  /\ GoOn(h, "track")
  /\ UNCHANGED <<tracked, metrics, used, faults, restarts, overlap>>

\* Redis fails, and the handler with it; the record may have been written all the
\* same, and then the code is neither tracked nor reported.
SaveFails(h) ==
  /\ work[h].step = "save" /\ Over(h)
  /\ \/ UNCHANGED <<stored, ended, unreported>>
     \/ /\ stored' = work[h].room /\ Ends(h)
        /\ unreported' = IF overlap THEN {} ELSE unreported \cup {work[h].room.game}
  /\ UNCHANGED <<tracked, metrics, used, failures, restarts, overlap>>

TrackRoom(h) ==
  /\ work[h].step = "track" /\ tracked' = TRUE
  /\ GoOn(h, "report")
  /\ UNCHANGED <<stored, metrics, used, ended, faults, restarts, overlap>>

Report(h) ==
  /\ work[h].step = "report" /\ UpdateRoom(work[h].room) /\ Over(h)
  /\ UNCHANGED <<store, used, ended, faults, restarts, overlap>>

\* deleteRoom reports the last state, deletes the record, untracks and archives.
ReportLast(h) ==
  /\ work[h].step = "close" /\ UpdateRoom(work[h].room) /\ Ends(h)
  /\ GoOn(h, "drop")
  /\ UNCHANGED <<store, used, faults, restarts, overlap>>

Drop(h) ==
  /\ work[h].step = "drop" /\ stored' = None
  /\ GoOn(h, "untrack")
  /\ UNCHANGED <<tracked, metrics, used, ended, faults, restarts, overlap>>

\* Redis fails after the last report, with or without the record: deleteRoom returns
\* the error, LeaveRoom ignores it, and what was reported stands.
DropFails(h) ==
  /\ work[h].step = "drop" /\ stored' \in {stored, None}
  /\ LET g == work[h].room.game IN
       /\ failures[g] < MaxFailures
       /\ failures' = IF overlap THEN failures ELSE [failures EXCEPT ![g] = @ + 1]
  /\ Over(h)
  /\ UNCHANGED <<tracked, metrics, used, ended, unreported, restarts, overlap>>

\* (slip) The tick forgets the set of rooms, and not the metrics.
UntrackRoomOnly(h) ==
  /\ work[h].step = "untrack" /\ tracked' = FALSE /\ Over(h)
  /\ UNCHANGED <<stored, metrics, used, ended, faults, restarts, overlap>>

UntrackRoom(h) ==
  /\ work[h].step = "untrack" /\ tracked' = FALSE
  /\ GoOn(h, "forget")
  /\ UNCHANGED <<stored, metrics, used, ended, faults, restarts, overlap>>

Forget(h) ==
  /\ work[h].step = "forget" /\ DeleteRoom /\ Over(h)
  /\ UNCHANGED <<store, used, ended, faults, restarts, overlap>>

\* The key's time to live runs out, or Redis comes back empty.
Expire ==
  /\ stored # None /\ stored' = None
  /\ UNCHANGED <<tracked, work, metrics, used, ended, faults, restarts, overlap>>

\* match-core starts again.  PrimeMetrics reports what is stored, or fails, which
\* is only logged.
Restart ==
  /\ restarts < MaxRestarts /\ restarts' = restarts + 1
  /\ work' = [h \in Handler |-> Idle]
  /\ ended' = {} /\ counted' = [g \in Game |-> 0] /\ archived' = None
  /\ failures' = [g \in Game |-> 0] /\ unreported' = {}
  /\ \E primed \in BOOLEAN :
       IF primed /\ stored # None
       THEN /\ tracked' = TRUE /\ roomState' = stored
            /\ info' = {stored} /\ open' = [x \in {stored.mode} |-> 1]
       ELSE tracked' = FALSE /\ roomState' = None /\ info' = {} /\ open' = <<>>
  /\ UNCHANGED <<stored, used, overlap>>

Next ==
  \/ \E h \in Handler : CreateRoom(h)
  \/ \E h \in Handler : Change(h)
  \/ \E h \in Handler : Leave(h)
  \/ \E h \in Handler : FindGone(h)
  \/ \E h \in Handler : SaveRoom(h)
  \/ \E h \in Handler : SaveFails(h)
  \/ \E h \in Handler : TrackRoom(h)
  \/ \E h \in Handler : Report(h)
  \/ \E h \in Handler : ReportLast(h)
  \/ \E h \in Handler : Drop(h)
  \/ \E h \in Handler : DropFails(h)
  \/ \E h \in Handler : UntrackRoom(h)
  \/ \E h \in Handler : Forget(h)
  \/ Expire
  \/ Restart

Spec == Init /\ [][Next]_metricsVars

-----------------------------------------------------------------------------

\* The shape of the state.
TypeOK ==
  /\ stored \in Room \cup {None} /\ tracked \in BOOLEAN
  /\ \A h \in Handler : /\ work[h].step \in Step \cup {"idle"}
                        /\ work[h].room \in Room \cup {None}
                        /\ work[h].does \in {"nothing", "create", "play", "end", "forget"}
  /\ roomState \in Room \cup {None} /\ archived \in Room \cup {None}
  /\ info \subseteq Room /\ DOMAIN open \subseteq Mode
  /\ DOMAIN counted = Game /\ DOMAIN failures = Game
  /\ ended \cup unreported \subseteq used /\ used \subseteq Game

InfoSeriesExact ==
  /\ info = {roomState, archived} \ {None}
  /\ Cardinality(info) <= 1

OpenSeriesTruthful ==
  /\ roomState # None => open[roomState.mode] = 1
  /\ archived # None => open[archived.mode] = 0

\* However reports, removals and returns of one code overlap, one room_info
\* series is exported for it, that of its last report; the code is current or
\* archived, never both; and the room_open series of the mode of that report says
\* which of the two (metrics.go 118-201).
SeriesTruthful == TypeOK /\ InfoSeriesExact /\ OpenSeriesTruthful

\* "Current tracked rooms by mode" (metrics.go 62, 203-226): when handlers do not
\* overlap, a code in activeRooms is in the gauge, also after a restart or the loss of
\* the record; and a code in the gauge is in activeRooms, unless a deletion of that
\* room failed: deleteRoom has reported a room by then that a restart may have left
\* untracked (service.go 672-683).  When handlers overlap, a report after a concurrent
\* delete leaves the code in the gauge for good.
ActiveRoomsAreTracked ==
  Rest /\ ~overlap => /\ tracked => ActiveRooms = 1
                      /\ ActiveRooms = 1 /\ ~tracked => failures[roomState.game] > 0

\* "Finished games grouped by mode, final status and end reason" (metrics.go 70,
\* 138-140): when handlers do not overlap, a game that ended is in the counter
\* once, and no other game is, unless Redis failed on its room.  Each failed deletion
\* counts a game at most once too often: its end was reported and not stored.  A save
\* that failed too late leaves an end to be counted by a later report, if there is one.
\* When handlers overlap, reports in another order than the saves, and stale saves,
\* count a game twice or one that goes on.
FinishedCountedOnce ==
  Rest /\ ~overlap =>
    \A g \in Game :
      /\ counted[g] <= 1 + failures[g]
      /\ failures[g] = 0 /\ g \notin unreported => counted[g] = IF g \in ended THEN 1 ELSE 0
=============================================================================

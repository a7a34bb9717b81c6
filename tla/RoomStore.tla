------------------------------ MODULE RoomStore ------------------------------
(***************************************************************************)
(* The room under concurrency.  A gRPC handler loads the record from       *)
(* Redis, works on its copy and saves the copy: nothing locks the room in  *)
(* between.  The ticker does the same for every room it tracks, and may    *)
(* wait for the bot engine before it saves.  match-core may restart and    *)
(* Redis may lose the record at any time.                                  *)
(***************************************************************************)
EXTENDS RoomSafety

CONSTANTS Worker,        \* handlers that may run at the same time
          Ticker,        \* the handler of the gateway's ticker
          MaxRequests,   \* bound on the commands people send
          MaxRestarts,   \* bound on restarts of match-core
          MaxTime        \* bound on the wall clock

ASSUME StoreAssumption ==
  Ticker \notin Worker /\ {MaxRequests, MaxRestarts, MaxTime} \subseteq Nat

VARIABLES store,      \* the record in Redis, or Absent
          tracked,    \* whether activeRooms holds the room's code
          job,        \* what each handler is doing
          issued,     \* session tokens handed out so far
          requests, restarts, now

vars == <<store, tracked, job, issued, requests, restarts, now>>

Handler == Worker \cup {Ticker}

Command == {"create", "join", "leave", "sync", "disconnect", "submit",
            "resign", "offer", "accept", "decline"}

\* A handler is idle, holds the copy it loaded, or has written and is about to
\* note the room as active or not.  fresh is the token it hands out, if any.
Idle == [stage |-> "idle"]
Noting == [stage : {"track", "untrack"}]
Serving == [stage : {"loaded"}, op : Command, token : Token, fresh : Token,
            copy : Room \cup {Absent}, ts : 0 .. MaxTime]
Ticking == [stage : {"loaded"}, op : {"tick"}, copy : Room, ts : 0 .. MaxTime]
Job == {Idle} \cup Noting \cup Serving \cup Ticking

HasLoaded(h) == job[h].stage = "loaded"
Becomes(h, j) == job' = [job EXCEPT ![h] = j]

\* Rooms a handler may write back for the copy it loaded.
Results(j) ==
  CASE j.op = "create"     -> {NewRoom(m, c, j.fresh) : m \in {"pvp", "bot_easy"}, c \in BOOLEAN}
    [] j.op = "join"       -> JoinResults(j.copy, j.token, j.fresh)
    [] j.op = "leave"      -> LeaveResults(j.copy, j.token)
    [] j.op = "sync"       -> SyncResults(j.copy, j.token)
    [] j.op = "disconnect" -> MarkDisconnectedResults(j.copy, j.token)
    [] j.op = "submit"     -> SubmitActionResults(j.copy, j.token, j.ts)
    [] j.op = "resign"     -> ResignResults(j.copy, j.token)
    [] j.op = "offer"      -> OfferDrawResults(j.copy, j.token)
    [] j.op = "accept"     -> AcceptDrawResults(j.copy, j.token)
    [] j.op = "decline"    -> DeclineDrawResults(j.copy, j.token)
    [] j.op = "tick"       -> TickResults(j.copy, j.ts)

\* create and join hand out a token; a session the room knows gets none.
NeedsToken(op, t) ==
  \/ op = "create"
  \/ op = "join" /\ store # Absent /\ t \notin Members(store)

Init ==
  /\ store = Absent /\ tracked = FALSE /\ issued = {}
  /\ job = [h \in Handler |-> Idle]
  /\ requests = 0 /\ restarts = 0 /\ now = 0

\* requireRoom, or for a new room the free code of generateUniqueRoomCode.  A
\* command that is refused changes nothing.  Heartbeats are not counted.
Load(w, op, t, fresh) ==
  LET j == [stage |-> "loaded", op |-> op, token |-> t, fresh |-> fresh,
            copy |-> store, ts |-> IF op = "submit" THEN now ELSE 0]
  IN  /\ job[w] = Idle
      /\ op = "create" <=> store = Absent
      /\ IF NeedsToken(op, t)
         THEN fresh \notin issued /\ issued' = issued \cup {fresh}
         ELSE fresh = t /\ issued' = issued
      /\ Results(j) # {}
      /\ op # "sync" => requests < MaxRequests
      /\ requests' = IF op = "sync" THEN requests ELSE requests + 1
      /\ Becomes(w, j)
      /\ UNCHANGED <<store, tracked, restarts, now>>

\* The ticker looks at tracked rooms only, and forgets one it does not find.
TickLoad ==
  /\ job[Ticker] = Idle /\ tracked
  /\ IF store = Absent THEN Becomes(Ticker, [stage |-> "untrack"])
     ELSE /\ TickResults(store, now) # {}
          /\ Becomes(Ticker, [stage |-> "loaded", op |-> "tick", copy |-> store, ts |-> now])
  /\ UNCHANGED <<store, tracked, issued, requests, restarts, now>>

\* (slip) Only a new room is tracked.
WriteTracksNew(h) ==
  /\ HasLoaded(h)
  /\ store' \in Results(job[h])
  /\ Becomes(h, IF store' = Absent THEN [stage |-> "untrack"]
                ELSE IF job[h].op = "create" THEN [stage |-> "track"] ELSE Idle)
  /\ UNCHANGED <<tracked, issued, requests, restarts, now>>

\* SaveRoom or DeleteRoom, whatever happened to the record since the load.
Write(h) ==
  /\ HasLoaded(h)
  /\ store' \in Results(job[h])
  /\ Becomes(h, [stage |-> IF store' = Absent THEN "untrack" ELSE "track"])
  /\ UNCHANGED <<tracked, issued, requests, restarts, now>>

\* Redis fails the write, or the gateway gave up on the call (2.5 s).
Abort(h) ==
  /\ HasLoaded(h)
  /\ Becomes(h, Idle)
  /\ UNCHANGED <<store, tracked, issued, requests, restarts, now>>

\* trackRoom or untrackRoom, after the write.
Note(h) ==
  /\ job[h].stage \in {"track", "untrack"}
  /\ tracked' = (job[h].stage = "track")
  /\ Becomes(h, Idle)
  /\ UNCHANGED <<store, issued, requests, restarts, now>>

\* match-core dies with all it was doing; PrimeMetrics tracks the stored room
\* again, unless it fails, which main only logs.
Restart ==
  /\ restarts < MaxRestarts /\ restarts' = restarts + 1
  /\ tracked' \in {store # Absent, FALSE}
  /\ job' = [h \in Handler |-> Idle]
  /\ UNCHANGED <<store, issued, requests, now>>

\* The key's TTL runs out, or Redis restarts without its data.
Expire ==
  /\ store # Absent /\ store' = Absent
  /\ UNCHANGED <<tracked, job, issued, requests, restarts, now>>

TimePasses ==
  /\ now < MaxTime /\ now' = now + 1
  /\ UNCHANGED <<store, tracked, job, issued, requests, restarts>>

Next ==
  \/ \E w \in Worker, op \in Command, t, fresh \in Token : Load(w, op, t, fresh)
  \/ TickLoad
  \/ \E h \in Handler : Write(h)
  \/ \E h \in Handler : Abort(h)
  \/ \E h \in Handler : Note(h)
  \/ Restart
  \/ Expire
  \/ TimePasses

Spec == Init /\ [][Next]_vars

-----------------------------------------------------------------------------

\* The shape of the stored record, of every handler's job and of the counters.
TypeOK ==
  /\ store \in Room \cup {Absent}
  /\ tracked \in BOOLEAN
  /\ job \in [Handler -> Job]
  /\ issued \subseteq Token
  /\ requests \in 0 .. MaxRequests
  /\ restarts \in 0 .. MaxRestarts
  /\ now \in 0 .. MaxTime

\* A handler works on the copy it loaded; only one that creates has none, and
\* the token it is about to hand out is new to that copy.
LoadedCopy(j) ==
  /\ j.ts <= now
  /\ j.op = "create" => j.copy = Absent /\ j.fresh \in issued
  /\ j.op # "create" =>
       /\ j.copy # Absent /\ Sound(j.copy, IF j.op \in {"submit", "tick"} THEN j.ts ELSE now)
       /\ Members(j.copy) \subseteq issued
  /\ j.op = "join" /\ j.token \notin Members(j.copy) =>
       j.fresh \in issued \ Members(j.copy)

\* However handlers overlap, whatever they overwrite, restart or lose, the
\* stored record and every copy in a handler's hands is sound: seats, verdict,
\* draw offer, clocks and the machine's schedule fit together (requireRoom 799,
\* saveRoom 659).  What races lose are updates, never the record's consistency.
AllSound ==
  /\ store # Absent => Sound(store, now) /\ Members(store) \subseteq issued
  /\ \A h \in Handler : HasLoaded(h) => LoadedCopy(job[h])

\* A verdict is undone only by a handler that loaded the room before the game
\* was over (or before it existed): none reopens a room it has seen finished,
\* whoever sits down in it again (JoinRoom 228 and 255, SubmitAction 458).
UndoneOnlyByStaleCopy ==
  [][store # Absent /\ store' # Absent /\ IsFinished(store) /\ ~IsFinished(store') =>
       \E h \in Handler :
          HasLoaded(h) /\ (job[h].copy = Absent \/ ~IsFinished(job[h].copy))]_vars
=============================================================================

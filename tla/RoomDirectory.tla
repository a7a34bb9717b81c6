--------------------------- MODULE RoomDirectory ----------------------------
(***************************************************************************)
(* Which rooms exist, and which of them match-core's tick looks at: codes  *)
(* drawn and checked before a room is saved under them, the keys of both   *)
(* runtimes in Redis, the scan with which a starting match-core finds the  *)
(* stored rooms, and the start, rolling update, graceful stop and crash of *)
(* its pods.  The gateway speaks to one pod at a time.                     *)
(***************************************************************************)
EXTENDS Naturals, FiniteSets

CONSTANTS Code,          \* room codes
          Pod,           \* pods of match-core, each started once
          Maker,         \* handlers that may run at the same time
          MaxGames,      \* bound on the rooms that are created
          MaxAttempts    \* attempts of generateUniqueRoomCode

VARIABLES redis,     \* key -> record of a room
          pod,       \* what each pod is doing
          active,    \* activeRooms of each pod, of both runtimes
          steady,    \* rooms stored without a gap since the pod's scan began, and not
                     \* of a runtime whose scan failed
          link,      \* the pod the gateway is connected to, or NoPod
          job,       \* what each handler is doing
          made       \* games created

directoryVars == <<redis, pod, active, steady, link, job, made>>

Runtime == {"chess", "tictactoe"}
Room == Runtime \X Code
NoPod == "no pod"
NoGame == 0
Free == [step |-> "free"]

\* roomKey: the prefix, for tic-tac-toe its name too, and the code.
RoomKey(r) == r

\* GetRoom: the game stored for a room, or NoGame.
Get(r) == IF RoomKey(r) \in DOMAIN redis THEN redis[RoomKey(r)].game ELSE NoGame

Stored == {r \in Room : Get(r) # NoGame}
Serving(p) == pod[p].phase = "serving"
Busy(h) == job[h] # Free
Takes(h, j) == job' = [job EXCEPT ![h] = j]
Ends(h) == Takes(h, Free)

\* Rooms that have just gone are no longer stored without a gap.
Forget(gone) == steady' = [p \in Pod |-> steady[p] \ gone]

Init ==
  /\ redis = <<>>
  /\ pod = [p \in Pod |-> [phase |-> "new"]]
  /\ active = [p \in Pod |-> {}] /\ steady = [p \in Pod |-> {}]
  /\ link = NoPod
  /\ job = [h \in Maker |-> Free] /\ made = 0

-----------------------------------------------------------------------------
(* The pods *)

Scanning(rt) == [phase |-> "scanning", runtime |-> rt, left |-> Code, found |-> {}]

\* main pings Redis for both runtimes, or exits and is tried again; a second pod starts in an update.
StartPod(p) ==
  /\ pod[p].phase = "new"
  /\ pod' = [pod EXCEPT ![p] = Scanning("chess")]
  /\ steady' = [steady EXCEPT ![p] = Stored]
  /\ UNCHANGED <<redis, active, link, job, made>>

\* (slip) One page is enough.
ScanFirstPage(p) ==
  /\ pod[p].phase = "scanning" /\ pod[p].left = Code
  /\ \E page \in SUBSET Code \ {{}} :
       pod' = [pod EXCEPT ![p].left = {},
                          ![p].found = {c \in page : Get(<<pod[p].runtime, c>>) # NoGame}]
  /\ UNCHANGED <<redis, active, steady, link, job, made>>

\* One page of SCAN, with a GET for each of its keys: ListRooms.
ScanPage(p) ==
  /\ pod[p].phase = "scanning"
  /\ \E page \in SUBSET pod[p].left \ {{}} :
       pod' = [pod EXCEPT ![p].left = @ \ page,
                          ![p].found = @ \cup {c \in page : Get(<<pod[p].runtime, c>>) # NoGame}]
  /\ UNCHANGED <<redis, active, steady, link, job, made>>

\* After chess comes tic-tac-toe, and then the listener is opened.
NextRuntime(rt) == IF rt = "chess" THEN Scanning("tictactoe") ELSE [phase |-> "serving"]

\* PrimeMetrics tracks what the whole scan has found.
PrimeMetrics(p) ==
  /\ pod[p].phase = "scanning" /\ pod[p].left = {}
  /\ active' = [active EXCEPT ![p] = @ \cup ({pod[p].runtime} \X pod[p].found)]
  /\ pod' = [pod EXCEPT ![p] = NextRuntime(pod[p].runtime)]
  /\ UNCHANGED <<redis, steady, link, job, made>>

\* SCAN or GET fails, or a record cannot be decoded: nothing is tracked, and main
\* only logs it.
PrimeFails(p) ==
  /\ pod[p].phase = "scanning"
  /\ steady' = [steady EXCEPT ![p] = @ \ ({pod[p].runtime} \X Code)]
  /\ pod' = [pod EXCEPT ![p] = NextRuntime(pod[p].runtime)]
  /\ UNCHANGED <<redis, active, link, job, made>>

\* The update ends the old pod once the new one serves: GracefulStop refuses new
\* calls, and the gateway connects to the new pod.
StopPod(p) ==
  /\ Serving(p) /\ \E q \in Pod \ {p} : Serving(q)
  /\ pod' = [pod EXCEPT ![p] = [phase |-> "stopping"]]
  /\ link' = IF link = p THEN NoPod ELSE link
  /\ UNCHANGED <<redis, active, steady, job, made>>

\* A pod is gone with the calls it had: stopped, forced to after 10 s, or crashed.
EndPod(p) ==
  /\ pod[p].phase \in {"serving", "stopping"}
  /\ pod' = [pod EXCEPT ![p] = [phase |-> "gone"]]
  /\ active' = [active EXCEPT ![p] = {}] /\ steady' = [steady EXCEPT ![p] = {}]
  /\ link' = IF link = p THEN NoPod ELSE link
  /\ job' = [h \in Maker |-> IF Busy(h) /\ job[h].pod = p THEN Free ELSE job[h]]
  /\ UNCHANGED <<redis, made>>

\* The gateway's main asks match-core for Ready, which pings Redis for each
\* runtime, or exits and is started again; later its connection finds a new pod.
Connect(p) ==
  /\ link = NoPod /\ Serving(p) /\ link' = p
  /\ UNCHANGED <<redis, pod, active, steady, job, made>>

\* A record's time to live runs out.
Expire(r) ==
  /\ Get(r) # NoGame
  /\ redis' = [k \in DOMAIN redis \ {RoomKey(r)} |-> redis[k]]
  /\ Forget({r})
  /\ UNCHANGED <<pod, active, link, job, made>>

-----------------------------------------------------------------------------
(* The handlers, in the pod the gateway's call went to *)

Called(h) == ~Busy(h) /\ link # NoPod
Step(h, s) == Busy(h) /\ job[h].step = s

\* CreateRoom begins to draw codes; at most MaxGames such calls.
BeginCreate(h, rt) ==
  /\ Called(h) /\ made < MaxGames /\ made' = made + 1
  /\ Takes(h, [step |-> "draw", pod |-> link, runtime |-> rt, tries |-> 0, game |-> made + 1])
  /\ UNCHANGED <<redis, pod, active, steady, link>>

SaveAs(h, r, game, saw) ==
  Takes(h, [step |-> "save", pod |-> job[h].pod, room |-> r, game |-> game, saw |-> saw])

\* (slip) The last attempt is taken as it comes.
DrawLastUnchecked(h) ==
  /\ Step(h, "draw")
  /\ \E c \in Code : LET r == <<job[h].runtime, c>> IN
       IF Get(r) = NoGame \/ job[h].tries + 1 = MaxAttempts
       THEN SaveAs(h, r, job[h].game, Get(r))
       ELSE Takes(h, [job[h] EXCEPT !.tries = @ + 1])
  /\ UNCHANGED <<redis, pod, active, steady, link, made>>

\* One attempt of generateUniqueRoomCode; ROOM_GENERATION_FAILED after the last.
Draw(h) ==
  /\ Step(h, "draw")
  /\ \E c \in Code : LET r == <<job[h].runtime, c>> IN
       IF Get(r) = NoGame THEN SaveAs(h, r, job[h].game, NoGame)
       ELSE IF job[h].tries + 1 < MaxAttempts THEN Takes(h, [job[h] EXCEPT !.tries = @ + 1])
       ELSE Ends(h)
  /\ UNCHANGED <<redis, pod, active, steady, link, made>>

\* A command loads a room, to save it again or, for the last player, delete it.
Load(h, r) ==
  /\ Called(h) /\ Get(r) # NoGame
  /\ \E step \in {"save", "delete"} :
       Takes(h, [step |-> step, pod |-> link, room |-> r, game |-> Get(r), saw |-> Get(r)])
  /\ UNCHANGED <<redis, pod, active, steady, link, made>>

\* The tick finds no record for a code it has in its list.
FindGone(h, r) ==
  /\ Called(h) /\ r \in active[link] /\ Get(r) = NoGame
  /\ Takes(h, [step |-> "untrack", pod |-> link, room |-> r])
  /\ UNCHANGED <<redis, pod, active, steady, link, made>>

NoteAs(h, s) == Takes(h, [step |-> s, pod |-> job[h].pod, room |-> job[h].room])

SaveRoom(h) ==
  /\ Step(h, "save")
  /\ redis' = [k \in DOMAIN redis \cup {RoomKey(job[h].room)} |->
                 IF k = RoomKey(job[h].room)
                 THEN [room |-> job[h].room, game |-> job[h].game] ELSE redis[k]]
  /\ NoteAs(h, "track")
  /\ UNCHANGED <<pod, active, steady, link, made>>

DeleteRoom(h) ==
  /\ Step(h, "delete")
  /\ redis' = [k \in DOMAIN redis \ {RoomKey(job[h].room)} |-> redis[k]]
  /\ Forget({job[h].room})
  /\ NoteAs(h, "untrack")
  /\ UNCHANGED <<pod, active, link, made>>

\* trackRoom, untrackRoom.
Note(h) ==
  /\ Busy(h) /\ job[h].step \in {"track", "untrack"}
  /\ active' = [active EXCEPT ![job[h].pod] =
                  IF job[h].step = "track" THEN @ \cup {job[h].room} ELSE @ \ {job[h].room}]
  /\ Ends(h)
  /\ UNCHANGED <<redis, pod, steady, link, made>>

\* Redis fails the call, or the gateway no longer waits for it.
Abort(h) ==
  /\ Busy(h) /\ job[h].step \in {"draw", "save", "delete"}
  /\ Ends(h)
  /\ UNCHANGED <<redis, pod, active, steady, link, made>>

Next ==
  \/ \E p \in Pod : StartPod(p) \/ ScanPage(p) \/ PrimeMetrics(p) \/ PrimeFails(p)
  \/ \E p \in Pod : StopPod(p) \/ EndPod(p) \/ Connect(p)
  \/ \E r \in Room : Expire(r)
  \/ \E h \in Maker, rt \in Runtime : BeginCreate(h, rt)
  \/ \E h \in Maker, r \in Room : Load(h, r) \/ FindGone(h, r)
  \/ \E h \in Maker : Draw(h) \/ SaveRoom(h) \/ DeleteRoom(h) \/ Note(h) \/ Abort(h)

Spec == Init /\ [][Next]_directoryVars

-----------------------------------------------------------------------------

\* A room is replaced by another one with its code only by a handler that looked
\* at the code before the room was saved: the check of generateUniqueRoomCode
\* (810-822) leaves that window, and no other.
ReplacedOnlyUnseen ==
  [][\A k \in DOMAIN redis \cap DOMAIN redis' : redis'[k].game # redis[k].game =>
       \E h \in Maker : /\ Busy(h) /\ job[h].step = "save"
                        /\ RoomKey(job[h].room) = k /\ job[h].saw # redis[k].game]_directoryVars

\* A match-core whose scans succeeded ticks every room that has been stored
\* without a gap since it started, whatever its requests and another pod did in
\* the meantime (PrimeMetrics 53, ListRooms 72).  Rooms that another pod creates
\* behind the scan, in a rolling update, are not among them.
PrimedRoomsTicked ==
  \A p \in Pod : Serving(p) => steady[p] \subseteq active[p]
=============================================================================

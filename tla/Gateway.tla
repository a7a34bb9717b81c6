------------------------------ MODULE Gateway ------------------------------
(***************************************************************************)
(* The realtime gateway between one browser and the room service:          *)
(* internal/gateway/socket_server.go.  For every socket the gateway keeps  *)
(* the session it is bound to and the Socket.IO channels it listens to;    *)
(* match-core keeps who belongs to a room and who is shown as connected;   *)
(* the page keeps the session it believes it has.  The three are brought   *)
(* together only by requests, which may fail, be answered too late, or be  *)
(* still under way when the connection is lost.                            *)
(*                                                                         *)
(* A handler makes one call to match-core and otherwise touches its own    *)
(* socket only.  The events of a socket are handled in the order sent, its *)
(* disconnect last.  Of a room only what concerns this browser is shown:   *)
(* whether it exists, and the browser's tokens in it.                      *)
(*                                                                         *)
(* match-core loads a room, changes its copy and saves it, without a lock. *)
(* The calls of the ticker and of other players keep their copies here, so *)
(* that they may be saved after the room has changed.  A call of this      *)
(* browser is one step: its own late save is that of a copy loaded with it *)
(* followed by the step.                                                   *)
(***************************************************************************)
EXTENDS Naturals, Sequences

CONSTANTS RoomCode, Token, Socket,
          Other,         \* match-core's calls that are not this browser's
          NoSession, NoSocket, NoCopy,
          MaxQueue,      \* bound on requests under way on a connection
          MaxRequests,   \* bound on the requests people send
          MaxRestarts    \* bound on restarts of the gateway

ASSUME GatewayAssumption ==
  /\ NoSocket \notin Socket
  /\ NoSession \notin RoomCode \cup [room : RoomCode, token : Token]
  /\ MaxQueue \in Nat \ {0} /\ {MaxRequests, MaxRestarts} \subseteq Nat

ASSUME NoCopyAssumption ==
  NoCopy \notin [room : RoomCode, members : SUBSET Token, present : SUBSET Token]

VARIABLES
  page,        \* the session of the page, as in its local storage
  link,        \* the page's connection, or NoSocket
  state,       \* of each socket: new, open, lost (the gateway does not know yet), closed
  queue,       \* of each socket: the requests sent and not handled yet
  session,     \* Server.sessions
  channels,    \* the Socket.IO rooms each socket has joined
  rooms,       \* the rooms match-core has
  members,     \* of each room: the tokens of this browser that it knows
  present,     \* of each room: those shown as connected
  issued,      \* the tokens handed out
  copies,      \* of each other call: the copy of the room it has loaded, or NoCopy
  requests, restarts,
  left,        \* history: the rooms left by leave_room over the page's connection
  confirmed,   \* history: the room of its last withAck request that succeeded
  leaked,      \* history: the tokens whose presence the gateway lost track of
  restored     \* history: the sessions an older copy has shown as connected again

matchcore == <<rooms, members, present, issued>>
sockets == <<state, session, channels>>
history == <<left, confirmed, leaked>>
others == <<copies, restored>>
vars == <<page, link, queue, sockets, matchcore, requests, restarts, history, others>>

Session == [room : RoomCode, token : Token]
Copy == [room : RoomCode, members : SUBSET Token, present : SUBSET Token]

\* Requests the page waits for, one at a time, and those it does not wait for.
Action == {"create", "join", "leave", "sync", "command"}
Kind == Action \cup {"connect", "heartbeat", "chat", "signal"}
Request == [kind : Kind, session : Session \cup {NoSession},
            room : RoomCode \cup {NoSession}, awaited : BOOLEAN]

Init ==
  /\ page = NoSession /\ link = NoSocket
  /\ state = [s \in Socket |-> "new"]
  /\ queue = [s \in Socket |-> <<>>]
  /\ session = [s \in Socket |-> NoSession]
  /\ channels = [s \in Socket |-> {}]
  /\ rooms = {} /\ issued = {} /\ requests = 0 /\ restarts = 0
  /\ members = [r \in RoomCode |-> {}] /\ present = [r \in RoomCode |-> {}]
  /\ left = {} /\ confirmed = NoSession
  /\ leaked = {} /\ copies = [o \in Other |-> NoCopy] /\ restored = {}

-----------------------------------------------------------------------------
(* The page.                                                               *)

Waits == link # NoSocket /\ \E i \in DOMAIN queue[link] :
           queue[link][i].kind \in Action /\ queue[link][i].awaited

\* Heartbeats are not counted.
Send(kind, room) ==
  /\ link # NoSocket /\ Len(queue[link]) < MaxQueue
  /\ queue' = [queue EXCEPT ![link] = Append(@,
       [kind |-> kind, session |-> page, room |-> room, awaited |-> TRUE])]
  /\ kind # "heartbeat" => requests < MaxRequests
  /\ requests' = IF kind = "heartbeat" THEN requests ELSE requests + 1
  /\ UNCHANGED <<page, link, sockets, matchcore, restarts, history, others>>

\* The lobby, shown to a page without a session, creates and joins rooms.
EnterRoom ==
  /\ page = NoSession /\ ~Waits
  /\ Send("create", NoSession) \/ \E r \in RoomCode : Send("join", r)

\* The game view of a page with a session.
Act(kind) == page # NoSession /\ ~Waits /\ Send(kind, page.room)
Aside(kind) == page # NoSession /\ Send(kind, page.room)

\* emitWithAck gives up after 5 s: the answer will be ignored.
GiveUp ==
  /\ Waits
  /\ queue' = [queue EXCEPT ![link] = [i \in DOMAIN @ |-> [@[i] EXCEPT !.awaited = FALSE]]]
  /\ UNCHANGED <<page, link, sockets, matchcore, requests, restarts, history, others>>

\* What the page has emitted without a connection: socket.io keeps it and sends it
\* as soon as it is connected.  One request at most is a bound.
Early(kind, room) == <<[kind |-> kind, session |-> page, room |-> room, awaited |-> TRUE]>>
Buffered ==
  {<<>>} \cup
  IF page = NoSession
  THEN {Early("create", NoSession)} \cup {Early("join", r) : r \in RoomCode}
  ELSE {Early(kind, page.room) : kind \in {"command", "sync", "chat"}}

\* A page with a session synchronises as soon as it is connected, after what it
\* has emitted before.
Connect(s) ==
  /\ link = NoSocket /\ state[s] = "new"
  /\ link' = s
  /\ state' = [state EXCEPT ![s] = "open"]
  /\ \E b \in Buffered :
       /\ requests' = requests + Len(b) /\ requests' <= MaxRequests
       /\ queue' = [queue EXCEPT ![s] =
            IF page = NoSession THEN b
            ELSE Append(b, [kind |-> "connect", session |-> page, room |-> page.room,
                            awaited |-> TRUE])]
       /\ Len(b) < MaxQueue \/ page = NoSession
  /\ UNCHANGED <<page, session, channels, matchcore, restarts, history, others>>

\* The connection breaks or the page is closed, reloaded or sent back to the
\* portal with its session discarded.  Requests that arrived are handled still.
LoseConnection ==
  /\ link # NoSocket
  /\ link' = NoSocket
  /\ page' \in {page, NoSession}
  /\ state' = [state EXCEPT ![link] = "lost"]
  /\ \E n \in 0 .. Len(queue[link]) :
       queue' = [queue EXCEPT ![link] =
                   [i \in 1 .. n |-> [@[i] EXCEPT !.awaited = FALSE]]]
  /\ left' = {} /\ confirmed' = NoSession
  /\ UNCHANGED <<session, channels, matchcore, requests, restarts, leaked, others>>

-----------------------------------------------------------------------------
(* The gateway's handlers.                                                 *)

\* (slip) The channel of the previous room is kept.
ChannelsAfterBindKept(s, new) == channels[s]

\* bindSession: another session replaces the one of the socket, whose room's
\* channel it leaves if that is another room.
ChannelsAfterBind(s, new) ==
  IF session[s] # NoSession /\ session[s].room # new.room
  THEN channels[s] \ {session[s].room}
  ELSE channels[s]

\* The presence of the session that bindSession replaces is nobody's business any more.
Replaced(s, new) == IF session[s] \in {NoSession, new} THEN {} ELSE {session[s].token}

Handles(s, kind) ==
  /\ state[s] \in {"open", "lost"} /\ queue[s] # <<>>
  /\ Head(queue[s]).kind = kind
  /\ queue' = [queue EXCEPT ![s] = Tail(@)]

Req(s) == Head(queue[s])
Heard(s) == link = s /\ Req(s).awaited

\* (slip) The session is bound and the channel is not joined.
AnswerWithSessionDeaf(s, new) ==
  /\ session' = [session EXCEPT ![s] = new]
  /\ channels' = [channels EXCEPT ![s] = ChannelsAfterBind(s, new)]
  /\ confirmed' = IF s = link THEN new.room ELSE confirmed
  /\ leaked' = leaked \cup Replaced(s, new)
  /\ page' = IF Heard(s) THEN new ELSE page
  /\ UNCHANGED <<left, link, state, requests, restarts, others>>

\* withAck with a session: bind it, join its channel, tell the page.
AnswerWithSession(s, new) ==
  /\ session' = [session EXCEPT ![s] = new]
  /\ channels' = [channels EXCEPT ![s] = ChannelsAfterBind(s, new) \cup {new.room}]
  /\ confirmed' = IF s = link THEN new.room ELSE confirmed
  /\ leaked' = leaked \cup Replaced(s, new)
  /\ page' = IF Heard(s) THEN new ELSE page
  /\ UNCHANGED <<left, link, state, requests, restarts, others>>

\* withAck without one: the channel of the room named is joined all the same.
AnswerWithoutSession(s, room) ==
  /\ channels' = [channels EXCEPT ![s] = @ \cup {room}]
  /\ confirmed' = IF s = link THEN room ELSE confirmed
  /\ UNCHANGED <<page, link, state, session, requests, restarts, left, leaked, others>>

\* The gateway gave up on match-core (2.5 s), which did its part, or match-core
\* failed to answer: sendError.  Whoever it marked as present is unknown here.
Unanswered(tokens) ==
  /\ leaked' = leaked \cup tokens
  /\ UNCHANGED <<page, link, sockets, requests, restarts, left, confirmed, others>>

\* CreateRoom and JoinRoom seat the browser under a new token.
Admit(s, r, t) ==
  /\ t \notin issued /\ issued' = issued \cup {t}
  /\ rooms' = rooms \cup {r}
  /\ members' = [members EXCEPT ![r] = @ \cup {t}]
  /\ present' = [present EXCEPT ![r] = @ \cup {t}]
  /\ AnswerWithSession(s, [room |-> r, token |-> t]) \/ Unanswered({t})

CreateRoom(s) ==
  /\ Handles(s, "create")
  /\ \E r \in RoomCode \ rooms, t \in Token : Admit(s, r, t)

JoinRoom(s) ==
  /\ Handles(s, "join") /\ Req(s).room \in rooms
  /\ \E t \in Token : Admit(s, Req(s).room, t)

\* leave_room: match-core frees the seat, or keeps it while a game is in play,
\* or deletes the room; it ignores that the deletion failed, and the leaver stays
\* where it was.  The socket leaves the channel, its session is cleared, and
\* withAck joins the channel again.
LeaveRoom(s) ==
  LET r == Req(s).session.room
      t == Req(s).session.token
  IN  /\ Handles(s, "leave") /\ t \in members[r]
      /\ \/ /\ rooms' = rooms
            /\ members' \in {members, [members EXCEPT ![r] = @ \ {t}]}
            /\ present' = [present EXCEPT ![r] = @ \ {t}]
         \/ /\ rooms' = rooms \ {r}
            /\ members' = [members EXCEPT ![r] = {}]
            /\ present' = [present EXCEPT ![r] = {}]
         \/ UNCHANGED <<rooms, members, present>>
      /\ issued' = issued
      /\ \/ /\ session' = [session EXCEPT ![s] = NoSession]
            /\ channels' = [channels EXCEPT ![s] = (@ \ {r}) \cup {r}]
            /\ left' = IF s = link THEN left \cup {r} ELSE left
            /\ confirmed' = IF s = link THEN r ELSE confirmed
            /\ leaked' = leaked \cup Replaced(s, Req(s).session) \cup (present'[r] \cap {t})
            /\ page' = IF Heard(s) THEN NoSession ELSE page
            /\ UNCHANGED <<link, state, requests, restarts, others>>
         \/ Unanswered({})

\* (slip) Whoever synchronises is marked as present, known or not.
SynchroniseAnyone(r, t) ==
  /\ r \in rooms
  /\ present' = [present EXCEPT ![r] = @ \cup {t}]
  /\ UNCHANGED <<rooms, members, issued>>

\* (slip) Nobody is marked as present again.
SynchroniseNobody(r, t) ==
  /\ r \in rooms
  /\ UNCHANGED <<rooms, members, present, issued>>

\* SyncState in match-core: a session it knows is present again.  Loaded and saved
\* in one step here; a save in between is that of an older copy, SaveCopy.
Synchronise(r, t) ==
  /\ r \in rooms
  /\ present' = IF t \in members[r] THEN [present EXCEPT ![r] = @ \cup {t}] ELSE present
  /\ UNCHANGED <<rooms, members, issued>>

\* sync_state, from a button or on connect.
SyncState(s) ==
  LET asked == Req(s).session
      r == asked.room
      known == asked.token \in members[r]
  IN  /\ Handles(s, "sync") \/ Handles(s, "connect")
      /\ Synchronise(r, asked.token)
      /\ \/ IF known THEN AnswerWithSession(s, asked) ELSE AnswerWithoutSession(s, r)
         \/ Unanswered(IF known THEN {asked.token} ELSE {})

\* heartbeat: the session is bound, the channel is not joined.
Heartbeat(s) ==
  LET asked == Req(s).session
      r == asked.room
      known == asked.token \in members[r]
  IN  /\ Handles(s, "heartbeat")
      /\ Synchronise(r, asked.token)
      /\ \/ /\ known
            /\ session' = [session EXCEPT ![s] = asked]
            /\ channels' = [channels EXCEPT ![s] = ChannelsAfterBind(s, asked)]
            /\ leaked' = leaked \cup Replaced(s, asked)
            /\ UNCHANGED <<page, link, state, requests, restarts, left, confirmed, others>>
         \/ Unanswered(IF known THEN {asked.token} ELSE {})

\* submit_action, resign and the draw commands: match-core knows the player by
\* the token, and the gateway joins the channel of the room without a session.
Command(s) ==
  /\ Handles(s, "command")
  /\ Req(s).session.token \in members[Req(s).room]
  /\ AnswerWithoutSession(s, Req(s).room)
  /\ UNCHANGED matchcore

\* resolveSocketSession: the session bound to the socket if it is of the room
\* named, or else the one that match-core finds for the tokens of the request.
\* chat_message sends tokens; webrtc_signal does not, and skips withAck.
Resolve(s, tokens, joins) ==
  LET r == Req(s).room
      own == session[s] # NoSession /\ session[s].room = r
      used == IF own THEN session[s] ELSE Req(s).session
      known == used.token \in members[r] /\ (own \/ tokens)
  IN  /\ own \/ known
      /\ IF own \/ tokens THEN Synchronise(r, used.token) ELSE UNCHANGED matchcore
      /\ \/ /\ session' = [session EXCEPT ![s] = used]
            /\ channels' = [channels EXCEPT ![s] =
                 ChannelsAfterBind(s, used) \cup (IF joins \/ ~own THEN {r} ELSE {})]
            /\ confirmed' = IF joins /\ s = link THEN r ELSE confirmed
            /\ leaked' = leaked \cup Replaced(s, used)
            /\ UNCHANGED <<page, link, state, requests, restarts, left, others>>
         \/ Unanswered(IF known THEN {used.token} ELSE {})

ChatMessage(s) == Handles(s, "chat") /\ Resolve(s, TRUE, TRUE)
WebRTCSignal(s) == Handles(s, "signal") /\ Resolve(s, FALSE, FALSE)

\* match-core or the gateway refuses: sendError, and nothing has changed.
Refuse(s) ==
  /\ \E k \in Kind : Handles(s, k)
  /\ UNCHANGED <<page, link, sockets, matchcore, requests, restarts, history, others>>

\* (slip) The session is forgotten and match-core is not told.
DisconnectSilently(s) ==
  /\ state[s] = "lost" /\ queue[s] = <<>>
  /\ state' = [state EXCEPT ![s] = "closed"]
  /\ channels' = [channels EXCEPT ![s] = {}]
  /\ session' = [session EXCEPT ![s] = NoSession]
  /\ UNCHANGED <<page, link, queue, matchcore, requests, restarts, history, others>>

\* disconnect: MarkDisconnected for the session of the socket.  When the call
\* fails the session is kept for good.
Disconnect(s) ==
  /\ state[s] = "lost" /\ queue[s] = <<>>
  /\ state' = [state EXCEPT ![s] = "closed"]
  /\ channels' = [channels EXCEPT ![s] = {}]
  /\ \/ /\ session[s] = NoSession
        /\ UNCHANGED <<session, present, leaked, restored>>
     \/ /\ session[s] # NoSession
        /\ present' = [present EXCEPT ![session[s].room] = @ \ {session[s].token}]
        /\ session' = [session EXCEPT ![s] = NoSession]
        /\ restored' = restored \ {session[s]}
        /\ leaked' = leaked
     \/ /\ session[s] # NoSession
        /\ leaked' = leaked \cup {session[s].token}
        /\ UNCHANGED <<session, present, restored>>
  /\ UNCHANGED <<page, link, queue, rooms, members, issued, copies, requests, restarts,
                 left, confirmed>>

\* The gateway restarts with its maps empty; no disconnect is handled.
Restart ==
  /\ restarts < MaxRestarts /\ restarts' = restarts + 1
  /\ leaked' = leaked \cup {session[s].token : s \in {x \in Socket : session[x] # NoSession}}
  /\ link' = NoSocket
  /\ state' = [s \in Socket |-> IF state[s] = "new" THEN "new" ELSE "closed"]
  /\ queue' = [s \in Socket |-> <<>>]
  /\ session' = [s \in Socket |-> NoSession]
  /\ channels' = [s \in Socket |-> {}]
  /\ left' = {} /\ confirmed' = NoSession
  /\ UNCHANGED <<page, matchcore, requests, others>>

\* match-core lets a room go: its key expired, or the others closed it.
CloseRoom(r) ==
  /\ r \in rooms /\ rooms' = rooms \ {r}
  /\ members' = [members EXCEPT ![r] = {}]
  /\ present' = [present EXCEPT ![r] = {}]
  /\ UNCHANGED <<page, link, queue, sockets, issued, requests, restarts, history, others>>

\* The ticker or a handler of another request loads the room.  One that ended
\* without saving has lost its copy.
LoadCopy(o, r) ==
  /\ r \in rooms
  /\ copies' = [copies EXCEPT ![o] =
                  [room |-> r, members |-> members[r], present |-> present[r]]]
  /\ UNCHANGED <<page, link, queue, sockets, matchcore, requests, restarts, history, restored>>

\* It saves the room as it loaded it: whoever joined, left, came back or went away
\* in the meantime is as before, and a room that was deleted exists again.
SaveCopy(o) ==
  LET c == copies[o]
  IN  /\ c # NoCopy
      /\ rooms' = rooms \cup {c.room}
      /\ members' = [members EXCEPT ![c.room] = c.members]
      /\ present' = [present EXCEPT ![c.room] = c.present]
      /\ restored' = restored \cup
           {[room |-> c.room, token |-> t] : t \in c.present \ present[c.room]}
      /\ copies' = [copies EXCEPT ![o] = NoCopy]
      /\ UNCHANGED <<page, link, queue, sockets, issued, requests, restarts, history>>

Handle(s) ==
  \/ CreateRoom(s) \/ JoinRoom(s) \/ LeaveRoom(s) \/ SyncState(s) \/ Heartbeat(s)
  \/ Command(s) \/ ChatMessage(s) \/ WebRTCSignal(s) \/ Refuse(s)

Next ==
  \/ EnterRoom
  \/ Act("leave") \/ Act("command") \/ Act("sync")
  \/ Aside("heartbeat") \/ Aside("chat") \/ Aside("signal")
  \/ GiveUp
  \/ \E s \in Socket : Connect(s)
  \/ LoseConnection
  \/ \E s \in Socket : Handle(s)
  \/ \E s \in Socket : Disconnect(s)
  \/ Restart
  \/ \E r \in RoomCode : CloseRoom(r)
  \/ \E o \in Other, r \in RoomCode : LoadCopy(o, r)
  \/ \E o \in Other : SaveCopy(o)

Spec == Init /\ [][Next]_vars

-----------------------------------------------------------------------------

\* The shape of the state.
TypeOK ==
  /\ page \in Session \cup {NoSession} /\ link \in Socket \cup {NoSocket}
  /\ state \in [Socket -> {"new", "open", "lost", "closed"}]
  /\ \A s \in Socket : Len(queue[s]) <= MaxQueue /\ queue[s] \in Seq(Request)
  /\ session \in [Socket -> Session \cup {NoSession}]
  /\ channels \in [Socket -> SUBSET RoomCode]
  /\ rooms \subseteq RoomCode /\ issued \subseteq Token
  /\ present \in [RoomCode -> SUBSET Token]
  /\ \A r \in RoomCode : present[r] \subseteq members[r] /\ members[r] \subseteq issued
  /\ \A r \in RoomCode \ rooms : members[r] = {}
  /\ copies \in [Other -> Copy \cup {NoCopy}]
  /\ \A o \in Other : copies[o] # NoCopy =>
       copies[o].present \subseteq copies[o].members /\ copies[o].members \subseteq issued
  /\ requests \in 0 .. MaxRequests /\ restarts \in 0 .. MaxRestarts

\* A page in one room hears the broadcasts of another only if it left that
\* room over the same connection: leave_room (209) leaves the channel and
\* withAck (536) joins it again, after which nobody leaves it for the socket.
HearsOnlyItsRoomOrOnesLeft ==
  link # NoSocket /\ page # NoSession =>
    channels[link] \subseteq {page.room} \cup left

\* The page is deaf to its room only until an answer other than a heartbeat's
\* reaches it: joining, syncing, moving or chatting puts the socket in the channel
\* (536), and no late request for another room takes it out again (618).
ConfirmedPageHears ==
  link # NoSocket /\ page # NoSession /\ confirmed = page.room =>
    page.room \in channels[link]

\* Whoever match-core shows as connected has a socket bound to that session, or
\* is one whose trace the gateway lost: its call timed out, its session was
\* overwritten (626), MarkDisconnected failed (500), match-core did not delete the
\* room it left (service.go 351), or the gateway restarted.  Otherwise, since its
\* last disconnect was noted, match-core has saved a copy of the room loaded
\* before (659): the tick holds its copy for as long as the engine thinks (694).
PresenceAccounted ==
  \A r \in RoomCode : \A t \in present[r] :
    \/ t \in leaked
    \/ [room |-> r, token |-> t] \in restored
    \/ \E s \in Socket : /\ state[s] \in {"open", "lost"}
                         /\ session[s] = [room |-> r, token |-> t]
=============================================================================

--------------------------- MODULE GatewayProofs ----------------------------
(***************************************************************************)
(* What the gateway keeps between pages, sockets, channels and match-core, *)
(* for any number of rooms, tokens, sockets, requests and restarts.        *)
(***************************************************************************)
EXTENDS Gateway, SequenceTheorems, TLAPS

USE GatewayAssumption

-----------------------------------------------------------------------------
(* Types.                                                                  *)

\* A request of a page without a session creates or joins a room; any other one
\* names the room of its session.
Asked ==
  {q \in Request :
     /\ q.kind \in {"create", "join"} <=> q.session = NoSession
     /\ q.kind = "join" => q.room \in RoomCode
     /\ q.session # NoSession => q.room = q.session.room}

QueueTypes ==
  /\ queue \in [Socket -> Seq(Asked)]
  /\ \A s \in Socket : Len(queue[s]) <= MaxQueue

PageTypes ==
  /\ page \in Session \cup {NoSession} /\ link \in Socket \cup {NoSocket}
  /\ state \in [Socket -> {"new", "open", "lost", "closed"}]
  /\ session \in [Socket -> Session \cup {NoSession}]
  /\ channels \in [Socket -> SUBSET RoomCode]

RoomTypes ==
  /\ rooms \subseteq RoomCode /\ issued \subseteq Token
  /\ present \in [RoomCode -> SUBSET Token] /\ members \in [RoomCode -> SUBSET Token]
  /\ \A r \in RoomCode : present[r] \subseteq members[r] /\ members[r] \subseteq issued
  /\ \A r \in RoomCode \ rooms : members[r] = {}

CountTypes == requests \in 0 .. MaxRequests /\ restarts \in 0 .. MaxRestarts

CopyTypes ==
  /\ copies \in [Other -> Copy \cup {NoCopy}]
  /\ \A o \in Other : copies[o] # NoCopy =>
       copies[o].present \subseteq copies[o].members /\ copies[o].members \subseteq issued

Shape == QueueTypes /\ PageTypes /\ RoomTypes /\ CountTypes
Types == Shape /\ CopyTypes

LEMMA SessionFields ==
  /\ NoSession \notin Session
  /\ \A x \in Session : x.room \in RoomCode /\ x.token \in Token
                        /\ x = [room |-> x.room, token |-> x.token]
  /\ \A r \in RoomCode, t \in Token : [room |-> r, token |-> t] \in Session
BY DEF Session

\* The requests that are left once one is handled.
LEMMA HandledQueue ==
  ASSUME QueueTypes, NEW s \in Socket, NEW kind, Handles(s, kind)
  PROVE  /\ Req(s) \in Asked /\ Req(s).kind = kind
         /\ Req(s) = queue[s][1] /\ 1 \in DOMAIN queue[s]
         /\ queue' \in [Socket -> Seq(Asked)]
         /\ Len(queue'[s]) = Len(queue[s]) - 1
         /\ \A i \in DOMAIN queue'[s] : i + 1 \in DOMAIN queue[s] /\ queue'[s][i] = queue[s][i + 1]
         /\ \A x \in Socket : x # s => queue'[x] = queue[x]
<1>1. queue[s] \in Seq(Asked) /\ queue[s] # <<>> BY DEF QueueTypes, Handles
<1>2. /\ Tail(queue[s]) \in Seq(Asked) /\ Len(Tail(queue[s])) = Len(queue[s]) - 1
      /\ \A i \in 1 .. Len(Tail(queue[s])) : Tail(queue[s])[i] = queue[s][i + 1]
      /\ Head(queue[s]) \in Asked
  BY <1>1, HeadTailProperties
<1>3. queue' = [queue EXCEPT ![s] = Tail(queue[s])] BY DEF Handles
<1>4. /\ DOMAIN Tail(queue[s]) = 1 .. Len(Tail(queue[s])) /\ DOMAIN queue[s] = 1 .. Len(queue[s])
      /\ Len(queue[s]) \in Nat \ {0}
  BY <1>1, <1>2, LenProperties, EmptySeq
<1>5. queue'[s] = Tail(queue[s]) BY <1>3 DEF QueueTypes
<1>6. Head(queue[s]) = queue[s][1] BY <1>1
<1> QED BY <1>2, <1>3, <1>4, <1>5, <1>6 DEF QueueTypes, Handles, Req

LEMMA HandledTypes ==
  ASSUME QueueTypes, NEW s \in Socket, NEW kind, Handles(s, kind)
  PROVE  QueueTypes'
<1>1. /\ queue' \in [Socket -> Seq(Asked)] /\ Len(queue'[s]) = Len(queue[s]) - 1
      /\ \A x \in Socket : x # s => queue'[x] = queue[x]
  BY HandledQueue
<1>2. Len(queue[s]) \in Nat BY LenProperties DEF QueueTypes
<1> QED BY <1>1, <1>2 DEF QueueTypes

\* What the answers do to the sockets and the page.
LEMMA AnswerTypes ==
  ASSUME Types, NEW s \in Socket
  PROVE  /\ \A new \in Session : AnswerWithSession(s, new) => PageTypes' /\ CountTypes'
         /\ \A room \in RoomCode : AnswerWithoutSession(s, room) => PageTypes' /\ CountTypes'
         /\ \A tokens : Unanswered(tokens) => PageTypes' /\ CountTypes'
<1>1. ASSUME NEW new \in Session, AnswerWithSession(s, new) PROVE PageTypes' /\ CountTypes'
  BY <1>1, SessionFields DEF AnswerWithSession, ChannelsAfterBind, Types, Shape, PageTypes, CountTypes
<1>2. ASSUME NEW room \in RoomCode, AnswerWithoutSession(s, room) PROVE PageTypes' /\ CountTypes'
  BY <1>2 DEF AnswerWithoutSession, Types, Shape, PageTypes, CountTypes
<1>3. ASSUME NEW tokens, Unanswered(tokens) PROVE PageTypes' /\ CountTypes'
  BY <1>3 DEF Unanswered, sockets, Types, Shape, PageTypes, CountTypes
<1> QED BY <1>1, <1>2, <1>3

LEMMA AdmitTypes ==
  ASSUME Types, NEW s \in Socket, NEW r \in RoomCode, NEW t \in Token, Admit(s, r, t)
  PROVE  PageTypes' /\ RoomTypes' /\ CountTypes'
<1>1. PageTypes' /\ CountTypes' BY AnswerTypes, SessionFields DEF Admit
<1>2. RoomTypes' BY DEF Admit, Types, Shape, RoomTypes
<1> QED BY <1>1, <1>2

LEMMA SynchroniseTypes ==
  ASSUME Types, NEW r, NEW t, Synchronise(r, t)
  PROVE  RoomTypes' /\ r \in RoomCode
BY DEF Synchronise, Types, Shape, RoomTypes

\* One page-side step changes the connection's queue only.
LEMMA SendTypes ==
  ASSUME Types, NEW kind \in Kind, NEW room, Send(kind, room),
         kind \in {"create", "join"} <=> page = NoSession,
         kind = "join" => room \in RoomCode,
         page # NoSession => room = page.room,
         room \in RoomCode \cup {NoSession}
  PROVE  Shape'
<1> DEFINE q == [kind |-> kind, session |-> page, room |-> room, awaited |-> TRUE]
<1>1. q \in Asked BY DEF Asked, Request, Types, Shape, PageTypes
<1>2. /\ link \in Socket /\ Len(queue[link]) < MaxQueue
      /\ queue' = [queue EXCEPT ![link] = Append(queue[link], q)]
  BY DEF Send, Types, Shape, PageTypes
<1>3. /\ UNCHANGED <<page, link, sockets, matchcore, restarts>>
      /\ requests' = requests \/ (requests < MaxRequests /\ requests' = requests + 1)
  BY DEF Send
<1> HIDE DEF q
<1>4. queue[link] \in Seq(Asked) BY <1>2 DEF Types, Shape, QueueTypes
<1>5. /\ Append(queue[link], q) \in Seq(Asked)
      /\ Len(Append(queue[link], q)) = Len(queue[link]) + 1
  BY <1>1, <1>4, AppendProperties
<1>6. QueueTypes' BY <1>2, <1>4, <1>5, LenProperties DEF Types, Shape, QueueTypes
<1>7. PageTypes' /\ RoomTypes' /\ CountTypes'
  BY <1>3 DEF Types, Shape, PageTypes, RoomTypes, CountTypes, sockets, matchcore
<1> QED BY <1>6, <1>7 DEF Types, Shape

\* A queue some of whose requests are dropped from the end, and whose answers are
\* no longer awaited.
LEMMA UnawaitedQueue ==
  ASSUME NEW q \in Seq(Asked), NEW n \in 0 .. Len(q)
  PROVE  LET u == [i \in 1 .. n |-> [q[i] EXCEPT !.awaited = FALSE]]
         IN  u \in Seq(Asked) /\ Len(u) = n
<1> DEFINE u == [i \in 1 .. n |-> [q[i] EXCEPT !.awaited = FALSE]]
<1>1. n \in Nat /\ \A i \in 1 .. n : q[i] \in Asked
  BY LenProperties, ElementOfSeq
<1>2. \A x \in Asked : [x EXCEPT !.awaited = FALSE] \in Asked
  BY DEF Asked, Request
<1>3. u \in [1 .. n -> Asked] BY <1>1, <1>2
<1> HIDE DEF u
<1>4. u \in Seq(Asked) BY <1>1, <1>3, SeqDef
<1>5. Len(u) = n BY <1>1, <1>3, <1>4, LenProperties
<1> QED BY <1>4, <1>5 DEF u

LEMMA PageStepTypes ==
  ASSUME Types,
         \/ EnterRoom \/ Act("leave") \/ Act("command") \/ Act("sync")
         \/ Aside("heartbeat") \/ Aside("chat") \/ Aside("signal")
  PROVE  Shape'
<1>1. CASE EnterRoom
  BY <1>1, SendTypes DEF EnterRoom, Kind, Action
<1>2. ASSUME NEW kind \in {"leave", "command", "sync", "heartbeat", "chat", "signal"},
             page # NoSession, Send(kind, page.room)
      PROVE  Shape'
  BY <1>2, SendTypes, SessionFields DEF Kind, Action, Types, Shape, PageTypes
<1> QED BY <1>1, <1>2 DEF Act, Aside

\* What a connection carries first: the request kept while there was none, and the
\* synchronisation of a page with a session.
Greeting == [kind |-> "connect", session |-> page, room |-> page.room, awaited |-> TRUE]
FirstRequests(b) == IF page = NoSession THEN b ELSE Append(b, Greeting)

LEMMA ShortSequences ==
  ASSUME NEW S, NEW x \in S
  PROVE  /\ <<x>> \in Seq(S) /\ Len(<<x>>) = 1 /\ DOMAIN <<x>> = {1} /\ <<x>>[1] = x
         /\ Append(<<>>, x) = <<x>>
<1>1. DOMAIN <<x>> = {1} OBVIOUS
<1>2. <<>> \in Seq(S) /\ <<x>> \in Seq(S) OBVIOUS
<1>3. Len(<<>>) = 0 /\ Len(<<x>>) = 1 /\ <<x>>[1] = x OBVIOUS
<1>4. Append(<<>>, x) \in Seq(S) /\ Len(Append(<<>>, x)) = 1 /\ Append(<<>>, x)[1] = x
  BY <1>2, <1>3, AppendProperties
<1>5. \A i \in 1 .. 1 : i = 1 OBVIOUS
<1>6. Append(<<>>, x) = <<x>> BY <1>2, <1>3, <1>4, <1>5, SeqEqual
<1> QED BY <1>1, <1>2, <1>3, <1>6

LEMMA FirstRequestsShape ==
  ASSUME Types, NEW b \in Buffered, Len(b) < MaxQueue \/ page = NoSession
  PROVE  LET q == FirstRequests(b)
         IN  /\ q \in Seq(Asked) /\ Len(q) <= MaxQueue /\ Len(b) \in {0, 1}
             /\ \A i \in DOMAIN q :
                  /\ i \in 1 .. Len(q) /\ q[i].session = page /\ q[i].kind # "leave"
                  /\ q[i].kind \in {"create", "join"} => page = NoSession /\ i = Len(q)
                  /\ q[i].kind \in Action => i = 1
<1> DEFINE e(k, r) == [kind |-> k, session |-> page, room |-> r, awaited |-> TRUE]
           q == FirstRequests(b)
<1>1. page \in Session \cup {NoSession} /\ NoSession \notin Session
  BY SessionFields DEF Types, Shape, PageTypes
<1>2. page # NoSession =>
        Greeting \in Asked /\ Greeting.kind = "connect" /\ Greeting.session = page
  BY <1>1, SessionFields DEF Asked, Request, Kind, Action, Greeting
<1>3. \/ b = <<>>
      \/ \E x \in Asked :
           /\ b = <<x>> /\ x.session = page
           /\ x.kind \in (IF page = NoSession THEN {"create", "join"} ELSE {"command", "sync", "chat"})
  <2>1. CASE page = NoSession
    <3>1. /\ e("create", NoSession) \in Asked
          /\ \A r \in RoomCode : e("join", r) \in Asked
      BY <2>1 DEF Asked, Request, Kind, Action
    <3>2. b = <<>> \/ b = <<e("create", NoSession)>> \/ \E r \in RoomCode : b = <<e("join", r)>>
      BY <2>1 DEF Buffered, Early
    <3>3. /\ e("create", NoSession).session = page /\ e("create", NoSession).kind = "create"
          /\ \A r \in RoomCode : e("join", r).session = page /\ e("join", r).kind = "join"
      OBVIOUS
    <3> HIDE DEF e
    <3> QED BY <2>1, <3>1, <3>2, <3>3
  <2>2. CASE page # NoSession
    <3>1. \A k \in {"command", "sync", "chat"} :
            /\ e(k, page.room) \in Asked
            /\ e(k, page.room).session = page /\ e(k, page.room).kind = k
      BY <1>1, <2>2, SessionFields DEF Asked, Request, Kind, Action
    <3>2. b = <<>> \/ \E k \in {"command", "sync", "chat"} : b = <<e(k, page.room)>>
      BY <2>2 DEF Buffered, Early
    <3> HIDE DEF e
    <3> QED BY <2>2, <3>1, <3>2
  <2> QED BY <2>1, <2>2
<1>4. CASE page = NoSession
  <2>1. q = b BY <1>4 DEF FirstRequests
  <2>2. CASE b = <<>>
    <3>1. q \in Seq(Asked) /\ Len(q) = 0 /\ DOMAIN q = {} BY <2>1, <2>2
    <3> HIDE DEF q
    <3> QED BY <2>2, <3>1 DEF q
  <2>3. ASSUME NEW x \in Asked, b = <<x>>, x.session = page, x.kind \in {"create", "join"}
        PROVE  /\ q \in Seq(Asked) /\ Len(q) = 1 /\ Len(b) = 1
               /\ \A i \in DOMAIN q : i = 1 /\ q[i] = x
    BY <2>1, <2>3, ShortSequences
  <2> HIDE DEF q
  <2>4. CASE b # <<>>
    BY <1>3, <1>4, <2>3, <2>4 DEF q
  <2> QED BY <2>2, <2>4
<1>5. CASE page # NoSession
  <2>1. q = Append(b, Greeting) /\ Len(b) < MaxQueue BY <1>5 DEF FirstRequests
  <2>2. CASE b = <<>>
    <3>1. q = <<Greeting>> /\ Len(b) = 0 BY <2>1, <2>2, <1>2, <1>5, ShortSequences
    <3>2. q \in Seq(Asked) /\ Len(q) = 1 /\ \A i \in DOMAIN q : i = 1 /\ q[i] = Greeting
      BY <3>1, <1>2, <1>5, ShortSequences
    <3> HIDE DEF q
    <3> QED BY <1>2, <1>5, <3>1, <3>2 DEF q, Action
  <2>3. ASSUME NEW x \in Asked, b = <<x>>, x.session = page, x.kind \in {"command", "sync", "chat"}
        PROVE  /\ q \in Seq(Asked) /\ Len(q) = 2 /\ Len(b) = 1
               /\ \A i \in DOMAIN q : (i = 1 /\ q[i] = x) \/ (i = 2 /\ q[i] = Greeting)
    <3>1. b \in Seq(Asked) /\ Len(b) = 1 /\ b[1] = x BY <2>3, ShortSequences
    <3> HIDE DEF q
    <3>2. q \in Seq(Asked) /\ Len(q) = 2 /\ q[1] = x /\ q[2] = Greeting
      <4>1. q = Append(b, Greeting) /\ Greeting \in Asked BY <1>2, <1>5, <2>1
      <4>2. q \in Seq(Asked) /\ Len(q) = Len(b) + 1 BY <3>1, <4>1, AppendProperties
      <4>3. q[1] = b[1] BY <3>1, <4>1, AppendProperties
      <4>4. q[Len(b) + 1] = Greeting BY <3>1, <4>1, AppendProperties, ZenonT(60)
      <4> QED BY <3>1, <4>2, <4>3, <4>4
    <3>3. DOMAIN q = 1 .. 2 BY <3>2, LenProperties
    <3> QED BY <3>1, <3>2, <3>3
  <2> HIDE DEF q
  <2>4. CASE b # <<>>
    <3>1. PICK x \in Asked : /\ b = <<x>> /\ x.session = page
                             /\ x.kind \in {"command", "sync", "chat"}
      BY <1>3, <1>5, <2>4
    <3>2. /\ q \in Seq(Asked) /\ Len(q) = 2 /\ Len(b) = 1
          /\ \A i \in DOMAIN q : (i = 1 /\ q[i] = x) \/ (i = 2 /\ q[i] = Greeting)
      BY <2>3, <3>1
    <3> QED BY <1>2, <1>5, <2>1, <3>1, <3>2 DEF q, Action
  <2> QED BY <2>2, <2>4
<1> QED BY <1>4, <1>5

LEMMA ConnectionTypes ==
  ASSUME Types, GiveUp \/ (\E s \in Socket : Connect(s)) \/ LoseConnection
  PROVE  Shape'
<1>1. CASE GiveUp
  <2>1. /\ link \in Socket /\ queue[link] \in Seq(Asked)
        /\ DOMAIN queue[link] = 1 .. Len(queue[link]) /\ Len(queue[link]) \in Nat
    BY <1>1, LenProperties DEF GiveUp, Waits, Types, Shape, PageTypes, QueueTypes
  <2> DEFINE u == [i \in 1 .. Len(queue[link]) |-> [queue[link][i] EXCEPT !.awaited = FALSE]]
  <2>2. u \in Seq(Asked) /\ Len(u) = Len(queue[link])
    <3>1. Len(queue[link]) \in 0 .. Len(queue[link]) BY <2>1
    <3> QED BY <2>1, <3>1, UnawaitedQueue
  <2>3. queue' = [queue EXCEPT ![link] = u] BY <1>1, <2>1 DEF GiveUp
  <2> HIDE DEF u
  <2>4. QueueTypes' BY <2>1, <2>2, <2>3 DEF Types, Shape, QueueTypes
  <2> QED BY <1>1, <2>4 DEF GiveUp, sockets, matchcore, Types, Shape, PageTypes, RoomTypes, CountTypes
<1>2. ASSUME NEW s \in Socket, Connect(s) PROVE Shape'
  <2>1. PICK b \in Buffered : /\ requests' = requests + Len(b) /\ requests' <= MaxRequests
                              /\ queue' = [queue EXCEPT ![s] = FirstRequests(b)]
                              /\ Len(b) < MaxQueue \/ page = NoSession
    BY <1>2 DEF Connect, FirstRequests, Greeting
  <2>2. /\ FirstRequests(b) \in Seq(Asked) /\ Len(FirstRequests(b)) <= MaxQueue
        /\ Len(b) \in Nat
    BY <2>1, FirstRequestsShape
  <2>3. QueueTypes' BY <2>1, <2>2 DEF Types, Shape, QueueTypes
  <2>4. CountTypes' BY <1>2, <2>1, <2>2 DEF Connect, Types, Shape, CountTypes
  <2> QED BY <1>2, <2>3, <2>4 DEF Connect, matchcore, Types, Shape, PageTypes, RoomTypes
<1>3. CASE LoseConnection
  <2>1. /\ link \in Socket /\ queue[link] \in Seq(Asked) /\ Len(queue[link]) \in Nat
    BY <1>3, LenProperties DEF LoseConnection, Types, Shape, PageTypes, QueueTypes
  <2>2. PICK n \in 0 .. Len(queue[link]) :
          queue' = [queue EXCEPT ![link] =
                      [i \in 1 .. n |-> [queue[link][i] EXCEPT !.awaited = FALSE]]]
    BY <1>3, <2>1 DEF LoseConnection, Types, Shape, QueueTypes
  <2> DEFINE u == [i \in 1 .. n |-> [queue[link][i] EXCEPT !.awaited = FALSE]]
  <2>3. u \in Seq(Asked) /\ Len(u) = n BY <2>1, UnawaitedQueue
  <2>4. queue' = [queue EXCEPT ![link] = u] BY <2>2
  <2> HIDE DEF u
  <2>5. QueueTypes' BY <2>1, <2>3, <2>4 DEF Types, Shape, QueueTypes
  <2> QED BY <1>3, <2>5 DEF LoseConnection, matchcore, Types, Shape, PageTypes, RoomTypes, CountTypes
<1> QED BY <1>1, <1>2, <1>3

LEMMA HandleTypes ==
  ASSUME Types, NEW s \in Socket, Handle(s)
  PROVE  Shape'
<1>1. \A kind : Handles(s, kind) => QueueTypes' /\ Req(s) \in Asked /\ Req(s).kind = kind
  BY HandledTypes, HandledQueue DEF Types, Shape
<1>2. \A q \in Asked : /\ q.kind \notin {"create", "join"} =>
                            q.session \in Session /\ q.room = q.session.room
                       /\ q.session \in Session \cup {NoSession}
                       /\ q.kind = "join" => q.room \in RoomCode
  BY DEF Asked, Request
<1>3. CASE CreateRoom(s)
  BY <1>1, <1>3, AdmitTypes DEF CreateRoom, Types, Shape
<1>4. CASE JoinRoom(s)
  BY <1>1, <1>2, <1>4, AdmitTypes DEF JoinRoom, Types, Shape
<1>5. CASE LeaveRoom(s)
  <2> DEFINE r == Req(s).session.room
             t == Req(s).session.token
  <2>1. r \in RoomCode /\ t \in Token /\ QueueTypes'
    BY <1>1, <1>2, <1>5, SessionFields DEF LeaveRoom
  <2>2. RoomTypes'
    BY <1>5, <2>1 DEF LeaveRoom, Types, Shape, RoomTypes
  <2>3. PageTypes' /\ CountTypes'
    BY <1>5, <2>1, AnswerTypes DEF LeaveRoom, Types, Shape, PageTypes, CountTypes
  <2> QED BY <2>1, <2>2, <2>3 DEF Types, Shape
<1>6. CASE SyncState(s)
  <2>1. Req(s).session \in Session /\ QueueTypes' BY <1>1, <1>2, <1>6 DEF SyncState
  <2>2. RoomTypes' BY <1>6, SynchroniseTypes DEF SyncState
  <2>3. PageTypes' /\ CountTypes' BY <1>6, <2>1, AnswerTypes, SessionFields DEF SyncState
  <2> QED BY <2>1, <2>2, <2>3 DEF Types, Shape
<1>7. CASE Heartbeat(s)
  <2>1. Req(s).session \in Session /\ QueueTypes' BY <1>1, <1>2, <1>7 DEF Heartbeat
  <2>2. RoomTypes' BY <1>7, SynchroniseTypes DEF Heartbeat
  <2>3. PageTypes' /\ CountTypes'
    BY <1>7, <2>1, AnswerTypes DEF Heartbeat, ChannelsAfterBind, Types, Shape, PageTypes, CountTypes
  <2> QED BY <2>1, <2>2, <2>3 DEF Types, Shape
<1>8. CASE Command(s)
  <2>1. Req(s).room \in RoomCode /\ QueueTypes'
    BY <1>1, <1>2, <1>8, SessionFields DEF Command
  <2>2. RoomTypes' BY <1>8 DEF Command, matchcore, Types, Shape, RoomTypes
  <2> QED BY <1>8, <2>1, <2>2, AnswerTypes DEF Command, Types, Shape
<1>9. ASSUME NEW tokens \in BOOLEAN, NEW joins \in BOOLEAN, Resolve(s, tokens, joins),
             Req(s).session \in Session, Req(s).room = Req(s).session.room, QueueTypes'
      PROVE  Shape'
  <2>1. Req(s).room \in RoomCode /\ (session[s] # NoSession => session[s] \in Session)
    BY <1>9, SessionFields DEF Types, Shape, PageTypes
  <2>2. RoomTypes'
    BY <1>9, SynchroniseTypes DEF Resolve, matchcore, Types, Shape, RoomTypes
  <2>3. PageTypes' /\ CountTypes'
    BY <1>9, <2>1, AnswerTypes DEF Resolve, ChannelsAfterBind, Types, Shape, PageTypes, CountTypes
  <2> QED BY <1>9, <2>2, <2>3 DEF Types, Shape
<1>10. CASE ChatMessage(s) \/ WebRTCSignal(s)
  <2>1. PICK kind \in {"chat", "signal"} : Handles(s, kind)
    BY <1>10 DEF ChatMessage, WebRTCSignal
  <2>2. Req(s) \in Asked /\ Req(s).kind = kind /\ QueueTypes' BY <1>1, <2>1
  <2>3. Req(s).session \in Session /\ Req(s).room = Req(s).session.room BY <1>2, <2>2
  <2>4. Resolve(s, TRUE, TRUE) \/ Resolve(s, FALSE, FALSE)
    BY <1>10 DEF ChatMessage, WebRTCSignal
  <2> QED BY <1>9, <2>2, <2>3, <2>4
<1>11. CASE Refuse(s)
  BY <1>1, <1>11 DEF Refuse, sockets, matchcore, Types, Shape, PageTypes, RoomTypes, CountTypes
<1> QED BY <1>3, <1>4, <1>5, <1>6, <1>7, <1>8, <1>10, <1>11 DEF Handle

\* The rooms that the other calls of match-core load and save.
LEMMA OthersTypes ==
  ASSUME Types, (\E o \in Other, r \in RoomCode : LoadCopy(o, r)) \/ (\E o \in Other : SaveCopy(o))
  PROVE  Types'
<1>1. CASE \E o \in Other, r \in RoomCode : LoadCopy(o, r)
  <2>1. PICK o \in Other, r \in RoomCode : LoadCopy(o, r) BY <1>1
  <2>2. Shape'
    BY <2>1 DEF LoadCopy, sockets, matchcore, Types, Shape, QueueTypes, PageTypes, RoomTypes, CountTypes
  <2> DEFINE c == [room |-> r, members |-> members[r], present |-> present[r]]
  <2>3. c \in Copy /\ c.present \subseteq c.members /\ c.members \subseteq issued
    BY DEF Copy, Types, Shape, RoomTypes
  <2>4. copies' = [copies EXCEPT ![o] = c] /\ issued' = issued
    BY <2>1 DEF LoadCopy, matchcore
  <2> HIDE DEF c
  <2>5. CopyTypes' BY <2>3, <2>4 DEF Types, CopyTypes
  <2> QED BY <2>2, <2>5 DEF Types
<1>2. CASE \E o \in Other : SaveCopy(o)
  <2>1. PICK o \in Other : SaveCopy(o) BY <1>2
  <2>2. /\ copies[o] \in Copy
        /\ copies[o].present \subseteq copies[o].members /\ copies[o].members \subseteq issued
    BY <2>1 DEF SaveCopy, Types, CopyTypes
  <2>3. RoomTypes' BY <2>1, <2>2 DEF SaveCopy, Copy, Types, Shape, RoomTypes
  <2>4. QueueTypes' /\ PageTypes' /\ CountTypes'
    BY <2>1 DEF SaveCopy, sockets, Types, Shape, QueueTypes, PageTypes, CountTypes
  <2>5. CopyTypes' BY <2>1 DEF SaveCopy, Types, CopyTypes
  <2> QED BY <2>3, <2>4, <2>5 DEF Types, Shape
<1> QED BY <1>1, <1>2

LEMMA HandlersLeaveCopies ==
  ASSUME NEW s \in Socket, Handle(s)
  PROVE  copies' = copies /\ restored' = restored /\ issued \subseteq issued'
<1>1. /\ \A new : AnswerWithSession(s, new) => UNCHANGED others
      /\ \A room : AnswerWithoutSession(s, room) => UNCHANGED others
      /\ \A tokens : Unanswered(tokens) => UNCHANGED others
  BY DEF AnswerWithSession, AnswerWithoutSession, Unanswered
<1>2. \A r, t : Synchronise(r, t) => UNCHANGED issued BY DEF Synchronise
<1>3. CASE CreateRoom(s) \/ JoinRoom(s)
  BY <1>1, <1>3 DEF CreateRoom, JoinRoom, Admit, others
<1>4. CASE SyncState(s) \/ Heartbeat(s)
  BY <1>1, <1>2, <1>4 DEF SyncState, Heartbeat, others
<1>5. CASE LeaveRoom(s) BY <1>1, <1>5 DEF LeaveRoom, others
<1>6. CASE Command(s) BY <1>1, <1>6 DEF Command, matchcore, others
<1>7. CASE ChatMessage(s) \/ WebRTCSignal(s)
  BY <1>1, <1>2, <1>7 DEF ChatMessage, WebRTCSignal, Resolve, matchcore, others
<1>8. CASE Refuse(s) BY <1>8 DEF Refuse, matchcore, others
<1> QED BY <1>3, <1>4, <1>5, <1>6, <1>7, <1>8, <1>5 DEF Handle

LEMMA TypesKept == ASSUME Types, [Next]_vars PROVE Types'
<1>1. ASSUME Shape', copies' = copies, issued \subseteq issued' PROVE Types'
  BY <1>1 DEF Types, CopyTypes
<1>2. CASE UNCHANGED vars
  BY <1>1, <1>2 DEF vars, sockets, matchcore, others, Types, Shape, QueueTypes, PageTypes, RoomTypes, CountTypes
<1>3. CASE \/ EnterRoom \/ Act("leave") \/ Act("command") \/ Act("sync")
           \/ Aside("heartbeat") \/ Aside("chat") \/ Aside("signal")
  <2>1. UNCHANGED <<issued, copies>>
    BY <1>3 DEF EnterRoom, Act, Aside, Send, matchcore, others
  <2> QED BY <1>1, <1>3, <2>1, PageStepTypes
<1>4. CASE GiveUp \/ (\E s \in Socket : Connect(s)) \/ LoseConnection
  <2>1. UNCHANGED <<issued, copies>>
    BY <1>4 DEF GiveUp, Connect, LoseConnection, matchcore, others
  <2> QED BY <1>1, <1>4, <2>1, ConnectionTypes
<1>5. CASE \E s \in Socket : Handle(s)
  BY <1>1, <1>5, HandleTypes, HandlersLeaveCopies
<1>6. ASSUME NEW s \in Socket, Disconnect(s) PROVE Types'
  <2>1. QueueTypes' /\ CountTypes' BY <1>6 DEF Disconnect, Types, Shape, QueueTypes, CountTypes
  <2>2. PageTypes' BY <1>6 DEF Disconnect, Types, Shape, PageTypes
  <2>3. RoomTypes'
    <3>1. CASE present' = present
      BY <1>6, <3>1 DEF Disconnect, Types, Shape, RoomTypes
    <3>2. CASE /\ session[s] # NoSession
               /\ present' = [present EXCEPT ![session[s].room] = @ \ {session[s].token}]
      <4>1. session[s].room \in RoomCode BY <3>2, SessionFields DEF Types, Shape, PageTypes
      <4> QED BY <1>6, <3>2, <4>1 DEF Disconnect, Types, Shape, RoomTypes
    <3> QED BY <1>6, <3>1, <3>2 DEF Disconnect
  <2> QED BY <1>1, <1>6, <2>1, <2>2, <2>3 DEF Disconnect, Shape
<1>7. CASE Restart
  BY <1>1, <1>7 DEF Restart, matchcore, others, Types, Shape, QueueTypes, PageTypes, RoomTypes, CountTypes
<1>8. ASSUME NEW r \in RoomCode, CloseRoom(r) PROVE Types'
  BY <1>1, <1>8 DEF CloseRoom, sockets, others, Types, Shape, QueueTypes, PageTypes, RoomTypes, CountTypes
<1> QED
  BY <1>2, <1>3, <1>4, <1>5, <1>6, <1>7, <1>8, OthersTypes DEF Next

LEMMA TypesInitially == Init => Types
BY DEF Init, Types, Shape, QueueTypes, PageTypes, RoomTypes, CopyTypes, CountTypes

\* The gateway's state, the requests and match-core's rooms keep their shape.
THEOREM GatewayTypes == Spec => []TypeOK
<1>1. Init => Types BY TypesInitially
<1>2. Types /\ [Next]_vars => Types' BY TypesKept
<1>3. Types => TypeOK
  <2>1. \A q \in Seq(Asked) : q \in Seq(Request)
    BY SeqMonotonic DEF Asked
  <2> QED BY <2>1 DEF Types, Shape, QueueTypes, PageTypes, RoomTypes, CopyTypes, CountTypes, TypeOK
<1> QED BY <1>1, <1>2, <1>3, PTL DEF Spec

-----------------------------------------------------------------------------
(* Who is shown as connected.                                              *)

Live(s) == state[s] \in {"open", "lost"}

\* A socket that is bound to another session accounts for the new one, and the
\* token of the old one counts as leaked.
LEMMA BindingAccounts ==
  ASSUME Types, PresenceAccounted, NEW s \in Socket, Live(s), NEW new \in Session,
         session' = [session EXCEPT ![s] = new], state' = state,
         leaked' = leaked \cup Replaced(s, new), restored' = restored,
         \A r \in RoomCode : \A t \in present'[r] :
           t \in present[r] \/ new = [room |-> r, token |-> t]
  PROVE  PresenceAccounted'
<1> SUFFICES ASSUME NEW r \in RoomCode, NEW t \in present'[r], t \notin leaked',
                    [room |-> r, token |-> t] \notin restored'
             PROVE  \E x \in Socket : Live(x)' /\ session'[x] = [room |-> r, token |-> t]
  BY DEF PresenceAccounted, Live
<1>1. session \in [Socket -> Session \cup {NoSession}] BY DEF Types, Shape, PageTypes
<1>2. CASE new = [room |-> r, token |-> t] BY <1>1, <1>2 DEF Live
<1>3. CASE new # [room |-> r, token |-> t]
  <2>1. PICK x \in Socket : Live(x) /\ session[x] = [room |-> r, token |-> t]
    BY <1>3 DEF PresenceAccounted, Live
  <2>2. x # s
    <3> SUFFICES ASSUME x = s PROVE FALSE OBVIOUS
    <3>1. session[s] = [room |-> r, token |-> t] /\ session[s].token = t BY <2>1
    <3>2. t \in present[r] BY <1>3
    <3>3. t \in Token BY <3>2 DEF Types, Shape, RoomTypes
    <3>4. session[s] # NoSession BY <3>1, <3>3, SessionFields
    <3> QED BY <1>3, <3>1, <3>4 DEF Replaced
  <2> QED BY <1>1, <2>1, <2>2 DEF Live
<1> QED BY <1>2, <1>3

\* A step that takes no session from a live socket accounts for everybody if those
\* it marks as present are leaked or restored.
LEMMA KeepingAccounts ==
  ASSUME PresenceAccounted, leaked \subseteq leaked', restored \subseteq restored',
         \A x \in Socket : Live(x) /\ session[x] # NoSession =>
                             Live(x)' /\ session'[x] = session[x],
         NoSession \notin Session, present \in [RoomCode -> SUBSET Token],
         \A r \in RoomCode : \A t \in present'[r] :
           t \in present[r] \cup leaked' \/ [room |-> r, token |-> t] \in restored'
  PROVE  PresenceAccounted'
<1> SUFFICES ASSUME NEW r \in RoomCode, NEW t \in present'[r], t \notin leaked',
                    [room |-> r, token |-> t] \notin restored'
             PROVE  \E x \in Socket : Live(x)' /\ session'[x] = [room |-> r, token |-> t]
  BY DEF PresenceAccounted, Live
<1>1. t \in present[r] /\ t \in Token OBVIOUS
<1>2. PICK x \in Socket : Live(x) /\ session[x] = [room |-> r, token |-> t]
  BY <1>1 DEF PresenceAccounted, Live
<1>3. session[x] # NoSession BY <1>1, <1>2 DEF Session
<1> QED BY <1>2, <1>3

\* The rooms that a synchronising session changes.
LEMMA SynchroniseMarks ==
  ASSUME Types, NEW r \in RoomCode, NEW t \in Token, Synchronise(r, t)
  PROVE  \A x \in RoomCode : present'[x] \subseteq
           IF x = r /\ t \in members[r] THEN present[x] \cup {t} ELSE present[x]
BY DEF Synchronise, Types, Shape, RoomTypes

\* What each handler does to the sockets and to match-core accounts for those it
\* leaves present.
LEMMA HandlersAccount ==
  ASSUME Types, PresenceAccounted, NEW s \in Socket, Handle(s)
  PROVE  PresenceAccounted'
<1> DEFINE asked == Req(s).session
<1>0. restored' = restored BY HandlersLeaveCopies
<1>1. \A kind : Handles(s, kind) =>
        /\ Live(s) /\ Req(s) \in Asked /\ Req(s).kind = kind
        /\ kind \notin {"create", "join"} =>
             asked \in Session /\ asked.room \in RoomCode /\ asked.token \in Token
             /\ asked = [room |-> asked.room, token |-> asked.token]
             /\ Req(s).room = asked.room
        /\ kind = "join" => Req(s).room \in RoomCode
  <2> TAKE kind
  <2> HAVE Handles(s, kind)
  <2>1. Live(s) /\ Req(s) \in Asked /\ Req(s).kind = kind
    BY HandledQueue DEF Handles, Live, Types, Shape
  <2>2. kind \notin {"create", "join"} => asked \in Session /\ Req(s).room = asked.room
    BY <2>1, SessionFields DEF Asked, Request
  <2>3. kind = "join" => Req(s).room \in RoomCode BY <2>1 DEF Asked
  <2> QED BY <2>1, <2>2, <2>3, SessionFields
<1> HIDE DEF asked
<1> USE SessionFields
<1>2. NoSession \notin Session /\ present \in [RoomCode -> SUBSET Token]
  BY DEF Types, Shape, RoomTypes
<1>3. ASSUME NEW r \in RoomCode, NEW t \in Token, Admit(s, r, t), Live(s)
      PROVE  PresenceAccounted'
  <2>1. \A x \in RoomCode : present'[x] = IF x = r THEN present[x] \cup {t} ELSE present[x]
    BY <1>2, <1>3 DEF Admit
  <2>2. CASE AnswerWithSession(s, [room |-> r, token |-> t])
    BY <1>0, <1>3, <2>1, <2>2, BindingAccounts DEF AnswerWithSession
  <2>3. CASE Unanswered({t})
    BY <1>0, <1>2, <2>1, <2>3, KeepingAccounts DEF Unanswered, sockets, Live
  <2> QED BY <1>3, <2>2, <2>3 DEF Admit
<1>4. CASE CreateRoom(s) BY <1>1, <1>3, <1>4 DEF CreateRoom
<1>5. CASE JoinRoom(s) BY <1>1, <1>3, <1>5 DEF JoinRoom
<1>6. CASE SyncState(s)
  <2>1. /\ Live(s) /\ asked \in Session /\ asked.room \in RoomCode /\ asked.token \in Token
        /\ asked = [room |-> asked.room, token |-> asked.token]
        /\ Synchronise(asked.room, asked.token)
    BY <1>1, <1>6 DEF SyncState, asked
  <2>2. \A x \in RoomCode : present'[x] \subseteq
          IF x = asked.room /\ asked.token \in members[asked.room]
          THEN present[x] \cup {asked.token} ELSE present[x]
    BY <2>1, SynchroniseMarks
  <2>3. CASE AnswerWithSession(s, asked)
    BY <1>0, <2>1, <2>2, <2>3, BindingAccounts DEF AnswerWithSession
  <2>4. CASE asked.token \notin members[asked.room] /\ AnswerWithoutSession(s, asked.room)
    BY <1>0, <1>2, <2>2, <2>4, KeepingAccounts DEF AnswerWithoutSession, Live
  <2>5. CASE Unanswered(IF asked.token \in members[asked.room] THEN {asked.token} ELSE {})
    BY <1>0, <1>2, <2>2, <2>5, KeepingAccounts DEF Unanswered, sockets, Live
  <2> QED BY <1>6, <2>3, <2>4, <2>5 DEF SyncState, asked
<1>7. CASE Heartbeat(s)
  <2>1. /\ Live(s) /\ asked \in Session /\ asked.room \in RoomCode /\ asked.token \in Token
        /\ asked = [room |-> asked.room, token |-> asked.token]
        /\ Synchronise(asked.room, asked.token)
    BY <1>1, <1>7 DEF Heartbeat, asked
  <2>2. \A x \in RoomCode : present'[x] \subseteq
          IF x = asked.room /\ asked.token \in members[asked.room]
          THEN present[x] \cup {asked.token} ELSE present[x]
    BY <2>1, SynchroniseMarks
  <2>3. CASE session' = [session EXCEPT ![s] = asked] /\ state' = state
             /\ leaked' = leaked \cup Replaced(s, asked)
    BY <1>0, <2>1, <2>2, <2>3, BindingAccounts
  <2>4. CASE Unanswered(IF asked.token \in members[asked.room] THEN {asked.token} ELSE {})
    BY <1>0, <1>2, <2>2, <2>4, KeepingAccounts DEF Unanswered, sockets, Live
  <2> QED BY <1>7, <2>3, <2>4 DEF Heartbeat, asked
<1>8. CASE Command(s)
  <2>1. AnswerWithoutSession(s, Req(s).room) /\ UNCHANGED matchcore BY <1>8 DEF Command
  <2> QED BY <1>0, <1>2, <2>1, KeepingAccounts DEF AnswerWithoutSession, matchcore, Live
<1>9. CASE Refuse(s)
  <2>1. UNCHANGED <<state, session, present, leaked>>
    BY <1>9 DEF Refuse, sockets, matchcore, history
  <2> QED BY <1>0, <1>2, <2>1, KeepingAccounts DEF Live
<1>10. CASE LeaveRoom(s)
  <2>1. /\ Live(s) /\ asked \in Session /\ asked.room \in RoomCode /\ asked.token \in Token
        /\ asked = [room |-> asked.room, token |-> asked.token]
    BY <1>1, <1>10 DEF LeaveRoom, asked
  <2>2. \A x \in RoomCode : present'[x] \subseteq present[x]
    BY <1>2, <1>10 DEF LeaveRoom
  <2>3. CASE Unanswered({})
    BY <1>0, <1>2, <2>2, <2>3, KeepingAccounts DEF Unanswered, sockets, Live
  <2>4. CASE /\ session' = [session EXCEPT ![s] = NoSession] /\ state' = state
             /\ leaked' = leaked \cup Replaced(s, asked)
                            \cup (present'[asked.room] \cap {asked.token})
    <3> SUFFICES ASSUME NEW r \in RoomCode, NEW t \in present'[r], t \notin leaked',
                    [room |-> r, token |-> t] \notin restored'
                 PROVE  \E x \in Socket : Live(x)' /\ session'[x] = [room |-> r, token |-> t]
      BY DEF PresenceAccounted, Live
    <3>1. t \in present[r] /\ t \in Token BY <1>2, <2>2
    <3>2. t \notin leaked /\ t \notin Replaced(s, asked)
          /\ ~(r = asked.room /\ t = asked.token)
      BY <2>4
    <3>3. PICK x \in Socket : Live(x) /\ session[x] = [room |-> r, token |-> t]
      BY <1>0, <3>1, <3>2 DEF PresenceAccounted, Live
    <3>4. session[x] # NoSession /\ session[x].token = t /\ session[x].room = r
      BY <1>2, <3>1, <3>3
    <3>5. x # s BY <3>2, <3>4 DEF Replaced
    <3> QED BY <2>4, <3>3, <3>5 DEF Types, Shape, PageTypes, Live
  <2> QED BY <1>10, <2>3, <2>4 DEF LeaveRoom, asked
<1>11. ASSUME NEW tokens \in BOOLEAN, NEW joins \in BOOLEAN, Resolve(s, tokens, joins),
              Live(s), asked \in Session, Req(s).room = asked.room
       PROVE  PresenceAccounted'
  <2> DEFINE r == asked.room
             own == session[s] # NoSession /\ session[s].room = r
             used == IF own THEN session[s] ELSE asked
             known == used.token \in members[r] /\ (own \/ tokens)
  <2>1. /\ used \in Session /\ used.room = r /\ r \in RoomCode /\ used.token \in Token
        /\ used = [room |-> r, token |-> used.token]
    BY <1>11 DEF Types, Shape, PageTypes
  <2>2. /\ own \/ known
        /\ IF own \/ tokens THEN Synchronise(r, used.token) ELSE UNCHANGED matchcore
        /\ \/ /\ session' = [session EXCEPT ![s] = used] /\ state' = state
              /\ leaked' = leaked \cup Replaced(s, used)
           \/ Unanswered(IF known THEN {used.token} ELSE {})
    BY <1>11 DEF Resolve, asked
  <2>3. \A x \in RoomCode : present'[x] \subseteq
          IF x = r /\ known THEN present[x] \cup {used.token} ELSE present[x]
    <3>1. Synchronise(r, used.token) BY <2>2
    <3> HIDE DEF used
    <3> QED BY <2>1, <2>2, <3>1, SynchroniseMarks
  <2> HIDE DEF used, known, r
  <2>4. CASE /\ session' = [session EXCEPT ![s] = used] /\ state' = state
             /\ leaked' = leaked \cup Replaced(s, used)
    BY <1>0, <1>11, <2>1, <2>3, <2>4, BindingAccounts
  <2>5. CASE Unanswered(IF known THEN {used.token} ELSE {})
    BY <1>0, <1>2, <2>3, <2>5, KeepingAccounts DEF Unanswered, sockets, Live
  <2> QED BY <2>2, <2>4, <2>5
<1>12. CASE ChatMessage(s) \/ WebRTCSignal(s)
  <2>1. PICK kind \in {"chat", "signal"} : Handles(s, kind)
    BY <1>12 DEF ChatMessage, WebRTCSignal
  <2>2. Live(s) /\ asked \in Session /\ Req(s).room = asked.room BY <1>1, <2>1
  <2>3. Resolve(s, TRUE, TRUE) \/ Resolve(s, FALSE, FALSE)
    BY <1>12 DEF ChatMessage, WebRTCSignal
  <2> QED BY <1>11, <2>2, <2>3
<1> QED BY <1>4, <1>5, <1>6, <1>7, <1>8, <1>9, <1>10, <1>12 DEF Handle

LEMMA AccountsKept ==
  ASSUME Types, PresenceAccounted, [Next]_vars
  PROVE  PresenceAccounted'
<1>1. NoSession \notin Session /\ present \in [RoomCode -> SUBSET Token]
  BY SessionFields DEF Types, Shape, RoomTypes
<1>2. ASSUME UNCHANGED <<present, leaked, session, restored>>,
             \A x \in Socket : Live(x) => Live(x)'
      PROVE  PresenceAccounted'
  BY <1>1, <1>2, KeepingAccounts
<1>3. CASE UNCHANGED vars
  BY <1>2, <1>3 DEF vars, sockets, matchcore, history, others, Live
<1>4. ASSUME NEW kind, NEW room, Send(kind, room) PROVE PresenceAccounted'
  BY <1>2, <1>4 DEF Send, sockets, matchcore, history, others, Live
<1>5. CASE EnterRoom BY <1>4, <1>5 DEF EnterRoom
<1>6. ASSUME NEW kind, Act(kind) \/ Aside(kind) PROVE PresenceAccounted'
  BY <1>4, <1>6 DEF Act, Aside
<1>7. CASE GiveUp
  BY <1>2, <1>7 DEF GiveUp, sockets, matchcore, history, others, Live
<1>8. ASSUME NEW s \in Socket, Connect(s) PROVE PresenceAccounted'
  BY <1>2, <1>8 DEF Connect, matchcore, history, others, Live, Types, Shape, PageTypes
<1>9. CASE LoseConnection
  BY <1>2, <1>9 DEF LoseConnection, matchcore, others, Live, Types, Shape, PageTypes
<1>10. ASSUME NEW s \in Socket, Disconnect(s) PROVE PresenceAccounted'
  <2> SUFFICES ASSUME NEW r \in RoomCode, NEW t \in present'[r], t \notin leaked',
                    [room |-> r, token |-> t] \notin restored'
               PROVE  \E x \in Socket : Live(x)' /\ session'[x] = [room |-> r, token |-> t]
    BY DEF PresenceAccounted, Live
  <2>1. t \in present[r] /\ t \in Token /\ t \notin leaked
    <3>1. session[s] # NoSession => session[s].room \in RoomCode
      BY SessionFields DEF Types, Shape, PageTypes
    <3> QED BY <1>1, <1>10, <3>1 DEF Disconnect
  <2>0. [room |-> r, token |-> t] \notin restored
    <3> SUFFICES ASSUME [room |-> r, token |-> t] \in restored PROVE FALSE OBVIOUS
    <3>1. session[s] # NoSession /\ [room |-> r, token |-> t] = session[s]
          /\ present' = [present EXCEPT ![session[s].room] = @ \ {session[s].token}]
      BY <1>10 DEF Disconnect
    <3>2. session[s].room = r /\ session[s].token = t BY <3>1
    <3> QED BY <1>1, <3>1, <3>2
  <2>2. PICK x \in Socket : Live(x) /\ session[x] = [room |-> r, token |-> t]
    BY <2>0, <2>1 DEF PresenceAccounted, Live
  <2>3. session[x] # NoSession /\ session[x].token = t /\ session[x].room = r
    BY <2>1, <2>2, SessionFields
  <2>4. x # s
    <3> SUFFICES ASSUME x = s PROVE FALSE OBVIOUS
    <3>1. CASE /\ session[s] # NoSession
               /\ present' = [present EXCEPT ![session[s].room] = @ \ {session[s].token}]
      BY <1>1, <2>3, <3>1
    <3>2. CASE leaked' = leaked \cup {session[s].token}
      BY <2>3, <3>2
    <3> QED BY <1>10, <2>3, <3>1, <3>2 DEF Disconnect
  <2>5. state'[x] = state[x] /\ session'[x] = session[x]
    BY <1>10, <2>4 DEF Disconnect, Types, Shape, PageTypes
  <2> QED BY <2>2, <2>5 DEF Live
<1>11. CASE Restart
  <2>1. UNCHANGED <<present, restored>> BY <1>11 DEF Restart, matchcore, others
  <2>2. leaked' = leaked \cup {session[s].token : s \in {x \in Socket : session[x] # NoSession}}
    BY <1>11 DEF Restart
  <2>3. \A r \in RoomCode : \A t \in present[r] :
          t \in leaked' \/ [room |-> r, token |-> t] \in restored
    <3> SUFFICES ASSUME NEW r \in RoomCode, NEW t \in present[r], t \notin leaked,
                        [room |-> r, token |-> t] \notin restored
                 PROVE  t \in leaked'
      BY <2>2
    <3>1. PICK x \in Socket : session[x] = [room |-> r, token |-> t]
      BY DEF PresenceAccounted
    <3>2. t \in Token BY <1>1
    <3>3. session[x] # NoSession /\ session[x].token = t BY <3>1, <3>2, SessionFields
    <3> QED BY <2>2, <3>3
  <2> QED BY <2>1, <2>3 DEF PresenceAccounted
<1>12. ASSUME NEW r \in RoomCode, CloseRoom(r) PROVE PresenceAccounted'
  <2>1. \A x \in RoomCode : present'[x] \subseteq present[x]
    BY <1>1, <1>12 DEF CloseRoom
  <2> QED BY <1>1, <1>12, <2>1, KeepingAccounts DEF CloseRoom, sockets, history, others, Live
<1>13. ASSUME NEW o \in Other, NEW r \in RoomCode, LoadCopy(o, r) PROVE PresenceAccounted'
  BY <1>2, <1>13 DEF LoadCopy, sockets, matchcore, history, Live
<1>14. ASSUME NEW o \in Other, SaveCopy(o) PROVE PresenceAccounted'
  <2> DEFINE c == copies[o]
  <2>1. c \in Copy BY <1>14 DEF SaveCopy, Types, CopyTypes
  <2>2. /\ present' = [present EXCEPT ![c.room] = c.present]
        /\ restored' = restored \cup
             {[room |-> c.room, token |-> t] : t \in c.present \ present[c.room]}
        /\ UNCHANGED <<state, session, leaked>>
    BY <1>14 DEF SaveCopy, sockets, history
  <2> HIDE DEF c
  <2>3. \A r \in RoomCode : \A t \in present'[r] :
          t \in present[r] \/ [room |-> r, token |-> t] \in restored'
    BY <1>1, <2>1, <2>2 DEF Copy
  <2> QED BY <1>1, <2>2, <2>3, KeepingAccounts DEF Live
<1> QED
  BY <1>3, <1>5, <1>6, <1>7, <1>8, <1>9, <1>10, <1>11, <1>12, <1>13, <1>14, HandlersAccount
  DEF Next

\* Whoever match-core shows as connected is bound to a socket, or is a trace that
\* the gateway is known to have lost, or was restored by a copy that match-core
\* loaded before and saved after.
THEOREM EverybodyPresentIsAccounted == Spec => []PresenceAccounted
<1>1. Init => Types /\ PresenceAccounted
  BY TypesInitially DEF Init, PresenceAccounted
<1>2. Types /\ PresenceAccounted /\ [Next]_vars => Types' /\ PresenceAccounted'
  BY TypesKept, AccountsKept
<1> QED BY <1>1, <1>2, PTL DEF Spec

-----------------------------------------------------------------------------
(* What the page hears.                                                    *)

Awaits(q) == q.awaited /\ q.kind \in Action

\* The requests under way on the page's connection are those of its session, the
\* one it waits for is the last of its actions, and the answer gives it another
\* session only if nothing else is under way behind it.
QueueOfPage(q) ==
  /\ page # NoSession => \A i \in DOMAIN q : q[i].session = page
  /\ \A i, j \in DOMAIN q : Awaits(q[i]) /\ q[j].kind \in Action => j <= i
  /\ \A i, j \in DOMAIN q : q[i].kind = "leave" /\ q[j].kind = "connect" => j <= i
  /\ \A i \in DOMAIN q : q[i].kind \in {"sync", "connect"} /\ q[i].awaited => q[i].session = page
  /\ \A i \in DOMAIN q : q[i].kind \in {"create", "join"} /\ q[i].awaited =>
                           page = NoSession /\ i = Len(q)

OwnRequests == link # NoSocket => QueueOfPage(queue[link])

LEMMA SendKeepsRequests ==
  ASSUME Types, OwnRequests, NEW kind \in Kind \ {"connect"}, NEW room, Send(kind, room),
         kind \in Action => ~Waits,
         kind \in {"create", "join"} <=> page = NoSession
  PROVE  OwnRequests'
<1> DEFINE q == queue[link]
           e == [kind |-> kind, session |-> page, room |-> room, awaited |-> TRUE]
           n == Len(q)
<1>1. /\ link \in Socket /\ q \in Seq(Asked) /\ n \in Nat /\ DOMAIN q = 1 .. n
      /\ queue'[link] = Append(q, e) /\ UNCHANGED <<page, link>>
  BY LenProperties DEF Send, Types, Shape, PageTypes, QueueTypes
<1>2. /\ DOMAIN Append(q, e) = 1 .. n + 1 /\ Len(Append(q, e)) = n + 1
      /\ Append(q, e)[n + 1] = e
      /\ \A i \in 1 .. n : Append(q, e)[i] = q[i]
  <2>1. q \in Seq(Asked \cup {e}) /\ e \in Asked \cup {e}
    BY <1>1, SeqMonotonic
  <2> HIDE DEF q, e
  <2> QED BY <1>1, <2>1, AppendProperties, LenProperties
<1>3. e.kind = kind /\ e.session = page /\ e.awaited = TRUE OBVIOUS
<1>4. Waits <=> \E i \in 1 .. n : Awaits(q[i])
  BY <1>1 DEF Waits, Awaits, Send
<1>5. QueueOfPage(q) BY <1>1 DEF OwnRequests, Send
<1> HIDE DEF q, e, n
<1> DEFINE w == Append(q, e)
<1>6. \A i \in DOMAIN w : \/ i \in 1 .. n /\ w[i] = q[i] /\ i \in DOMAIN q
                          \/ i = n + 1 /\ w[i] = e
  BY <1>1, <1>2
<1>7. Len(w) = n + 1 /\ Len(q) = n BY <1>2 DEF n
<1>8. Awaits(e) => ~Waits BY <1>3 DEF Awaits
<1> HIDE DEF w
<1>9. QueueOfPage(w)
  <2>1. page # NoSession => \A i \in DOMAIN w : w[i].session = page
    BY <1>3, <1>5, <1>6 DEF QueueOfPage
  <2>2. \A i, j \in DOMAIN w : Awaits(w[i]) /\ w[j].kind \in Action => j <= i
    <3> SUFFICES ASSUME NEW i \in DOMAIN w, NEW j \in DOMAIN w, Awaits(w[i]), w[j].kind \in Action
                 PROVE  j <= i
      OBVIOUS
    <3>1. CASE i = n + 1 BY <1>1, <1>6, <3>1 DEF n
    <3>2. CASE i \in 1 .. n /\ w[i] = q[i] /\ i \in DOMAIN q
      <4>1. Waits BY <1>4, <3>2
      <4>2. w[j] # e BY <1>3, <4>1
      <4> QED BY <1>5, <1>6, <3>2, <4>2 DEF QueueOfPage
    <3> QED BY <1>6, <3>1, <3>2
  <2>3. \A i, j \in DOMAIN w : w[i].kind = "leave" /\ w[j].kind = "connect" => j <= i
    <3> SUFFICES ASSUME NEW i \in DOMAIN w, NEW j \in DOMAIN w,
                        w[i].kind = "leave", w[j].kind = "connect"
                 PROVE  j <= i
      OBVIOUS
    <3>1. j \in 1 .. n /\ w[j] = q[j] /\ j \in DOMAIN q BY <1>3, <1>6
    <3>2. CASE i = n + 1 BY <1>1, <1>6, <3>1, <3>2 DEF n
    <3>3. CASE i \in 1 .. n /\ w[i] = q[i] /\ i \in DOMAIN q
      BY <1>5, <3>1, <3>3 DEF QueueOfPage
    <3> QED BY <1>6, <3>2, <3>3
  <2>4. \A i \in DOMAIN w : w[i].kind \in {"sync", "connect"} /\ w[i].awaited =>
                              w[i].session = page
    BY <1>3, <1>5, <1>6 DEF QueueOfPage
  <2>5. \A i \in DOMAIN w : w[i].kind \in {"create", "join"} /\ w[i].awaited =>
                              page = NoSession /\ i = Len(w)
    <3> SUFFICES ASSUME NEW i \in DOMAIN w, w[i].kind \in {"create", "join"}, w[i].awaited
                 PROVE  page = NoSession /\ i = Len(w)
      OBVIOUS
    <3>1. CASE i = n + 1 /\ w[i] = e BY <1>3, <1>7, <3>1
    <3>2. CASE i \in 1 .. n /\ w[i] = q[i] /\ i \in DOMAIN q
      <4>1. Awaits(q[i]) /\ page = NoSession
        BY <1>5, <3>2 DEF Awaits, Action, QueueOfPage
      <4>2. Waits BY <1>4, <3>2, <4>1
      <4>3. kind \in {"heartbeat", "chat", "signal"} BY <4>2 DEF Kind
      <4> QED BY <4>1, <4>2, <4>3
    <3> QED BY <1>6, <3>1, <3>2
  <2> QED BY <2>1, <2>2, <2>3, <2>4, <2>5 DEF QueueOfPage
<1> QED BY <1>1, <1>9, ZenonT(60) DEF OwnRequests, QueueOfPage, w

\* Once the page has what the request at the head of its queue gave it, the rest of
\* its requests are in order.
LEMMA HandledKeepsRequests ==
  ASSUME Types, OwnRequests, NEW s \in Socket, NEW kind, Handles(s, kind), link' = link,
         page' = page
         \/ /\ link = s /\ Req(s).awaited
            /\ \/ kind \in {"create", "join"}
               \/ kind \in {"sync", "connect"} /\ page' = Req(s).session
               \/ kind = "leave" /\ page' = NoSession
  PROVE  OwnRequests'
<1> SUFFICES ASSUME link # NoSocket PROVE QueueOfPage(queue[link])'
  BY DEF OwnRequests
<1>1. /\ Req(s) = queue[s][1] /\ 1 \in DOMAIN queue[s] /\ Req(s).kind = kind
      /\ Len(queue'[s]) = Len(queue[s]) - 1
      /\ \A i \in DOMAIN queue'[s] : i + 1 \in DOMAIN queue[s] /\ queue'[s][i] = queue[s][i + 1]
      /\ \A x \in Socket : x # s => queue'[x] = queue[x]
  BY HandledQueue DEF Types, Shape
<1>2. QueueOfPage(queue[link]) /\ link \in Socket BY DEF OwnRequests, Types, Shape, PageTypes
<1>3. CASE link # s
  <2>1. page' = page /\ queue'[link] = queue[link] BY <1>1, <1>2, <1>3
  <2> QED BY <1>2, <2>1 DEF QueueOfPage
<1>4. CASE link = s
  <2> DEFINE q == queue[s]
             w == queue'[s]
  <2>1. /\ q \in Seq(Asked) /\ Len(q) \in Nat /\ DOMAIN q = 1 .. Len(q)
        /\ DOMAIN w = 1 .. Len(w) /\ Len(w) = Len(q) - 1 /\ Len(w) \in Nat
    <3>1. w \in Seq(Asked) BY HandledQueue DEF Types, Shape
    <3>2. q \in Seq(Asked) BY DEF Types, Shape, QueueTypes
    <3> HIDE DEF q, w
    <3>3. Len(q) \in Nat /\ DOMAIN q = 1 .. Len(q) BY <3>2, LenProperties
    <3>4. Len(w) \in Nat /\ DOMAIN w = 1 .. Len(w) BY <3>1, LenProperties
    <3>5. Len(w) = Len(q) - 1 BY <1>1 DEF q, w
    <3> QED BY <3>2, <3>3, <3>4, <3>5
  <2>2. QueueOfPage(q) BY <1>2, <1>4
  <2>3. /\ q[1].kind = kind /\ 1 \in DOMAIN q /\ (Req(s).awaited => q[1].awaited)
        /\ Req(s).session = q[1].session
        /\ \A i \in DOMAIN w : i + 1 \in DOMAIN q /\ w[i] = q[i + 1] /\ i + 1 # 1 /\ i \in Nat
    BY <1>1, <2>1
  <2> HIDE DEF q, w
  <2>4. \A i, j \in DOMAIN w : w[i].kind = "leave" /\ w[j].kind = "connect" => j <= i
    <3> SUFFICES ASSUME NEW i \in DOMAIN w, NEW j \in DOMAIN w,
                        w[i].kind = "leave", w[j].kind = "connect"
                 PROVE  j <= i
      OBVIOUS
    <3>1. j + 1 <= i + 1 BY <2>2, <2>3 DEF QueueOfPage
    <3> QED BY <2>3, <3>1
  <2>5. \A i, j \in DOMAIN w : Awaits(w[i]) /\ w[j].kind \in Action => j <= i
    <3> SUFFICES ASSUME NEW i \in DOMAIN w, NEW j \in DOMAIN w, Awaits(w[i]), w[j].kind \in Action
                 PROVE  j <= i
      OBVIOUS
    <3>1. j + 1 <= i + 1 BY <2>2, <2>3 DEF QueueOfPage
    <3> QED BY <2>3, <3>1
  <2>6. CASE page' = page
    <3>1. \A i \in DOMAIN w : w[i].kind \in {"create", "join"} /\ w[i].awaited =>
                                page = NoSession /\ i = Len(w)
      <4> SUFFICES ASSUME NEW i \in DOMAIN w, w[i].kind \in {"create", "join"}, w[i].awaited
                   PROVE  page = NoSession /\ i = Len(w)
        OBVIOUS
      <4>1. page = NoSession /\ i + 1 = Len(q) BY <2>2, <2>3 DEF QueueOfPage
      <4> QED BY <2>1, <2>3, <4>1
    <3>2. \A i \in DOMAIN w : /\ page # NoSession => w[i].session = page
                              /\ w[i].kind \in {"sync", "connect"} /\ w[i].awaited =>
                                   w[i].session = page
      BY <2>2, <2>3 DEF QueueOfPage
    <3> QED BY <1>4, <2>4, <2>5, <2>6, <3>1, <3>2 DEF QueueOfPage, w
  <2>7. CASE kind \in {"create", "join"} /\ q[1].awaited
    <3>1. Len(q) = 1 BY <2>2, <2>3, <2>7 DEF QueueOfPage
    <3>2. DOMAIN w = {} BY <2>1, <3>1
    <3> QED BY <1>4, <3>2 DEF QueueOfPage, w
  <2>8. CASE kind \in {"sync", "connect"} /\ q[1].awaited /\ page' = q[1].session
    <3>1. page' = page BY <2>2, <2>3, <2>8 DEF QueueOfPage
    <3> QED BY <2>6, <3>1
  <2>9. CASE kind = "leave" /\ q[1].awaited /\ page' = NoSession
    <3>1. Awaits(q[1]) BY <2>3, <2>9 DEF Awaits, Action
    <3>2. \A i \in DOMAIN w : ~Awaits(w[i])
      <4> SUFFICES ASSUME NEW i \in DOMAIN w, Awaits(w[i]) PROVE FALSE
        OBVIOUS
      <4>1. i + 1 <= 1 /\ i \in 1 .. Len(w)
        BY <2>1, <2>2, <2>3, <3>1 DEF QueueOfPage, Awaits
      <4> QED BY <2>1, <4>1
    <3>3. \A i \in DOMAIN w : w[i].kind # "connect"
      <4> SUFFICES ASSUME NEW i \in DOMAIN w, w[i].kind = "connect" PROVE FALSE
        OBVIOUS
      <4>1. i + 1 <= 1 /\ i \in 1 .. Len(w) BY <2>1, <2>2, <2>3, <2>9 DEF QueueOfPage
      <4> QED BY <2>1, <4>1
    <3>4. \A i \in DOMAIN w : w[i].awaited => w[i].kind \notin {"create", "join", "sync", "connect"}
      BY <3>2, <3>3 DEF Awaits, Action
    <3> QED BY <1>4, <2>4, <2>5, <2>9, <3>4 DEF QueueOfPage, w
  <2> QED BY <1>4, <2>3, <2>6, <2>7, <2>8, <2>9
<1> QED BY <1>3, <1>4

\* What the handler of one request does to the page and to the channels.
LEMMA HandlersKeepHearing ==
  ASSUME Types, OwnRequests, ConfirmedPageHears, NEW s \in Socket, Handle(s)
  PROVE  OwnRequests' /\ ConfirmedPageHears'
<1> USE SessionFields DEF Heard
<1>1. /\ session \in [Socket -> Session \cup {NoSession}]
      /\ channels \in [Socket -> SUBSET RoomCode] /\ link \in Socket \cup {NoSocket}
  BY DEF Types, Shape, PageTypes
<1>2. \A kind : Handles(s, kind) =>
        /\ Req(s) \in Asked /\ Req(s).kind = kind
        /\ kind \notin {"create", "join"} =>
             Req(s).session \in Session /\ Req(s).room = Req(s).session.room
             /\ Req(s).session.room \in RoomCode
        /\ link = s /\ page # NoSession => Req(s).session = page
  <2> TAKE kind
  <2> HAVE Handles(s, kind)
  <2>1. Req(s) \in Asked /\ Req(s).kind = kind /\ Req(s) = queue[s][1] /\ 1 \in DOMAIN queue[s]
    BY HandledQueue DEF Types, Shape
  <2>2. kind \notin {"create", "join"} =>
          Req(s).session \in Session /\ Req(s).room = Req(s).session.room
    BY <2>1 DEF Asked, Request
  <2>3. link = s /\ page # NoSession => Req(s).session = page
    BY <2>1 DEF OwnRequests, QueueOfPage, Types, Shape, PageTypes
  <2> QED BY <2>1, <2>2, <2>3
\* A step that leaves the page, what is confirmed and the channels of its room alone.
<1>3. ASSUME UNCHANGED <<page, link, confirmed>>,
             link # NoSocket /\ page # NoSession => channels[link] \cap {page.room} \subseteq channels'[link]
      PROVE  ConfirmedPageHears'
  BY <1>3 DEF ConfirmedPageHears
<1>4. ASSUME NEW new \in Session, AnswerWithSession(s, new) PROVE ConfirmedPageHears'
  BY <1>1, <1>4 DEF AnswerWithSession, ConfirmedPageHears
<1>5. ASSUME NEW room, AnswerWithoutSession(s, room) PROVE ConfirmedPageHears'
  BY <1>1, <1>5 DEF AnswerWithoutSession, ConfirmedPageHears
<1>6. ASSUME NEW tokens, Unanswered(tokens) PROVE ConfirmedPageHears'
  BY <1>3, <1>6 DEF Unanswered, sockets
<1>7. ASSUME NEW kind, Handles(s, kind), UNCHANGED <<page, link>> PROVE OwnRequests'
  BY <1>7, HandledKeepsRequests
<1>8. ASSUME NEW r \in RoomCode, NEW t \in Token, NEW kind \in {"create", "join"},
             Handles(s, kind), Admit(s, r, t)
      PROVE  OwnRequests' /\ ConfirmedPageHears'
  <2>1. CASE AnswerWithSession(s, [room |-> r, token |-> t])
    <3>1. OwnRequests' BY <1>8, <2>1, HandledKeepsRequests DEF AnswerWithSession
    <3> QED BY <1>4, <2>1, <3>1
  <2>2. CASE Unanswered({t})
    BY <1>6, <1>7, <1>8, <2>2 DEF Unanswered
  <2> QED BY <1>8, <2>1, <2>2 DEF Admit
<1>9. CASE CreateRoom(s) BY <1>8, <1>9 DEF CreateRoom
<1>10. CASE JoinRoom(s)
  <2>1. Req(s).room \in RoomCode BY <1>2, <1>10 DEF JoinRoom, Asked
  <2> QED BY <1>8, <1>10, <2>1 DEF JoinRoom
<1>11. CASE LeaveRoom(s)
  <2> DEFINE r == Req(s).session.room
  <2>1. Handles(s, "leave") BY <1>11 DEF LeaveRoom
  <2>2. CASE \E tokens : Unanswered(tokens)
    BY <1>6, <1>7, <2>1, <2>2 DEF Unanswered
  <2>3. CASE /\ channels' = [channels EXCEPT ![s] = (@ \ {r}) \cup {r}]
             /\ confirmed' = IF s = link THEN r ELSE confirmed
             /\ page' = IF Heard(s) THEN NoSession ELSE page
             /\ link' = link
    <3>1. OwnRequests' BY <2>1, <2>3, HandledKeepsRequests
    <3>2. ConfirmedPageHears' BY <1>1, <2>3 DEF ConfirmedPageHears
    <3> QED BY <3>1, <3>2
  <2> QED BY <1>11, <2>2, <2>3 DEF LeaveRoom
<1>12. CASE SyncState(s)
  <2> DEFINE asked == Req(s).session
  <2>1. PICK kind \in {"sync", "connect"} : Handles(s, kind) BY <1>12 DEF SyncState
  <2>2. CASE AnswerWithSession(s, asked)
    <3>1. OwnRequests' BY <2>1, <2>2, HandledKeepsRequests DEF AnswerWithSession
    <3> QED BY <1>2, <1>4, <2>1, <2>2, <3>1
  <2>3. CASE AnswerWithoutSession(s, asked.room)
    BY <1>5, <1>7, <2>1, <2>3 DEF AnswerWithoutSession
  <2>4. CASE \E tokens : Unanswered(tokens)
    BY <1>6, <1>7, <2>1, <2>4 DEF Unanswered
  <2> QED BY <1>12, <2>2, <2>3, <2>4 DEF SyncState
<1>13. CASE Heartbeat(s)
  <2> DEFINE asked == Req(s).session
  <2>1. Handles(s, "heartbeat") BY <1>13 DEF Heartbeat
  <2>2. CASE \E tokens : Unanswered(tokens)
    BY <1>6, <1>7, <2>1, <2>2 DEF Unanswered
  <2>3. CASE /\ channels' = [channels EXCEPT ![s] = ChannelsAfterBind(s, asked)]
             /\ UNCHANGED <<page, link, confirmed>>
    <3>1. OwnRequests' BY <1>7, <2>1, <2>3
    <3>2. link = s /\ page # NoSession => channels[s] \cap {page.room} \subseteq channels'[s]
      BY <1>1, <1>2, <2>1, <2>3 DEF ChannelsAfterBind
    <3>3. link # NoSocket /\ link # s => channels'[link] = channels[link]
      BY <1>1, <2>3
    <3> QED BY <1>3, <2>3, <3>1, <3>2, <3>3
  <2> QED BY <1>13, <2>2, <2>3 DEF Heartbeat
<1>14. CASE Command(s)
  <2>1. Handles(s, "command") /\ AnswerWithoutSession(s, Req(s).room) BY <1>14 DEF Command
  <2> QED BY <1>5, <1>7, <2>1 DEF AnswerWithoutSession
<1>15. ASSUME NEW tokens \in BOOLEAN, NEW joins \in BOOLEAN, NEW kind \in {"chat", "signal"},
              Handles(s, kind), Resolve(s, tokens, joins)
       PROVE  OwnRequests' /\ ConfirmedPageHears'
  <2> DEFINE r == Req(s).room
             own == session[s] # NoSession /\ session[s].room = r
             used == IF own THEN session[s] ELSE Req(s).session
  <2>1. used.room = r /\ r \in RoomCode /\ (link = s /\ page # NoSession => page.room = r)
    BY <1>2, <1>15
  <2>2. CASE \E lost : Unanswered(lost)
    BY <1>6, <1>7, <1>15, <2>2 DEF Unanswered
  <2>3. CASE /\ channels' = [channels EXCEPT ![s] =
                  ChannelsAfterBind(s, used) \cup (IF joins \/ ~own THEN {r} ELSE {})]
             /\ confirmed' = IF joins /\ s = link THEN r ELSE confirmed
             /\ UNCHANGED <<page, link>>
    <3>1. OwnRequests' BY <1>7, <1>15, <2>3
    <3>2. /\ channels[s] \cap {r} \subseteq channels'[s] /\ (joins => r \in channels'[s])
          /\ \A x \in Socket : x # s => channels'[x] = channels[x]
      BY <1>1, <2>1, <2>3 DEF ChannelsAfterBind
    <3>3. ConfirmedPageHears' BY <1>1, <2>1, <2>3, <3>2 DEF ConfirmedPageHears
    <3> QED BY <3>1, <3>3
  <2> QED BY <1>15, <2>2, <2>3 DEF Resolve
<1>16. CASE ChatMessage(s) \/ WebRTCSignal(s)
  BY <1>15, <1>16 DEF ChatMessage, WebRTCSignal
<1>17. CASE Refuse(s)
  <2>1. PICK kind \in Kind : Handles(s, kind) BY <1>17 DEF Refuse
  <2> QED BY <1>3, <1>7, <1>17, <2>1 DEF Refuse, sockets, history
<1> QED
  BY <1>9, <1>10, <1>11, <1>12, <1>13, <1>14, <1>16, <1>17 DEF Handle

\* The page's connection is open for the gateway, and a page without one has had
\* no answer over it.
LinkOpen ==
  /\ link # NoSocket => state[link] = "open"
  /\ link = NoSocket => confirmed = NoSession

LEMMA LinkOpenKept == ASSUME Types, LinkOpen, [Next]_vars PROVE LinkOpen'
<1>1. /\ state \in [Socket -> {"new", "open", "lost", "closed"}]
      /\ link \in Socket \cup {NoSocket}
  BY DEF Types, Shape, PageTypes
<1>2. CASE UNCHANGED <<link, state, confirmed>> BY <1>2 DEF LinkOpen
<1>3. ASSUME NEW kind, NEW room, Send(kind, room) PROVE LinkOpen'
  BY <1>2, <1>3 DEF Send, sockets, history
<1>4. ASSUME NEW s \in Socket, UNCHANGED <<link, state>>, confirmed' = confirmed \/ s = link
      PROVE  LinkOpen'
  BY <1>4 DEF LinkOpen
<1>5. ASSUME NEW s \in Socket, Handle(s) PROVE LinkOpen'
  <2>1. /\ \A new : AnswerWithSession(s, new) =>
                      UNCHANGED <<link, state>> /\ (confirmed' = confirmed \/ s = link)
        /\ \A room : AnswerWithoutSession(s, room) =>
                      UNCHANGED <<link, state>> /\ (confirmed' = confirmed \/ s = link)
        /\ \A tokens : Unanswered(tokens) => UNCHANGED <<link, state, confirmed>>
    BY DEF AnswerWithSession, AnswerWithoutSession, Unanswered, sockets
  <2>2. CASE CreateRoom(s) \/ JoinRoom(s) \/ SyncState(s) \/ Command(s)
    BY <1>4, <2>1, <2>2 DEF CreateRoom, JoinRoom, Admit, SyncState, Command
  <2>3. CASE Heartbeat(s) BY <1>2, <2>1, <2>3 DEF Heartbeat
  <2>4. CASE LeaveRoom(s) BY <1>4, <2>1, <2>4 DEF LeaveRoom
  <2>5. CASE ChatMessage(s) \/ WebRTCSignal(s)
    BY <1>4, <2>1, <2>5 DEF ChatMessage, WebRTCSignal, Resolve
  <2>6. CASE Refuse(s) BY <1>2, <2>6 DEF Refuse, sockets, history
  <2> QED BY <1>5, <2>2, <2>3, <2>4, <2>5, <2>6 DEF Handle
<1>6. ASSUME NEW s \in Socket, Connect(s) PROVE LinkOpen'
  BY <1>1, <1>6 DEF Connect, LinkOpen
<1>7. CASE LoseConnection BY <1>7 DEF LoseConnection, LinkOpen
<1>8. ASSUME NEW s \in Socket, Disconnect(s) PROVE LinkOpen'
  BY <1>1, <1>8 DEF Disconnect, LinkOpen
<1>9. CASE Restart BY <1>9 DEF Restart, LinkOpen
<1>10. CASE \/ (\E r \in RoomCode : CloseRoom(r)) \/ GiveUp \/ UNCHANGED vars
            \/ (\E o \in Other, r \in RoomCode : LoadCopy(o, r))
            \/ (\E o \in Other : SaveCopy(o))
  BY <1>2, <1>10 DEF CloseRoom, GiveUp, LoadCopy, SaveCopy, vars, sockets, history
<1> QED
  BY <1>3, <1>5, <1>6, <1>7, <1>8, <1>9, <1>10 DEF Next, EnterRoom, Act, Aside

LEMMA HearingKept ==
  ASSUME Types, LinkOpen, OwnRequests, ConfirmedPageHears, [Next]_vars
  PROVE  OwnRequests' /\ ConfirmedPageHears'
<1>1. CASE UNCHANGED vars
  BY <1>1 DEF vars, sockets, history, OwnRequests, QueueOfPage, ConfirmedPageHears
<1>0. CASE \/ \E o \in Other, r \in RoomCode : LoadCopy(o, r)
           \/ \E o \in Other : SaveCopy(o)
  BY <1>0 DEF LoadCopy, SaveCopy, sockets, history, OwnRequests, QueueOfPage, ConfirmedPageHears
<1>2. ASSUME NEW kind \in Kind \ {"connect"}, NEW room, Send(kind, room),
             kind \in Action => ~Waits, kind \in {"create", "join"} <=> page = NoSession
      PROVE  OwnRequests' /\ ConfirmedPageHears'
  <2>1. UNCHANGED <<page, link, channels, confirmed>> BY <1>2 DEF Send, sockets, history
  <2> QED BY <1>2, <2>1, SendKeepsRequests DEF ConfirmedPageHears
<1>3. CASE EnterRoom BY <1>2, <1>3 DEF EnterRoom, Kind, Action
<1>4. CASE Act("leave") \/ Act("command") \/ Act("sync")
  BY <1>2, <1>4 DEF Act, Kind, Action
<1>5. CASE Aside("heartbeat") \/ Aside("chat") \/ Aside("signal")
  BY <1>2, <1>5 DEF Aside, Kind, Action
<1>6. CASE GiveUp
  <2> DEFINE q == queue[link]
             w == queue'[link]
  <2>1. /\ link \in Socket /\ UNCHANGED <<page, link, channels, confirmed>>
        /\ q \in Seq(Asked) /\ DOMAIN q = 1 .. Len(q) /\ Len(q) \in Nat
    BY <1>6, LenProperties DEF GiveUp, Waits, sockets, history, Types, Shape, PageTypes, QueueTypes
  <2>2. w = [i \in 1 .. Len(q) |-> [q[i] EXCEPT !.awaited = FALSE]]
    BY <1>6, <2>1 DEF GiveUp, Types, Shape, QueueTypes
  <2>3. \A i \in DOMAIN w : /\ i \in DOMAIN q /\ ~w[i].awaited
                            /\ w[i].kind = q[i].kind /\ w[i].session = q[i].session
    <3>1. \A x \in Asked : LET y == [x EXCEPT !.awaited = FALSE]
                           IN  ~y.awaited /\ y.kind = x.kind /\ y.session = x.session
      BY DEF Asked, Request
    <3>2. \A i \in 1 .. Len(q) : q[i] \in Asked BY <2>1, ElementOfSeq
    <3> QED BY <2>1, <2>2, <3>1, <3>2
  <2> HIDE DEF q, w
  <2>4. QueueOfPage(q) BY <2>1 DEF OwnRequests, q
  <2>5. OwnRequests'
    BY <2>1, <2>3, <2>4 DEF OwnRequests, QueueOfPage, Awaits, w
  <2> QED BY <2>1, <2>5 DEF ConfirmedPageHears
<1>7. ASSUME NEW s \in Socket, Connect(s) PROVE OwnRequests' /\ ConfirmedPageHears'
  <2>1. PICK b \in Buffered : /\ link' = s /\ page' = page
                              /\ queue' = [queue EXCEPT ![s] = FirstRequests(b)]
                              /\ Len(b) < MaxQueue \/ page = NoSession
    BY <1>7 DEF Connect, FirstRequests, Greeting
  <2> DEFINE q == FirstRequests(b)
  <2>2. OwnRequests'
    <3>1. \A i \in DOMAIN q :
            /\ i \in 1 .. Len(q) /\ q[i].session = page /\ q[i].kind # "leave"
            /\ q[i].kind \in {"create", "join"} => page = NoSession /\ i = Len(q)
            /\ q[i].kind \in Action => i = 1
      BY <2>1, FirstRequestsShape
    <3>2. queue'[s] = q BY <2>1 DEF Types, Shape, QueueTypes
    <3> HIDE DEF q
    <3>3. \A i, j \in DOMAIN q : Awaits(q[i]) /\ q[j].kind \in Action => j <= i
      BY <3>1 DEF Awaits
    <3> QED BY <2>1, <3>1, <3>2, <3>3 DEF OwnRequests, QueueOfPage
  <2>3. confirmed' = NoSession BY <1>7 DEF Connect, history, LinkOpen
  <2>4. page # NoSession => page.room \in RoomCode
    BY SessionFields DEF Types, Shape, PageTypes
  <2> QED BY <2>1, <2>2, <2>3, <2>4 DEF ConfirmedPageHears
<1>8. CASE LoseConnection
  BY <1>8 DEF LoseConnection, OwnRequests, ConfirmedPageHears
<1>9. ASSUME NEW s \in Socket, Disconnect(s) PROVE OwnRequests' /\ ConfirmedPageHears'
  <2>1. link # NoSocket => link # s BY <1>9 DEF Disconnect, LinkOpen
  <2>2. /\ UNCHANGED <<page, link, queue, confirmed>>
        /\ channels' = [channels EXCEPT ![s] = {}]
    BY <1>9 DEF Disconnect
  <2>3. OwnRequests' BY <2>2 DEF OwnRequests, QueueOfPage
  <2>4. link # NoSocket => channels'[link] = channels[link]
    BY <2>1, <2>2 DEF Types, Shape, PageTypes
  <2> QED BY <2>2, <2>3, <2>4 DEF ConfirmedPageHears
<1>10. CASE Restart
  BY <1>10 DEF Restart, OwnRequests, ConfirmedPageHears
<1>11. ASSUME NEW r \in RoomCode, CloseRoom(r) PROVE OwnRequests' /\ ConfirmedPageHears'
  BY <1>11 DEF CloseRoom, sockets, history, OwnRequests, QueueOfPage, ConfirmedPageHears
<1> QED
  BY <1>0, <1>1, <1>3, <1>4, <1>5, <1>6, <1>7, <1>8, <1>9, <1>10, <1>11, HandlersKeepHearing
  DEF Next

\* What a page without a session has still under way concerns rooms it has left,
\* and no late leave can unbind the session it is about to get.
LateRequests ==
  link # NoSocket /\ page = NoSession =>
    \A i \in DOMAIN queue[link] :
      /\ queue[link][i].kind # "leave"
      /\ queue[link][i].session # NoSession => queue[link][i].room \in left

\* The channels of the page's connection: those of the rooms left, and of the room
\* that the page, or else the socket, is in.
Bounds ==
  link # NoSocket =>
    /\ page # NoSession => /\ channels[link] \subseteq {page.room} \cup left
                           /\ session[link] # NoSession => session[link].room = page.room
    /\ page = NoSession => channels[link] \subseteq
         left \cup {x \in RoomCode : session[link] # NoSession /\ session[link].room = x}

NewSockets == \A s \in Socket : state[s] = "new" => channels[s] = {} /\ session[s] = NoSession

Hearing == /\ Types /\ LinkOpen /\ OwnRequests /\ ConfirmedPageHears
           /\ LateRequests /\ Bounds /\ NewSockets

LEMMA NewSocketsKept == ASSUME Types, NewSockets, [Next]_vars PROVE NewSockets'
<1>1. /\ state \in [Socket -> {"new", "open", "lost", "closed"}]
      /\ session \in [Socket -> Session \cup {NoSession}]
      /\ channels \in [Socket -> SUBSET RoomCode] /\ link \in Socket \cup {NoSocket}
  BY DEF Types, Shape, PageTypes
<1>2. CASE UNCHANGED <<session, channels, state>> BY <1>2 DEF NewSockets
<1>3. ASSUME NEW kind, NEW room, Send(kind, room) PROVE NewSockets'
  BY <1>2, <1>3 DEF Send, sockets
<1>4. ASSUME NEW s \in Socket, state[s] # "new", state' = state,
             \A x \in Socket : x # s => channels'[x] = channels[x] /\ session'[x] = session[x]
      PROVE  NewSockets'
  BY <1>4 DEF NewSockets
<1>5. ASSUME NEW s \in Socket, Handle(s) PROVE NewSockets'
  <2>1. state[s] # "new"
    BY <1>5 DEF Handle, CreateRoom, JoinRoom, SyncState, Command, Heartbeat, LeaveRoom,
                ChatMessage, WebRTCSignal, Refuse, Handles
  <2> DEFINE Own == /\ state' = state
                    /\ \A x \in Socket : x # s =>
                         channels'[x] = channels[x] /\ session'[x] = session[x]
  <2>2. /\ \A new : AnswerWithSession(s, new) => Own
        /\ \A room : AnswerWithoutSession(s, room) => Own
        /\ \A tokens : Unanswered(tokens) => Own
    BY <1>1 DEF AnswerWithSession, AnswerWithoutSession, Unanswered, sockets
  <2>3. CASE CreateRoom(s) \/ JoinRoom(s) \/ SyncState(s) \/ Command(s)
    BY <1>4, <2>1, <2>2, <2>3 DEF CreateRoom, JoinRoom, Admit, SyncState, Command
  <2>4. Heartbeat(s) => Own BY <1>1, <2>2 DEF Heartbeat
  <2>5. LeaveRoom(s) => Own BY <1>1, <2>2 DEF LeaveRoom
  <2>6. ChatMessage(s) \/ WebRTCSignal(s) => Own
    BY <1>1, <2>2 DEF ChatMessage, WebRTCSignal, Resolve
  <2>7. Refuse(s) => Own BY DEF Refuse, sockets
  <2> QED BY <1>4, <1>5, <2>1, <2>3, <2>4, <2>5, <2>6, <2>7 DEF Handle
<1>6. ASSUME NEW s \in Socket, Connect(s) PROVE NewSockets'
  BY <1>1, <1>6 DEF Connect, NewSockets
<1>7. CASE LoseConnection BY <1>1, <1>7 DEF LoseConnection, NewSockets
<1>8. ASSUME NEW s \in Socket, Disconnect(s) PROVE NewSockets'
  BY <1>1, <1>8 DEF Disconnect, NewSockets
<1>9. CASE Restart BY <1>9 DEF Restart, NewSockets
<1>10. CASE \/ (\E r \in RoomCode : CloseRoom(r)) \/ GiveUp \/ UNCHANGED vars
            \/ (\E o \in Other, r \in RoomCode : LoadCopy(o, r))
            \/ (\E o \in Other : SaveCopy(o))
  BY <1>2, <1>10 DEF CloseRoom, GiveUp, LoadCopy, SaveCopy, vars, sockets
<1> QED
  BY <1>3, <1>5, <1>6, <1>7, <1>8, <1>9, <1>10 DEF Next, EnterRoom, Act, Aside

\* A handled request leaves the others of a page without a session late.
LEMMA HandledKeepsLate ==
  ASSUME Types, OwnRequests, LateRequests, NEW s \in Socket, NEW kind, Handles(s, kind),
         link' = link, left \subseteq left',
         page' = NoSession =>
           \/ page = NoSession
           \/ /\ link = s /\ Req(s).awaited /\ kind = "leave" /\ page # NoSession
              /\ page.room \in left'
  PROVE  LateRequests'
<1> SUFFICES ASSUME link # NoSocket, page' = NoSession, NEW i \in DOMAIN queue'[link]
             PROVE  /\ queue'[link][i].kind # "leave"
                    /\ queue'[link][i].session # NoSession => queue'[link][i].room \in left'
  BY DEF LateRequests
<1>1. /\ Req(s) = queue[s][1] /\ 1 \in DOMAIN queue[s] /\ Req(s).kind = kind
      /\ \A j \in DOMAIN queue'[s] : j + 1 \in DOMAIN queue[s] /\ queue'[s][j] = queue[s][j + 1]
      /\ \A x \in Socket : x # s => queue'[x] = queue[x]
      /\ queue' \in [Socket -> Seq(Asked)] /\ link \in Socket
  BY HandledQueue DEF Types, Shape, PageTypes
<1>2. CASE page = NoSession BY <1>1, <1>2 DEF LateRequests
<1>3. CASE link = s /\ Req(s).awaited /\ kind = "leave" /\ page # NoSession /\ page.room \in left'
  <2> DEFINE e == queue[s][i + 1]
  <2>1. QueueOfPage(queue[s]) BY <1>3 DEF OwnRequests
  <2>2. /\ i + 1 \in DOMAIN queue[s] /\ queue'[s][i] = e /\ i \in Nat \ {0} /\ e \in Asked
    <3>1. queue'[s] \in Seq(Asked) /\ queue[s] \in Seq(Asked) BY <1>1 DEF Types, Shape, QueueTypes
    <3>2. i \in 1 .. Len(queue'[s]) /\ Len(queue'[s]) \in Nat BY <1>3, <3>1, LenProperties
    <3>3. i + 1 \in DOMAIN queue[s] BY <1>1, <1>3
    <3>4. i + 1 \in 1 .. Len(queue[s]) BY <3>1, <3>3, LenProperties
    <3>5. e \in Asked BY <3>1, <3>4, ElementOfSeq
    <3> QED BY <1>1, <1>3, <3>2, <3>3, <3>5
  <2>3. e.session = page BY <1>3, <2>1, <2>2 DEF QueueOfPage
  <2>4. e.kind # "leave"
    <3> SUFFICES ASSUME e.kind = "leave" PROVE FALSE OBVIOUS
    <3>1. Awaits(queue[s][1]) /\ e.kind \in Action BY <1>1, <1>3 DEF Awaits, Action
    <3>2. i + 1 <= 1 BY <1>1, <2>1, <2>2, <3>1 DEF QueueOfPage
    <3> QED BY <2>2, <3>2
  <2>5. e.room = page.room BY <1>3, <2>2, <2>3 DEF Asked
  <2> QED BY <1>3, <2>2, <2>4, <2>5
<1> QED BY <1>2, <1>3

LEMMA HandlersKeepBounds ==
  ASSUME Hearing, NEW s \in Socket, Handle(s)
  PROVE  LateRequests' /\ Bounds'
<1> USE SessionFields DEF Heard
<1>1. /\ session \in [Socket -> Session \cup {NoSession}] /\ page \in Session \cup {NoSession}
      /\ channels \in [Socket -> SUBSET RoomCode] /\ link \in Socket \cup {NoSocket}
      /\ Types /\ OwnRequests /\ LateRequests
  BY DEF Hearing, Types, Shape, PageTypes
\* The request handled over the page's connection.
<1>2. \A kind : Handles(s, kind) =>
        /\ Req(s).kind = kind /\ Req(s) \in Asked
        /\ link = s /\ page # NoSession => Req(s).session = page
        /\ link = s /\ page = NoSession =>
             kind # "leave" /\ (Req(s).session # NoSession => Req(s).room \in left)
        /\ kind \notin {"create", "join"} =>
             Req(s).session \in Session /\ Req(s).room = Req(s).session.room
             /\ Req(s).room \in RoomCode
        /\ link = s /\ kind \in {"sync", "connect"} =>
             (Req(s).awaited => page # NoSession)
  <2> TAKE kind
  <2> HAVE Handles(s, kind)
  <2>1. Req(s) \in Asked /\ Req(s).kind = kind /\ Req(s) = queue[s][1] /\ 1 \in DOMAIN queue[s]
    BY <1>1, HandledQueue DEF Types, Shape
  <2>2. kind \notin {"create", "join"} =>
          Req(s).session \in Session /\ Req(s).room = Req(s).session.room
    BY <2>1 DEF Asked, Request
  <2>3. link = s => link # NoSocket OBVIOUS
  <2>4. link = s /\ page # NoSession => Req(s).session = page
    BY <1>1, <2>1, <2>3 DEF OwnRequests, QueueOfPage
  <2>5. link = s /\ page = NoSession =>
          kind # "leave" /\ (Req(s).session # NoSession => Req(s).room \in left)
    BY <1>1, <2>1, <2>3 DEF LateRequests
  <2>6. link = s /\ kind \in {"sync", "connect"} /\ Req(s).awaited => Req(s).session = page
    BY <1>1, <2>1, <2>3 DEF OwnRequests, QueueOfPage
  <2> QED BY <2>1, <2>2, <2>4, <2>5, <2>6
<1>3. ASSUME NEW kind, Handles(s, kind), UNCHANGED <<page, link>>, left \subseteq left'
      PROVE  LateRequests'
  BY <1>1, <1>3, HandledKeepsLate
<1>4. ASSUME UNCHANGED <<page, link, session, channels, left>> PROVE Bounds'
  BY <1>4 DEF Hearing, Bounds
<1>5. ASSUME NEW tokens, Unanswered(tokens), NEW kind, Handles(s, kind)
      PROVE  LateRequests' /\ Bounds'
  BY <1>3, <1>4, <1>5 DEF Unanswered, sockets
\* Binding a session that is the page's, if it has one.
<1>6. ASSUME NEW new \in Session, link = s /\ page # NoSession => new = page,
             session' = [session EXCEPT ![s] = new],
             NEW joined \in SUBSET {new.room},
             channels' = [channels EXCEPT ![s] = ChannelsAfterBind(s, new) \cup joined],
             page' = page \/ (link = s /\ page' = new),
             UNCHANGED <<link, left>>
      PROVE  Bounds'
  <2>1. CASE link = s
    <3>1. channels'[s] = ChannelsAfterBind(s, new) \cup joined /\ session'[s] = new
      BY <1>1, <1>6
    <3>2. ChannelsAfterBind(s, new) \subseteq left \cup {new.room}
      BY <1>1, <1>6, <2>1 DEF ChannelsAfterBind, Hearing, Bounds
    <3> QED BY <1>1, <1>6, <2>1, <3>1, <3>2 DEF Bounds
  <2>2. CASE link # s
    <3>1. link # NoSocket => channels'[link] = channels[link] /\ session'[link] = session[link]
      BY <1>1, <1>6, <2>2
    <3> QED BY <1>6, <2>2, <3>1 DEF Hearing, Bounds
  <2> QED BY <2>1, <2>2
\* Joining the channel of the room that a request names.
<1>7. ASSUME NEW room, AnswerWithoutSession(s, room),
             link = s /\ page # NoSession => room = page.room,
             link = s /\ page = NoSession => room \in left
      PROVE  Bounds'
  <2>1. CASE link = s
    BY <1>1, <1>7, <2>1 DEF AnswerWithoutSession, Hearing, Bounds
  <2>2. CASE link # s
    <3>1. link # NoSocket => channels'[link] = channels[link]
      BY <1>1, <1>7, <2>2 DEF AnswerWithoutSession
    <3> QED BY <1>7, <3>1 DEF AnswerWithoutSession, Hearing, Bounds
  <2> QED BY <2>1, <2>2
<1>8. ASSUME NEW new \in Session, AnswerWithSession(s, new), NEW kind, Handles(s, kind),
             link = s /\ page # NoSession => new = page
      PROVE  LateRequests' /\ Bounds'
  <2>1. Bounds' BY <1>6, <1>8 DEF AnswerWithSession
  <2>2. LateRequests' BY <1>1, <1>8, HandledKeepsLate DEF AnswerWithSession
  <2> QED BY <2>1, <2>2
<1>9. ASSUME NEW r \in RoomCode, NEW t \in Token, NEW kind \in {"create", "join"},
             Handles(s, kind), Admit(s, r, t)
      PROVE  LateRequests' /\ Bounds'
  <2>1. link = s => page = NoSession
    BY <1>1, <1>2, <1>9 DEF Asked
  <2>2. CASE AnswerWithSession(s, [room |-> r, token |-> t])
    BY <1>8, <1>9, <2>1, <2>2
  <2> QED BY <1>5, <1>9, <2>2 DEF Admit
<1>10. CASE CreateRoom(s) BY <1>9, <1>10 DEF CreateRoom
<1>11. CASE JoinRoom(s)
  <2>1. Req(s).room \in RoomCode BY <1>2, <1>11 DEF JoinRoom, Asked
  <2> QED BY <1>9, <1>11, <2>1 DEF JoinRoom
<1>12. CASE LeaveRoom(s)
  <2> DEFINE r == Req(s).session.room
  <2>1. Handles(s, "leave") BY <1>12 DEF LeaveRoom
  <2>2. /\ r \in RoomCode
        /\ link = s => page # NoSession /\ page.room = r
    BY <1>1, <1>2, <2>1
  <2>3. CASE \E tokens : Unanswered(tokens) BY <1>5, <2>1, <2>3
  <2>4. CASE /\ session' = [session EXCEPT ![s] = NoSession]
             /\ channels' = [channels EXCEPT ![s] = (@ \ {r}) \cup {r}]
             /\ left' = IF s = link THEN left \cup {r} ELSE left
             /\ page' = IF Heard(s) THEN NoSession ELSE page
             /\ link' = link
    <3>1. LateRequests' BY <1>1, <2>1, <2>2, <2>4, HandledKeepsLate
    <3>2. CASE link = s
      <4>1. channels'[s] = channels[s] \cup {r} /\ session'[s] = NoSession
        BY <1>1, <2>4
      <4>2. channels[s] \subseteq {r} \cup left
        BY <1>1, <2>2, <3>2 DEF Hearing, Bounds
      <4> QED BY <2>2, <2>4, <3>1, <3>2, <4>1, <4>2 DEF Bounds
    <3>3. CASE link # s
      <4>1. link # NoSocket => channels'[link] = channels[link] /\ session'[link] = session[link]
        BY <1>1, <2>4, <3>3
      <4> QED BY <2>4, <3>1, <3>3, <4>1 DEF Hearing, Bounds
    <3> QED BY <3>1, <3>2, <3>3
  <2> QED BY <1>12, <2>3, <2>4 DEF LeaveRoom
<1>13. ASSUME NEW kind, Handles(s, kind), kind \notin {"create", "join"}
       PROVE  /\ Req(s).session \in Session /\ Req(s).room = Req(s).session.room
              /\ link = s /\ page # NoSession => Req(s).session = page
              /\ link = s /\ page # NoSession => Req(s).room = page.room
              /\ link = s /\ page = NoSession => Req(s).room \in left
  BY <1>2, <1>13
<1>14. CASE SyncState(s)
  <2> DEFINE asked == Req(s).session
  <2>1. PICK kind \in {"sync", "connect"} : Handles(s, kind) BY <1>14 DEF SyncState
  <2>2. CASE AnswerWithSession(s, asked) BY <1>8, <1>13, <2>1, <2>2
  <2>3. CASE AnswerWithoutSession(s, asked.room)
    BY <1>3, <1>7, <1>13, <2>1, <2>3 DEF AnswerWithoutSession
  <2>4. CASE \E tokens : Unanswered(tokens) BY <1>5, <2>1, <2>4
  <2> QED BY <1>14, <2>2, <2>3, <2>4 DEF SyncState
<1>15. CASE Heartbeat(s)
  <2> DEFINE asked == Req(s).session
  <2>1. Handles(s, "heartbeat") BY <1>15 DEF Heartbeat
  <2>2. CASE \E tokens : Unanswered(tokens) BY <1>5, <2>1, <2>2
  <2>3. CASE /\ session' = [session EXCEPT ![s] = asked]
             /\ channels' = [channels EXCEPT ![s] = ChannelsAfterBind(s, asked)]
             /\ UNCHANGED <<page, link, left>>
    <3>1. channels' = [channels EXCEPT ![s] = ChannelsAfterBind(s, asked) \cup {}]
      BY <2>3
    <3>2. asked \in Session /\ (link = s /\ page # NoSession => asked = page)
      BY <1>13, <2>1
    <3>3. LateRequests' BY <1>3, <2>1, <2>3
    <3>4. {} \in SUBSET {asked.room} OBVIOUS
    <3> HIDE DEF asked
    <3>5. Bounds' BY <1>6, <2>3, <3>1, <3>2, <3>4
    <3> QED BY <3>3, <3>5
  <2> QED BY <1>15, <2>2, <2>3 DEF Heartbeat
<1>16. CASE Command(s)
  <2>1. Handles(s, "command") /\ AnswerWithoutSession(s, Req(s).room) BY <1>16 DEF Command
  <2> QED BY <1>3, <1>7, <1>13, <2>1 DEF AnswerWithoutSession
<1>17. ASSUME NEW tokens \in BOOLEAN, NEW joins \in BOOLEAN, NEW kind \in {"chat", "signal"},
              Handles(s, kind), Resolve(s, tokens, joins)
       PROVE  LateRequests' /\ Bounds'
  <2> DEFINE r == Req(s).room
             own == session[s] # NoSession /\ session[s].room = r
             used == IF own THEN session[s] ELSE Req(s).session
             joined == IF joins \/ ~own THEN {r} ELSE {}
  <2>1. /\ used \in Session /\ used.room = r /\ joined \in SUBSET {r}
        /\ link = s /\ page # NoSession => r = page.room
        /\ link = s /\ page = NoSession => r \in left
    BY <1>1, <1>13, <1>17
  <2>2. CASE \E lost : Unanswered(lost) BY <1>5, <1>17, <2>2
  <2>3. CASE /\ session' = [session EXCEPT ![s] = used]
             /\ channels' = [channels EXCEPT ![s] = ChannelsAfterBind(s, used) \cup joined]
             /\ UNCHANGED <<page, link, left>>
    <3>1. LateRequests' BY <1>3, <1>17, <2>3
    <3>2. CASE link = s
      <4>1. channels'[s] = ChannelsAfterBind(s, used) \cup joined /\ session'[s] = used
        BY <1>1, <2>3
      <4> HIDE DEF joined, r
      <4>2. ChannelsAfterBind(s, used) \subseteq left \cup {r}
        BY <1>1, <2>1, <3>2 DEF ChannelsAfterBind, Hearing, Bounds
      <4>3. channels'[s] \subseteq left \cup {r} BY <2>1, <4>1, <4>2
      <4> HIDE DEF used
      <4> QED BY <1>1, <2>1, <2>3, <3>1, <3>2, <4>1, <4>3 DEF Bounds
    <3>3. CASE link # s
      <4>1. link # NoSocket => channels'[link] = channels[link] /\ session'[link] = session[link]
        BY <1>1, <2>3, <3>3
      <4> QED BY <2>3, <3>1, <3>3, <4>1 DEF Hearing, Bounds
    <3> QED BY <3>1, <3>2, <3>3
  <2> QED BY <1>17, <2>2, <2>3 DEF Resolve
<1>18. CASE ChatMessage(s) \/ WebRTCSignal(s)
  BY <1>17, <1>18 DEF ChatMessage, WebRTCSignal
<1>19. CASE Refuse(s)
  <2>1. PICK kind \in Kind : Handles(s, kind) BY <1>19 DEF Refuse
  <2> QED BY <1>3, <1>4, <1>19, <2>1 DEF Refuse, sockets, history
<1> QED
  BY <1>10, <1>11, <1>12, <1>14, <1>15, <1>16, <1>18, <1>19 DEF Handle

LEMMA HearingSteps == ASSUME Hearing, [Next]_vars PROVE Hearing'
<1>1. Types' /\ LinkOpen' /\ OwnRequests' /\ ConfirmedPageHears' /\ NewSockets'
  BY TypesKept, LinkOpenKept, HearingKept, NewSocketsKept DEF Hearing
<1>2. /\ queue \in [Socket -> Seq(Asked)]
      /\ session \in [Socket -> Session \cup {NoSession}] /\ page \in Session \cup {NoSession}
      /\ channels \in [Socket -> SUBSET RoomCode] /\ link \in Socket \cup {NoSocket}
  BY DEF Hearing, Types, Shape, QueueTypes, PageTypes
<1>3. CASE UNCHANGED <<page, link, queue, session, channels, left>>
  BY <1>1, <1>3 DEF Hearing, LateRequests, Bounds
<1>4. ASSUME NEW kind \in Kind, NEW room, Send(kind, room),
             kind \in {"create", "join"} <=> page = NoSession
      PROVE  Hearing'
  <2> DEFINE e == [kind |-> kind, session |-> page, room |-> room, awaited |-> TRUE]
             q == queue[link]
  <2>1. /\ UNCHANGED <<page, link, session, channels, left>>
        /\ link \in Socket /\ queue'[link] = Append(q, e) /\ q \in Seq(Asked \cup {e})
    <3>1. link \in Socket /\ q \in Seq(Asked) BY <1>2, <1>4 DEF Send
    <3>2. q \in Seq(Asked \cup {e}) BY <3>1, SeqMonotonic
    <3> QED BY <1>2, <1>4, <3>1, <3>2 DEF Send, sockets, history
  <2>2. \A i \in DOMAIN Append(q, e) :
          (i \in DOMAIN q /\ Append(q, e)[i] = q[i]) \/ Append(q, e)[i] = e
    <3>1. e \in Asked \cup {e} OBVIOUS
    <3> HIDE DEF q, e
    <3> QED BY <2>1, <3>1, AppendProperties, LenProperties
  <2>3. e.kind = kind /\ e.session = page OBVIOUS
  <2> HIDE DEF q, e
  <2>4. LateRequests'
    BY <1>4, <2>1, <2>2, <2>3 DEF Hearing, LateRequests, q
  <2> QED BY <1>1, <2>1, <2>4 DEF Hearing, Bounds
<1>5. CASE EnterRoom BY <1>4, <1>5 DEF EnterRoom, Kind, Action
<1>6. CASE Act("leave") \/ Act("command") \/ Act("sync")
  BY <1>4, <1>6 DEF Act, Kind, Action
<1>7. CASE Aside("heartbeat") \/ Aside("chat") \/ Aside("signal")
  BY <1>4, <1>7 DEF Aside, Kind
<1>8. CASE GiveUp
  <2> DEFINE q == queue[link]
             w == queue'[link]
  <2>1. /\ link \in Socket /\ UNCHANGED <<page, link, session, channels, left>>
        /\ q \in Seq(Asked) /\ DOMAIN q = 1 .. Len(q) /\ Len(q) \in Nat
        /\ w = [i \in 1 .. Len(q) |-> [q[i] EXCEPT !.awaited = FALSE]]
    BY <1>2, <1>8, LenProperties DEF GiveUp, Waits, sockets, history
  <2>2. \A i \in DOMAIN w : /\ i \in DOMAIN q /\ w[i].kind = q[i].kind
                            /\ w[i].session = q[i].session /\ w[i].room = q[i].room
    <3>1. \A x \in Asked : LET y == [x EXCEPT !.awaited = FALSE]
                           IN  y.room = x.room /\ y.kind = x.kind /\ y.session = x.session
      BY DEF Asked, Request
    <3>2. \A i \in 1 .. Len(q) : q[i] \in Asked BY <2>1, ElementOfSeq
    <3> QED BY <2>1, <3>1, <3>2
  <2> HIDE DEF q, w
  <2>3. LateRequests' BY <2>1, <2>2 DEF Hearing, LateRequests, q, w
  <2> QED BY <1>1, <2>1, <2>3 DEF Hearing, Bounds
<1>9. ASSUME NEW s \in Socket, Connect(s) PROVE Hearing'
  <2>1. /\ link' = s /\ page' = page /\ channels'[s] = {} /\ session'[s] = NoSession
    BY <1>2, <1>9 DEF Connect, Hearing, NewSockets
  <2>2. PICK b \in Buffered : /\ queue' = [queue EXCEPT ![s] = FirstRequests(b)]
                              /\ Len(b) < MaxQueue \/ page = NoSession
    BY <1>9 DEF Connect, FirstRequests, Greeting
  <2>3. \A i \in DOMAIN queue'[s] : queue'[s][i].session = page /\ queue'[s][i].kind # "leave"
    BY <1>2, <2>2, FirstRequestsShape DEF Hearing
  <2> QED BY <1>1, <2>1, <2>3 DEF Hearing, LateRequests, Bounds
<1>10. CASE LoseConnection
  BY <1>1, <1>10 DEF LoseConnection, Hearing, LateRequests, Bounds
<1>11. ASSUME NEW s \in Socket, Handle(s) PROVE Hearing'
  BY <1>1, <1>11, HandlersKeepBounds DEF Hearing
<1>12. ASSUME NEW s \in Socket, Disconnect(s) PROVE Hearing'
  <2>1. link # NoSocket => link # s BY <1>12 DEF Disconnect, Hearing, LinkOpen
  <2>2. UNCHANGED <<page, link, queue, left>> BY <1>12 DEF Disconnect
  <2>3. link # NoSocket => channels'[link] = channels[link] /\ session'[link] = session[link]
    BY <1>2, <1>12, <2>1 DEF Disconnect
  <2> QED BY <1>1, <2>2, <2>3 DEF Hearing, LateRequests, Bounds
<1>13. CASE Restart
  BY <1>1, <1>13 DEF Restart, Hearing, LateRequests, Bounds
<1>14. CASE \/ (\E r \in RoomCode : CloseRoom(r)) \/ UNCHANGED vars
            \/ (\E o \in Other, r \in RoomCode : LoadCopy(o, r))
            \/ (\E o \in Other : SaveCopy(o))
  BY <1>3, <1>14 DEF CloseRoom, LoadCopy, SaveCopy, vars, sockets, history
<1> QED
  BY <1>5, <1>6, <1>7, <1>8, <1>9, <1>10, <1>11, <1>12, <1>13, <1>14 DEF Next

LEMMA HearingAlways == Spec => []Hearing
<1>1. Init => Hearing
  BY TypesInitially DEF Init, Hearing, LinkOpen, OwnRequests, ConfirmedPageHears,
                        LateRequests, Bounds, NewSockets
<1> QED BY <1>1, HearingSteps, PTL DEF Spec

\* A page that has had an answer other than a heartbeat's over its connection hears
\* the broadcasts of its room.
THEOREM AnsweredPageHears == Spec => []ConfirmedPageHears
<1>1. Hearing => ConfirmedPageHears BY DEF Hearing
<1> QED BY <1>1, HearingAlways, PTL

\* A page hears no broadcasts but those of its room and of rooms that it left over
\* the same connection.
THEOREM NoStrangeRoomIsHeard == Spec => []HearsOnlyItsRoomOrOnesLeft
<1>1. Hearing => HearsOnlyItsRoomOrOnesLeft
  BY DEF Hearing, Bounds, HearsOnlyItsRoomOrOnesLeft
<1> QED BY <1>1, HearingAlways, PTL
=============================================================================

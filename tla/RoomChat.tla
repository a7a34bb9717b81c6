------------------------------ MODULE RoomChat ------------------------------
(***************************************************************************)
(* The chat of one room in the gateway: internal/gateway/socket_server.go, *)
(* roomChatState and its users.  Handlers of different sockets and the     *)
(* ticker share it.  Every access holds its mutex, but a handler makes     *)
(* several: it seeds the history, appends, emits, joins the channel and    *)
(* copies the history in separate steps, and somebody who closes the room  *)
(* removes the whole state between two of them.                            *)
(***************************************************************************)
EXTENDS Naturals, Sequences, SequencesExt

CONSTANTS Page,            \* pages, each with one socket
          Ticker,          \* the gateway's ticker
          MaxChatHistory,  \* maxChatHistory, 120 in the code
          MaxMessages,     \* bound on messages created
          MaxMoves,        \* bound on the moves of the room's game
          NoRoomChat       \* no entry in Server.chatRooms

ASSUME RoomChatAssumption ==
  /\ Ticker \notin Page
  /\ {MaxChatHistory, MaxMessages, MaxMoves} \subseteq Nat \ {0}

VARIABLES chat,      \* Server.chatRooms: the room's roomChatState, or NoRoomChat
          channel,   \* the pages that listen to the room
          received,  \* of each page: the ids of the messages it has been sent
          job,       \* of each page's handler, and the ticker's: the steps to take
          ids,       \* messages created so far
          moves,     \* the last move of the room's game
          botRoom,   \* the room is a training room (bot_easy)
          log        \* history: all messages of the current state, oldest first

vars == <<chat, channel, received, job, ids, moves, botRoom, log>>

Handler == Page \cup {Ticker}

\* A message: its id, who speaks, the move it comments on, and whether it goes
\* over the server (a mirrored one was sent peer to peer already).
Message == [id : 1 .. MaxMessages, sender : {"system", "welcome", "player", "bot", "comment"},
            move : 0 .. MaxMoves, mirrored : BOOLEAN]
ChatState == [history : Seq(Message), seeded : BOOLEAN, lastCommentAt : 0 .. MaxMoves]

ASSUME NoRoomChatAssumption == NoRoomChat \notin ChatState

\* A step: seed, append, reply and comment work on the state; emit sends what
\* was appended to the channel, history sends a copy to the handler's own page
\* (bareHistory: without a snapshot, so it does not know a training room).
Step == [do : {"seed", "append", "reply", "comment", "emit", "join", "history", "bareHistory", "clear"},
         move : 0 .. MaxMoves, mirrored : BOOLEAN, message : Seq(Message)]

Do(what) == [do |-> what, move |-> 0, mirrored |-> FALSE, message |-> <<>>]

Init ==
  /\ chat = NoRoomChat /\ log = <<>>
  /\ channel = {} /\ received = [p \in Page |-> {}]
  /\ job = [h \in Handler |-> <<>>]
  /\ ids = 0 /\ moves = 0 /\ botRoom \in BOOLEAN

Ids(s) == {s[i].id : i \in DOMAIN s}

-----------------------------------------------------------------------------
(* What handlers do, step by step.                                         *)

\* (slip) The history is copied before the socket listens to the channel.
AnsweringHistoryFirst(history) == <<Do(history), Do("join")>>

\* withAck: join the channel, send the history.
Answering(history) == <<Do("join"), Do(history)>>

\* broadcastSnapshot of a room in which `move` was the last move.
Broadcasting(move) ==
  <<Do("seed"), [Do("comment") EXCEPT !.move = move]>>

\* chat_message: the machine of a training room answers at once.
Chatting(mirrored) ==
  <<Do("seed"), [Do("append") EXCEPT !.mirrored = mirrored]>>
    \o (IF botRoom THEN <<Do("reply")>> ELSE <<>>)
    \o Answering("bareHistory")

Begin(h, steps) ==
  /\ job[h] = <<>> /\ job' = [job EXCEPT ![h] = steps]
  /\ UNCHANGED <<chat, channel, received, ids, botRoom, log>>

\* create_room, join_room or sync_state, with the snapshot they answer.
Enter(p) == Begin(p, Answering("history") \o Broadcasting(moves)) /\ UNCHANGED moves

\* A page in the room moves, or its machine does and the ticker broadcasts it.
Move(h) ==
  /\ moves < MaxMoves /\ moves' = moves + 1
  /\ IF h = Ticker THEN botRoom ELSE h \in channel
  /\ Begin(h, (IF h = Ticker THEN <<>> ELSE Answering("history")) \o Broadcasting(moves + 1))

Chat(p, mirrored) ==
  /\ p \in channel /\ mirrored => ~botRoom
  /\ Begin(p, Chatting(mirrored)) /\ UNCHANGED moves

\* heartbeat: the history without the channel.
Heartbeat(p) == p \in channel /\ Begin(p, <<Do("history")>>) /\ UNCHANGED moves

\* leave_room that closes the room: the state is removed, and withAck joins
\* the channel again and makes a new one.
LeaveClosed(p) ==
  p \in channel /\ Begin(p, <<Do("clear")>> \o Answering("bareHistory")) /\ UNCHANGED moves

\* The socket is gone, whatever its handler was about to send it.
Close(p) ==
  /\ p \in channel /\ job[p] = <<>>
  /\ channel' = channel \ {p}
  /\ received' = [received EXCEPT ![p] = {}]
  /\ UNCHANGED <<chat, job, ids, moves, botRoom, log>>

-----------------------------------------------------------------------------
(* The state and its mutex.                                                *)

\* roomChat: the state of the room, made on demand.
RoomChatState ==
  IF chat = NoRoomChat THEN [history |-> <<>>, seeded |-> FALSE, lastCommentAt |-> 0]
  ELSE chat

NewMessage(n, sender, move, mirrored) ==
  [id |-> ids + n, sender |-> sender, move |-> move, mirrored |-> mirrored]

\* (slip) The history keeps its oldest messages.
CappedAtEnd(history) ==
  IF Len(history) > MaxChatHistory THEN SubSeq(history, 1, MaxChatHistory) ELSE history

\* Only the newest messages are kept.
Capped(history) ==
  IF Len(history) > MaxChatHistory
  THEN SubSeq(history, Len(history) - MaxChatHistory + 1, Len(history))
  ELSE history

\* seedChatHistory writes the system's and the machine's welcome once.
Seeding(training) ==
  IF RoomChatState.seeded THEN <<>>
  ELSE <<NewMessage(1, "system", 0, FALSE)>>
         \o (IF training THEN <<NewMessage(2, "welcome", 0, FALSE)>> ELSE <<>>)

\* A handler's next step is of the given kind; the rest waits.
Upcoming(h, what) == job[h] # <<>> /\ Head(job[h]).do = what
Proceed(h, steps) == job' = [job EXCEPT ![h] = steps]

Seeded(training) ==
  LET welcome == Seeding(training)
  IN  /\ ids + Len(welcome) <= MaxMessages /\ ids' = ids + Len(welcome)
      /\ chat' = [RoomChatState EXCEPT !.history = @ \o welcome, !.seeded = TRUE]
      /\ log' = log \o welcome

Seed(h) ==
  /\ Upcoming(h, "seed") /\ Seeded(botRoom) /\ Proceed(h, Tail(job[h]))
  /\ UNCHANGED <<channel, received, moves, botRoom>>

\* appendChatMessage, and then the message is emitted unless it is mirrored.
Stored(h, message) ==
  /\ ids < MaxMessages /\ ids' = ids + 1
  /\ chat' = [RoomChatState EXCEPT !.history = Capped(Append(@, message)),
                                   !.lastCommentAt = IF message.sender = "comment"
                                                     THEN message.move ELSE @]
  /\ log' = Append(log, message)
  /\ Proceed(h, (IF message.mirrored THEN <<>>
                 ELSE <<[Do("emit") EXCEPT !.message = <<message>>]>>) \o Tail(job[h]))
  /\ UNCHANGED <<channel, received, moves, botRoom>>

AppendChatMessage(h) ==
  \/ /\ Upcoming(h, "append")
     /\ Stored(h, NewMessage(1, "player", 0, Head(job[h]).mirrored))
  \/ /\ Upcoming(h, "reply")
     /\ Stored(h, NewMessage(1, "bot", 0, FALSE))

\* (slip) Whether the move has been commented on is not looked at.
CommentDueAlways(move) == botRoom /\ move # 0

\* maybeCreateBotMoveComment: a training room's last move, unless it is the one
\* that was commented on last.
CommentDue(move) == botRoom /\ move # 0 /\ RoomChatState.lastCommentAt # move

MaybeComment(h) ==
  /\ Upcoming(h, "comment")
  /\ LET move == Head(job[h]).move
     IN  IF CommentDue(move) THEN Stored(h, NewMessage(1, "comment", move, FALSE))
         ELSE /\ Proceed(h, Tail(job[h]))
              /\ UNCHANGED <<chat, channel, received, ids, moves, botRoom, log>>

\* io.To(room).Emit
Emit(h) ==
  /\ Upcoming(h, "emit") /\ Proceed(h, Tail(job[h]))
  /\ received' = [p \in Page |-> IF p \in channel
                                 THEN received[p] \cup Ids(Head(job[h]).message)
                                 ELSE received[p]]
  /\ UNCHANGED <<chat, channel, ids, moves, botRoom, log>>

Join(p) ==
  /\ Upcoming(p, "join") /\ Proceed(p, Tail(job[p]))
  /\ channel' = channel \cup {p}
  /\ UNCHANGED <<chat, received, ids, moves, botRoom, log>>

\* emitChatHistory
History(p) ==
  /\ \/ Upcoming(p, "history") /\ Seeded(botRoom)
     \/ Upcoming(p, "bareHistory") /\ Seeded(FALSE)
  /\ Proceed(p, Tail(job[p]))
  /\ received' = [received EXCEPT ![p] = @ \cup Ids(chat'.history)]
  /\ UNCHANGED <<channel, moves, botRoom>>

\* clearRoomChatState
Clear(p) ==
  /\ Upcoming(p, "clear") /\ Proceed(p, Tail(job[p]))
  /\ chat' = NoRoomChat /\ log' = <<>>
  /\ UNCHANGED <<channel, received, ids, moves, botRoom>>

Next ==
  \/ \E p \in Page : Enter(p)
  \/ \E h \in Handler : Move(h)
  \/ \E p \in Page, mirrored \in BOOLEAN : Chat(p, mirrored)
  \/ \E p \in Page : Heartbeat(p)
  \/ \E p \in Page : LeaveClosed(p)
  \/ \E p \in Page : Close(p)
  \/ \E h \in Handler : Seed(h)
  \/ \E h \in Handler : AppendChatMessage(h)
  \/ \E h \in Handler : MaybeComment(h)
  \/ \E h \in Handler : Emit(h)
  \/ \E p \in Page : Join(p)
  \/ \E p \in Page : History(p)
  \/ \E p \in Page : Clear(p)

Spec == Init /\ [][Next]_vars

-----------------------------------------------------------------------------

\* The shape of the chat state and of the handlers' steps.
TypeOK ==
  /\ chat = NoRoomChat \/ chat \in ChatState
  /\ channel \subseteq Page
  /\ received \in [Page -> SUBSET (1 .. MaxMessages)]
  /\ \A h \in Handler : job[h] \in Seq(Step)
  /\ ids \in 0 .. MaxMessages /\ moves \in 0 .. MaxMoves

\* The history is the newest of all that was written, and only the welcome may
\* exceed the cap, when it comes late to a state made anew (seedChatHistory 746).
HistoryIsNewest ==
  chat # NoRoomChat =>
    /\ IsSuffix(chat.history, log)
    /\ Len(chat.history) >= IF Len(log) < MaxChatHistory THEN Len(log) ELSE MaxChatHistory
    /\ Len(chat.history) <= MaxChatHistory + 2

\* A state welcomes once, in all its life.
WelcomesOnce ==
  Cardinality({i \in DOMAIN log : log[i].sender = "system"}) <= 1

\* What the room remembers is the newest of all that was written into its state,
\* in order, as much as the cap allows and with one welcome, whoever seeds and
\* appends at the same time (739-783, maybeCreateBotMoveComment 807).
HistorySound == TypeOK /\ HistoryIsNewest /\ WelcomesOnce

\* A message under way in the hands of a handler.
BeingEmitted(id) ==
  \E h \in Handler : \E i \in DOMAIN job[h] :
    job[h][i].do = "emit" /\ id \in Ids(job[h][i].message)

\* Only the history brings the welcomes and what peers sent each other.
Broadcasted(m) == m.sender \in {"player", "bot", "comment"} /\ ~m.mirrored

\* A page that listens and has no request under way has every message of the
\* room's history that was emitted: withAck joins the channel (536) before it
\* copies the history (540), so no message falls between the two.
NoMessageMissed ==
  chat # NoRoomChat =>
    \A p \in channel : job[p] = <<>> =>
      \A i \in DOMAIN chat.history :
        LET m == chat.history[i]
        IN  Broadcasted(m) /\ ~BeingEmitted(m.id) => m.id \in received[p]

\* Two comments in a row are about different moves, however snapshots of the
\* same move are repeated or overtake each other (785-814).
NoCommentTwiceInARow ==
  \A i \in DOMAIN log : \A j \in 1 .. i - 1 :
    /\ log[i].sender = "comment" /\ log[j].sender = "comment"
    /\ \A k \in j + 1 .. i - 1 : log[k].sender # "comment"
    => log[i].move # log[j].move
=============================================================================

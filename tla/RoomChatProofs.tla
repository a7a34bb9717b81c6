--------------------------- MODULE RoomChatProofs ---------------------------
(***************************************************************************)
(* The chat of a room for any number of pages, any cap and any interleaving*)
(* of their handlers: what the room remembers is the newest of what was    *)
(* written, and a page that listens lacks nothing that was emitted.        *)
(***************************************************************************)
EXTENDS RoomChat, SequenceTheorems, FiniteSetTheorems, TLAPS

USE RoomChatAssumption, NoRoomChatAssumption

\* The history is a suffix of the log.
Suffix(h, l) ==
  Len(h) <= Len(l) /\ \A i \in 1 .. Len(h) : h[i] = l[Len(l) - Len(h) + i]

\* It is as long as the cap lets it be, and longer only for a welcome.
Long(h, l, seeded) ==
  /\ Len(h) >= IF Len(l) < MaxChatHistory THEN Len(l) ELSE MaxChatHistory
  /\ Len(h) <= MaxChatHistory + (IF seeded THEN 2 ELSE 0)

\* The welcome is in the log at most once, and not before the state is seeded.
Welcomed(l, seeded) ==
  /\ \A i, j \in 1 .. Len(l) : l[i].sender = "system" /\ l[j].sender = "system" => i = j
  /\ \A i \in 1 .. Len(l) : l[i].sender = "system" => seeded

\* Entries j < i are two comments in a row; entry i is the last comment.
InARow(l, j, i) ==
  /\ l[i].sender = "comment" /\ l[j].sender = "comment"
  /\ \A k \in j + 1 .. i - 1 : l[k].sender # "comment"
Latest(l, i) ==
  l[i].sender = "comment" /\ \A k \in i + 1 .. Len(l) : l[k].sender # "comment"

\* The state remembers the move of the log's last comment.
Commented(l, move) ==
  /\ \A i \in 1 .. Len(l) : Latest(l, i) => l[i].move = move
  /\ \A i \in 1 .. Len(l) : \A j \in 1 .. i - 1 : InARow(l, j, i) => l[i].move # l[j].move

\* What a state and the log of all its messages have in common.
Kept(r, l) ==
  /\ Suffix(r.history, l) /\ Long(r.history, l, r.seeded)
  /\ Welcomed(l, r.seeded) /\ Commented(l, r.lastCommentAt)

Types ==
  /\ chat = NoRoomChat \/ chat \in ChatState
  /\ log \in Seq(Message)
  /\ channel \subseteq Page
  /\ received \in [Page -> SUBSET (1 .. MaxMessages)]
  /\ job \in [Handler -> Seq(Step)]
  /\ ids \in 0 .. MaxMessages /\ moves \in 0 .. MaxMoves /\ botRoom \in BOOLEAN

Histories == {"history", "bareHistory"}

\* Somebody who joins the channel has the history ahead of it.
Due(s) == \E i \in DOMAIN s : s[i].do \in Histories
Asked(s) ==
  \A i \in DOMAIN s : s[i].do = "join" => \E j \in DOMAIN s : j > i /\ s[j].do \in Histories

JoinersAsk == \A h \in Handler : Asked(job[h])

\* A handler is about to emit message id.
Emitting(jobs, id) ==
  \E h \in Handler : \E i \in DOMAIN jobs[h] :
    jobs[h][i].do = "emit" /\ id \in Ids(jobs[h][i].message)

\* A page that listens and has no history ahead of it has all that was emitted.
Heard ==
  \A p \in channel : ~Due(job[p]) =>
    \A i \in DOMAIN RoomChatState.history :
      LET m == RoomChatState.history[i]
      IN  Broadcasted(m) /\ ~Emitting(job, m.id) => m.id \in received[p]

ChatInvariant ==
  /\ Types
  /\ Kept(RoomChatState, log)
  /\ JoinersAsk
  /\ Heard

-----------------------------------------------------------------------------
(* A state and its log, when a message is written.                         *)

LEMMA Appended ==
  ASSUME NEW l \in Seq(Message), NEW m \in Message
  PROVE  /\ Append(l, m) \in Seq(Message) /\ Len(l) \in Nat /\ Len(Append(l, m)) = Len(l) + 1
         /\ \A i \in 1 .. Len(l) : Append(l, m)[i] = l[i]
         /\ Append(l, m)[Len(l) + 1] = m
BY AppendProperties

LEMMA AppendedSuffix ==
  ASSUME NEW h \in Seq(Message), NEW l \in Seq(Message), NEW m \in Message, Suffix(h, l)
  PROVE  Suffix(Append(h, m), Append(l, m))
<1> DEFINE g == Append(h, m)
           L == Append(l, m)
<1>1. /\ Len(h) \in Nat /\ Len(g) = Len(h) + 1 /\ g[Len(h) + 1] = m
      /\ \A i \in 1 .. Len(h) : g[i] = h[i]
  BY Appended
<1>2. /\ Len(l) \in Nat /\ Len(L) = Len(l) + 1 /\ L[Len(l) + 1] = m
      /\ \A i \in 1 .. Len(l) : L[i] = l[i]
  BY Appended
<1> HIDE DEF g, L
<1>3. ASSUME NEW i \in 1 .. Len(g) PROVE g[i] = L[Len(L) - Len(g) + i]
  <2>1. CASE i = Len(h) + 1
    <3>1. Len(L) - Len(g) + i = Len(l) + 1 BY <1>1, <1>2, <2>1
    <3> QED BY <1>1, <1>2, <2>1, <3>1
  <2>2. CASE i \in 1 .. Len(h)
    <3> DEFINE j == Len(l) - Len(h) + i
    <3>1. Len(L) - Len(g) + i = j BY <1>1, <1>2
    <3>2. j \in 1 .. Len(l) BY <1>1, <1>2, <2>2 DEF Suffix
    <3>3. h[i] = l[j] BY <2>2 DEF Suffix
    <3> HIDE DEF j
    <3> QED BY <1>1, <1>2, <2>2, <3>1, <3>2, <3>3
  <2> QED BY <1>1, <2>1, <2>2
<1>4. Len(g) <= Len(L) BY <1>1, <1>2 DEF Suffix
<1>5. Suffix(g, L) BY <1>3, <1>4 DEF Suffix
<1> QED BY <1>5 DEF g, L

LEMMA AppendedWelcome ==
  ASSUME NEW l \in Seq(Message), NEW m \in Message
  PROVE  /\ Welcomed(l, FALSE) => Welcomed(Append(l, m), TRUE)
         /\ m.sender # "system" => /\ Welcomed(l, TRUE) => Welcomed(Append(l, m), TRUE)
                                   /\ Welcomed(l, FALSE) => Welcomed(Append(l, m), FALSE)
<1> DEFINE L == Append(l, m)
           n == Len(l)
<1>1. n \in Nat /\ Len(L) = n + 1 /\ L[n + 1] = m /\ \A i \in 1 .. n : L[i] = l[i]
  BY Appended
<1> HIDE DEF L
<1>2. \A i \in 1 .. n + 1 : i = n + 1 \/ i \in 1 .. n BY <1>1
<1>3. Welcomed(l, FALSE) => Welcomed(L, TRUE) BY <1>1, <1>2 DEF Welcomed
<1>4. m.sender # "system" /\ Welcomed(l, TRUE) => Welcomed(L, TRUE) BY <1>1, <1>2 DEF Welcomed
<1>5. m.sender # "system" /\ Welcomed(l, FALSE) => Welcomed(L, FALSE) BY <1>1, <1>2 DEF Welcomed
<1> QED BY <1>3, <1>4, <1>5 DEF L

LEMMA AppendedComment ==
  ASSUME NEW l \in Seq(Message), NEW m \in Message, NEW move, NEW later,
         Commented(l, move),
         IF m.sender = "comment" THEN m.move # move /\ later = m.move ELSE later = move
  PROVE  Commented(Append(l, m), later)
<1> DEFINE L == Append(l, m)
           n == Len(l)
<1>1. n \in Nat /\ Len(L) = n + 1 /\ L[n + 1] = m /\ \A i \in 1 .. n : L[i] = l[i]
  BY Appended
<1> HIDE DEF L
<1>2. ASSUME NEW i \in 1 .. n + 1, Latest(L, i) PROVE L[i].move = later
  <2>1. CASE i = n + 1 BY <1>1, <1>2, <2>1 DEF Latest
  <2>2. CASE i \in 1 .. n
    <3>1. n + 1 \in i + 1 .. Len(L) BY <1>1, <2>2
    <3>2. m.sender # "comment" BY <1>1, <1>2, <3>1 DEF Latest
    <3>3. \A k \in i + 1 .. n : k \in 1 .. n /\ k \in i + 1 .. Len(L) BY <1>1, <2>2
    <3>4. Latest(l, i) BY <1>1, <1>2, <2>2, <3>3 DEF Latest
    <3>5. l[i].move = move BY <2>2, <3>4 DEF Commented
    <3> QED BY <1>1, <2>2, <3>2, <3>5
  <2> QED BY <1>1, <2>1, <2>2
<1>3. ASSUME NEW i \in 1 .. n + 1, NEW j \in 1 .. i - 1, InARow(L, j, i) PROVE L[i].move # L[j].move
  <2>1. j \in 1 .. n /\ \A k \in j + 1 .. i - 1 : k \in 1 .. n BY <1>1
  <2>2. l[j].sender = "comment" /\ \A k \in j + 1 .. i - 1 : l[k].sender # "comment"
    BY <1>1, <1>3, <2>1 DEF InARow
  <2>3. CASE i = n + 1
    <3>1. m.sender = "comment" BY <1>1, <1>3, <2>3 DEF InARow
    <3>2. Latest(l, j) BY <1>1, <2>2, <2>3 DEF Latest
    <3>3. l[j].move = move BY <2>1, <3>2 DEF Commented
    <3> QED BY <1>1, <2>1, <2>3, <3>1, <3>3
  <2>4. CASE i \in 1 .. n
    <3>1. InARow(l, j, i) BY <1>1, <1>3, <2>2, <2>4 DEF InARow
    <3> QED BY <1>1, <2>1, <2>4, <3>1 DEF Commented
  <2> QED BY <1>1, <2>3, <2>4
<1> QED BY <1>1, <1>2, <1>3 DEF Commented, L

\* Some of the newest messages of a suffix are one.
LEMMA NewestSuffix ==
  ASSUME NEW h \in Seq(Message), NEW l \in Seq(Message), Suffix(h, l)
  PROVE  /\ Capped(h) \in Seq(Message) /\ Suffix(Capped(h), l)
         /\ Len(Capped(h)) = IF Len(h) > MaxChatHistory THEN MaxChatHistory ELSE Len(h)
         /\ \A i \in DOMAIN Capped(h) : \E j \in DOMAIN h : Capped(h)[i] = h[j]
<1> DEFINE k == Len(h) - MaxChatHistory
           g == SubSeq(h, k + 1, Len(h))
<1>1. Len(h) \in Nat /\ Len(l) \in Nat /\ DOMAIN h = 1 .. Len(h) /\ MaxChatHistory \in Nat \ {0}
  OBVIOUS
<1>2. CASE Len(h) <= MaxChatHistory
  BY <1>1, <1>2 DEF Capped
<1>3. CASE Len(h) > MaxChatHistory
  <2>1. k + 1 \in Int /\ k \in Nat BY <1>1, <1>3
  <2>2. \A i \in k + 1 .. Len(h) : i \in 1 .. Len(h) BY <1>1, <2>1
  <2>3. \A i \in k + 1 .. Len(h) : h[i] \in Message BY <2>2, ElementOfSeq
  <2>4. /\ g \in Seq(Message)
        /\ Len(g) = IF k + 1 <= Len(h) THEN Len(h) - (k + 1) + 1 ELSE 0
        /\ \A i \in 1 .. Len(h) - (k + 1) + 1 : g[i] = h[k + 1 + i - 1]
    BY <1>1, <2>1, <2>3, SubSeqProperties
  <2>5. Capped(h) = g BY <1>3 DEF Capped
  <2> HIDE DEF g
  <2>6. Len(g) = MaxChatHistory BY <1>1, <1>3, <2>4
  <2>7. \A i \in 1 .. MaxChatHistory : k + i \in 1 .. Len(h) /\ g[i] = h[k + i]
    <3> TAKE i \in 1 .. MaxChatHistory
    <3>1. k + 1 + i - 1 = k + i /\ k + i \in 1 .. Len(h) /\ i \in 1 .. Len(h) - (k + 1) + 1
      BY <1>1, <1>3
    <3> QED BY <2>4, <3>1
  <2>8. DOMAIN g = 1 .. MaxChatHistory BY <2>4, <2>6
  <2>9. ASSUME NEW i \in 1 .. MaxChatHistory PROVE g[i] = l[Len(l) - Len(g) + i]
    <3>1. h[k + i] = l[Len(l) - Len(h) + (k + i)] BY <2>7 DEF Suffix
    <3>2. Len(l) - Len(h) + (k + i) = Len(l) - Len(g) + i BY <1>1, <2>6
    <3> QED BY <2>7, <3>1, <3>2
  <2>10. Suffix(g, l) BY <1>1, <1>3, <2>6, <2>9 DEF Suffix
  <2> QED BY <1>1, <1>3, <2>4, <2>5, <2>6, <2>7, <2>8, <2>10, ZenonT(60)
<1> QED BY <1>1, <1>2, <1>3

-----------------------------------------------------------------------------
(* The mutex-protected steps on the state.                                 *)

LEMMA TwoMessages == ASSUME NEW a, NEW b PROVE <<a>> \o <<b>> = <<a, b>>
<1> DEFINE s == <<a>> \o <<b>>
           t == <<a, b>>
<1>1. <<a>> \in Seq({a, b}) /\ <<b>> \in Seq({a, b}) /\ Len(<<a>>) = 1 /\ Len(<<b>>) = 1
  OBVIOUS
<1>2. /\ s \in Seq({a, b}) /\ Len(s) = 2
      /\ \A i \in 1 .. 2 : s[i] = IF i <= 1 THEN <<a>>[i] ELSE <<b>>[i - 1]
  BY <1>1, ConcatProperties
<1>3. t \in Seq({a, b}) /\ Len(t) = 2 /\ t[1] = a /\ t[2] = b OBVIOUS
<1>4. s[1] = a /\ s[2] = b BY <1>2
<1> HIDE DEF s, t
<1>5. \A i \in 1 .. Len(s) : s[i] = t[i] BY <1>2, <1>3, <1>4
<1>6. s = t BY <1>2, <1>3, <1>5, SeqEqual
<1> QED BY <1>6 DEF s, t

LEMMA ConcatOne ==
  ASSUME NEW S, NEW h \in Seq(S), NEW a \in S, NEW b \in S
  PROVE  /\ h \o <<>> = h
         /\ h \o <<a>> = Append(h, a)
         /\ h \o <<a, b>> = Append(Append(h, a), b)
         /\ <<>> \o h = h
<1>1. h \o <<>> = h /\ <<>> \o h = h BY ConcatEmptySeq
<1>2. h \o <<a>> = Append(h, a) BY AppendIsConcat
<1>3. h \o <<a, b>> = Append(Append(h, a), b)
  <2>1. Append(h, a) \in Seq(S) /\ <<a>> \in Seq(S) /\ <<b>> \in Seq(S) BY AppendProperties
  <2>2. Append(Append(h, a), b) = (h \o <<a>>) \o <<b>> BY <2>1, AppendIsConcat
  <2>3. (h \o <<a>>) \o <<b>> = h \o (<<a>> \o <<b>>) BY <2>1, ConcatAssociative
  <2>4. <<a>> \o <<b>> = <<a, b>> BY TwoMessages
  <2> QED BY <2>2, <2>3, <2>4
<1> QED BY <1>1, <1>2, <1>3

\* What a state that is made on demand inherits.
LEMMA StateMade ==
  ASSUME Types
  PROVE  RoomChatState \in ChatState
BY EmptySeq DEF Types, RoomChatState, ChatState

\* A message that is not a comment, in the history and in the log.
LEMMA WelcomeKept ==
  ASSUME NEW h \in Seq(Message), NEW l \in Seq(Message), NEW m \in Message, m.sender # "comment",
         NEW move, Suffix(h, l), Commented(l, move)
  PROVE  /\ Append(h, m) \in Seq(Message) /\ Append(l, m) \in Seq(Message)
         /\ Suffix(Append(h, m), Append(l, m)) /\ Commented(Append(l, m), move)
         /\ Len(Append(h, m)) = Len(h) + 1 /\ Len(Append(l, m)) = Len(l) + 1
<1>1. Suffix(Append(h, m), Append(l, m)) BY AppendedSuffix
<1>2. Commented(Append(l, m), move) BY AppendedComment
<1>3. /\ Append(h, m) \in Seq(Message) /\ Append(l, m) \in Seq(Message)
      /\ Len(Append(h, m)) = Len(h) + 1 /\ Len(Append(l, m)) = Len(l) + 1
  BY Appended
<1> QED BY <1>1, <1>2, <1>3

LEMMA OldOrNew ==
  ASSUME NEW h \in Seq(Message), NEW m \in Message, NEW i \in DOMAIN Append(h, m)
  PROVE  (\E j \in DOMAIN h : Append(h, m)[i] = h[j]) \/ Append(h, m)[i] = m
<1>1. DOMAIN Append(h, m) = 1 .. Len(h) + 1 /\ DOMAIN h = 1 .. Len(h) /\ Len(h) \in Nat
  BY Appended
<1>2. i \in 1 .. Len(h) \/ i = Len(h) + 1 BY <1>1
<1> QED BY <1>1, <1>2, Appended

LEMMA SeededKeeps ==
  ASSUME Types, Kept(RoomChatState, log), NEW training \in BOOLEAN, Seeded(training)
  PROVE  /\ chat' \in ChatState /\ log' \in Seq(Message) /\ ids' \in 0 .. MaxMessages
         /\ Kept(chat', log')
         /\ \A i \in DOMAIN chat'.history :
              \/ \E j \in DOMAIN RoomChatState.history :
                   chat'.history[i] = RoomChatState.history[j]
              \/ chat'.history[i].sender \in {"system", "welcome"}
<1> DEFINE r == RoomChatState
           h == RoomChatState.history
           w == Seeding(training)
           m1 == NewMessage(1, "system", 0, FALSE)
           m2 == NewMessage(2, "welcome", 0, FALSE)
<1>1. r \in ChatState /\ log \in Seq(Message) /\ ids \in Nat BY StateMade DEF Types
<1>2. /\ ids + Len(w) <= MaxMessages /\ ids' = ids + Len(w)
      /\ chat' = [r EXCEPT !.history = @ \o w, !.seeded = TRUE]
      /\ log' = log \o w
  BY DEF Seeded
<1>3. h \in Seq(Message) /\ r.seeded \in BOOLEAN /\ r.lastCommentAt \in 0 .. MaxMoves
  BY <1>1 DEF ChatState
<1>4. w = IF r.seeded THEN <<>> ELSE IF training THEN <<m1, m2>> ELSE <<m1>>
  <2>1. <<m1>> \o <<>> = <<m1>>
    <3>1. <<m1>> \in Seq({m1}) OBVIOUS
    <3> QED BY <3>1, ConcatEmptySeq
  <2>2. <<m1>> \o <<m2>> = <<m1, m2>> BY TwoMessages
  <2>3. w = IF r.seeded THEN <<>> ELSE <<m1>> \o (IF training THEN <<m2>> ELSE <<>>)
    BY DEF Seeding
  <2> HIDE DEF w, r, m1, m2
  <2> QED BY <2>1, <2>2, <2>3
<1>5. /\ Suffix(h, log) /\ Long(h, log, r.seeded) /\ Welcomed(log, r.seeded)
      /\ Commented(log, r.lastCommentAt)
  BY DEF Kept
<1>6. m1.sender = "system" /\ m2.sender = "welcome" BY DEF NewMessage
<1>7. /\ ~r.seeded => ids + 1 <= MaxMessages /\ m1 \in Message
      /\ ~r.seeded /\ training => ids + 2 <= MaxMessages /\ m2 \in Message
  <2>1. ~r.seeded => Len(w) \in {1, 2} /\ (training => Len(w) = 2)
    <3> HIDE DEF w, m1, m2, r
    <3> QED BY <1>4
  <2>0. MaxMessages \in Nat BY RoomChatAssumption
  <2> HIDE DEF w, r
  <2>2. ~r.seeded => ids + 1 <= MaxMessages
    <3> SUFFICES ASSUME ~r.seeded PROVE ids + 1 <= MaxMessages OBVIOUS
    <3>1. Len(w) >= 1 BY <2>1, SMTT(30)
    <3> QED BY <1>1, <1>2, <2>0, <2>1, <3>1
  <2>3. ~r.seeded /\ training => ids + 2 <= MaxMessages BY <1>1, <1>2, <2>1
  <2>4. ids + 1 <= MaxMessages => m1 \in Message BY <1>1 DEF NewMessage, Message
  <2>5. ids + 2 <= MaxMessages => m2 \in Message BY <1>1 DEF NewMessage, Message
  <2> QED BY <2>2, <2>3, <2>4, <2>5
<1>8. Len(h) \in Nat /\ Len(log) \in Nat /\ Len(w) \in Nat /\ ids' \in 0 .. MaxMessages
  <2>1. Len(w) \in 0 .. 2
    <3> HIDE DEF w, m1, m2, r
    <3> QED BY <1>4
  <2> QED BY <1>1, <1>2, <1>3, <2>1
<1> HIDE DEF w, m1, m2
<1>9. ASSUME NEW g \in Seq(Message), g = h \o w, Suffix(g, log'), log' \in Seq(Message),
             Welcomed(log', TRUE), Commented(log', r.lastCommentAt), Long(g, log', TRUE),
             \A i \in DOMAIN g : (\E j \in DOMAIN h : g[i] = h[j])
                                 \/ g[i].sender \in {"system", "welcome"}
      PROVE  /\ chat' \in ChatState /\ Kept(chat', log')
             /\ \A i \in DOMAIN chat'.history :
                  \/ \E j \in DOMAIN h : chat'.history[i] = h[j]
                  \/ chat'.history[i].sender \in {"system", "welcome"}
  <2>1. chat' = [r EXCEPT !.history = g, !.seeded = TRUE]
    BY <1>1, <1>2, <1>9 DEF ChatState
  <2> HIDE DEF r, h
  <2>2. /\ chat' \in ChatState /\ chat'.history = g /\ chat'.seeded = TRUE
        /\ chat'.lastCommentAt = r.lastCommentAt
    BY <1>1, <2>1 DEF ChatState
  <2> QED BY <1>9, <2>2 DEF Kept
<1> HIDE DEF r, h
<1>10. CASE r.seeded
  <2>1. h \o w = h /\ log' = log
    BY <1>1, <1>2, <1>3, <1>4, <1>10, ConcatEmptySeq
  <2>2. Long(h, log, TRUE) /\ Welcomed(log, TRUE)
    BY <1>5, <1>10 DEF Long, Welcomed
  <2> QED BY <1>1, <1>3, <1>5, <1>8, <1>9, <2>1, <2>2 DEF r, h
<1>11. CASE ~r.seeded
  <2> DEFINE h1 == Append(h, m1)
             l1 == Append(log, m1)
             move == r.lastCommentAt
  <2>0. m1 \in Message /\ m1.sender # "comment" /\ Commented(log, move) BY <1>5, <1>6, <1>7, <1>11
  <2>1. /\ h1 \in Seq(Message) /\ l1 \in Seq(Message)
        /\ Suffix(h1, l1) /\ Welcomed(l1, TRUE) /\ Commented(l1, move)
        /\ Len(h1) = Len(h) + 1 /\ Len(l1) = Len(log) + 1
        /\ \A i \in DOMAIN h1 : (\E j \in DOMAIN h : h1[i] = h[j]) \/ h1[i] = m1
    <3>1. Welcomed(log, FALSE) BY <1>5, <1>11 DEF Welcomed
    <3>2. Welcomed(l1, TRUE) BY <1>1, <2>0, <3>1, AppendedWelcome
    <3> HIDE DEF move
    <3>3. /\ h1 \in Seq(Message) /\ l1 \in Seq(Message)
          /\ Suffix(h1, l1) /\ Commented(l1, move)
          /\ Len(h1) = Len(h) + 1 /\ Len(l1) = Len(log) + 1
      BY <1>1, <1>3, <1>5, <2>0, WelcomeKept
    <3> QED BY <1>3, <2>0, <3>2, <3>3, OldOrNew
  <2> HIDE DEF h1, l1
  <2>2. CASE ~training
    <3>1. h \o w = h1 /\ log' = l1
      BY <1>1, <1>2, <1>3, <1>4, <1>7, <1>11, <2>2, ConcatOne DEF h1, l1
    <3>2. Long(h1, l1, TRUE)
      BY <1>5, <1>8, <1>11, <2>1 DEF Long
    <3> QED BY <1>6, <1>8, <1>9, <2>1, <3>1, <3>2 DEF r, h
  <2>3. CASE training
    <3> DEFINE h2 == Append(h1, m2)
               l2 == Append(l1, m2)
    <3>1. /\ h2 \in Seq(Message) /\ l2 \in Seq(Message)
          /\ Suffix(h2, l2) /\ Welcomed(l2, TRUE) /\ Commented(l2, move)
          /\ Len(h2) = Len(h1) + 1 /\ Len(l2) = Len(l1) + 1
          /\ \A i \in DOMAIN h2 : (\E j \in DOMAIN h1 : h2[i] = h1[j]) \/ h2[i] = m2
      <4>1. m2 \in Message /\ m2.sender # "comment" /\ m2.sender # "system"
        BY <1>6, <1>7, <1>11, <2>3
      <4>2. Welcomed(l2, TRUE) BY <2>1, <4>1, AppendedWelcome
      <4> HIDE DEF move
      <4>3. /\ h2 \in Seq(Message) /\ l2 \in Seq(Message)
            /\ Suffix(h2, l2) /\ Commented(l2, move)
            /\ Len(h2) = Len(h1) + 1 /\ Len(l2) = Len(l1) + 1
        BY <2>1, <4>1, WelcomeKept
      <4> QED BY <2>1, <4>1, <4>2, <4>3, OldOrNew
    <3>2. h \o w = h2 /\ log' = l2
      BY <1>1, <1>2, <1>3, <1>4, <1>7, <1>11, <2>3, ConcatOne, SMTT(30) DEF h1, l1
    <3> HIDE DEF h2, l2
    <3>3. Long(h2, l2, TRUE)
      BY <1>5, <1>8, <1>11, <2>1, <3>1 DEF Long
    <3>4. \A i \in DOMAIN h2 : (\E j \in DOMAIN h : h2[i] = h[j])
                               \/ h2[i].sender \in {"system", "welcome"}
      BY <1>6, <2>1, <3>1
    <3> QED BY <1>8, <1>9, <3>1, <3>2, <3>3, <3>4 DEF r, h
  <2> QED BY <2>2, <2>3
<1> QED BY <1>10, <1>11

LEMMA StoredKeeps ==
  ASSUME Types, Kept(RoomChatState, log), NEW h \in Handler, NEW m \in Message, Stored(h, m),
         m.sender # "system", m.sender = "comment" => m.move # RoomChatState.lastCommentAt
  PROVE  /\ chat' \in ChatState /\ log' \in Seq(Message) /\ ids' \in 0 .. MaxMessages
         /\ Kept(chat', log')
         /\ \A i \in DOMAIN chat'.history :
              \/ \E j \in DOMAIN RoomChatState.history :
                   chat'.history[i] = RoomChatState.history[j]
              \/ chat'.history[i] = m
<1> DEFINE r == RoomChatState
           old == r.history
           g == Append(old, m)
           later == IF m.sender = "comment" THEN m.move ELSE r.lastCommentAt
           L == Append(log, m)
<1>1. r \in ChatState /\ log \in Seq(Message) /\ ids \in Nat BY StateMade DEF Types
<1>2. /\ ids < MaxMessages /\ ids' = ids + 1 /\ log' = L
      /\ chat' = [r EXCEPT !.history = Capped(Append(@, m)),
                           !.lastCommentAt = IF m.sender = "comment" THEN m.move ELSE @]
  BY DEF Stored
<1>3. old \in Seq(Message) /\ r.seeded \in BOOLEAN /\ r.lastCommentAt \in 0 .. MaxMoves
  BY <1>1 DEF ChatState
<1>4. /\ Suffix(old, log) /\ Long(old, log, r.seeded) /\ Welcomed(log, r.seeded)
      /\ Commented(log, r.lastCommentAt)
  BY DEF Kept
<1>5. later \in 0 .. MaxMoves BY <1>3 DEF Message
<1>6. chat' = [r EXCEPT !.history = Capped(g), !.lastCommentAt = later]
  BY <1>1, <1>2 DEF ChatState
<1> HIDE DEF r, old, later
<1>7. /\ g \in Seq(Message) /\ Len(g) = Len(old) + 1 /\ Len(old) \in Nat
      /\ L \in Seq(Message) /\ Len(L) = Len(log) + 1 /\ Len(log) \in Nat
  BY <1>1, <1>3, Appended
<1>8. Suffix(g, L) BY <1>1, <1>3, <1>4, AppendedSuffix
<1>9. /\ Capped(g) \in Seq(Message) /\ Suffix(Capped(g), L)
      /\ Len(Capped(g)) = IF Len(g) > MaxChatHistory THEN MaxChatHistory ELSE Len(g)
      /\ \A i \in DOMAIN Capped(g) : \E j \in DOMAIN g : Capped(g)[i] = g[j]
  BY <1>7, <1>8, NewestSuffix
<1>10. Commented(L, later)
  <2>1. IF m.sender = "comment" THEN m.move # r.lastCommentAt /\ later = m.move
        ELSE later = r.lastCommentAt
    BY DEF later, r
  <2> QED BY <1>1, <1>4, <2>1, AppendedComment
<1>11. Welcomed(L, r.seeded)
  <2>1. CASE r.seeded
    <3>1. Welcomed(log, TRUE) BY <1>4, <2>1 DEF Welcomed
    <3>2. Welcomed(L, TRUE) BY <1>1, <3>1, AppendedWelcome
    <3> HIDE DEF L
    <3> QED BY <2>1, <3>2 DEF Welcomed
  <2>2. CASE ~r.seeded
    <3>1. Welcomed(log, FALSE) BY <1>4, <2>2 DEF Welcomed
    <3>2. Welcomed(L, FALSE) BY <1>1, <3>1, AppendedWelcome
    <3> HIDE DEF L
    <3> QED BY <2>2, <3>2 DEF Welcomed
  <2> QED BY <2>1, <2>2
<1>12. \A i \in DOMAIN Capped(g) : (\E j \in DOMAIN old : Capped(g)[i] = old[j]) \/ Capped(g)[i] = m
  BY <1>3, <1>9, OldOrNew
<1> HIDE DEF g, L
<1> DEFINE c == Capped(g)
<1>13. Long(c, L, r.seeded)
  <2>1. MaxChatHistory \in Nat OBVIOUS
  <2>2. /\ Len(old) >= IF Len(log) < MaxChatHistory THEN Len(log) ELSE MaxChatHistory
    BY <1>4 DEF Long
  <2>3. /\ Len(c) <= MaxChatHistory
        /\ Len(c) >= IF Len(L) < MaxChatHistory THEN Len(L) ELSE MaxChatHistory
    BY <1>7, <1>9, <2>1, <2>2
  <2> HIDE DEF c
  <2>4. Len(c) \in Nat BY <1>9 DEF c
  <2>5. Len(c) <= MaxChatHistory + (IF r.seeded THEN 2 ELSE 0) BY <2>1, <2>3, <2>4
  <2> QED BY <2>3, <2>5 DEF Long
<1> HIDE DEF c
<1>14. /\ chat' \in ChatState /\ chat'.history = c /\ chat'.seeded = r.seeded
       /\ chat'.lastCommentAt = later
  <2>1. c \in Seq(Message) BY <1>9 DEF c
  <2>2. chat' = [r EXCEPT !.history = c, !.lastCommentAt = later] BY <1>6 DEF c
  <2> QED BY <1>1, <1>5, <2>1, <2>2 DEF ChatState, r
<1>15. Kept(chat', log')
  BY <1>2, <1>9, <1>10, <1>11, <1>13, <1>14 DEF Kept, c
<1>16. ids' \in 0 .. MaxMessages
  <2>1. MaxMessages \in Nat OBVIOUS
  <2> QED BY <1>1, <1>2, <2>1
<1> QED BY <1>2, <1>7, <1>12, <1>14, <1>15, <1>16 DEF c, r, old

-----------------------------------------------------------------------------
(* The steps a handler has ahead of it.                                    *)

LEMMA StepTaken ==
  ASSUME NEW s \in Seq(Step), s # <<>>
  PROVE  /\ Head(s) \in Step /\ Tail(s) \in Seq(Step) /\ Head(s) = s[1] /\ 1 \in DOMAIN s
         /\ Len(Tail(s)) = Len(s) - 1
         /\ \A i \in DOMAIN Tail(s) : i + 1 \in DOMAIN s /\ Tail(s)[i] = s[i + 1]
         /\ \A i \in DOMAIN s : i = 1 \/ (i - 1 \in DOMAIN Tail(s) /\ Tail(s)[i - 1] = s[i])
<1>1. /\ Head(s) \in Step /\ Tail(s) \in Seq(Step) /\ Len(Tail(s)) = Len(s) - 1
      /\ \A i \in 1 .. Len(Tail(s)) : Tail(s)[i] = s[i + 1]
  BY HeadTailProperties
<1>2. Len(s) \in Nat /\ Len(s) # 0 /\ DOMAIN s = 1 .. Len(s) BY EmptySeq
<1>3. Head(s) = s[1] OBVIOUS
<1> DEFINE t == Tail(s)
<1>4. DOMAIN t = 1 .. Len(t) BY <1>1
<1> HIDE DEF t
<1>5. \A i \in DOMAIN t : i + 1 \in DOMAIN s BY <1>1, <1>2, <1>4 DEF t
<1>6. \A i \in DOMAIN s : i = 1 \/ i - 1 \in DOMAIN t BY <1>1, <1>2, <1>4 DEF t
<1>7. \A i \in DOMAIN s : i # 1 => t[i - 1] = s[i]
  <2> TAKE i \in DOMAIN s
  <2> HAVE i # 1
  <2>1. i - 1 \in 1 .. Len(t) /\ (i - 1) + 1 = i BY <1>2, <1>4, <1>6
  <2> QED BY <1>1, <2>1 DEF t
<1> QED BY <1>1, <1>2, <1>3, <1>4, <1>5, <1>6, <1>7 DEF t

LEMMA AskedAfter ==
  ASSUME NEW s \in Seq(Step), s # <<>>, Asked(s)
  PROVE  /\ Asked(Tail(s))
         /\ Head(s).do = "join" => Due(Tail(s))
         /\ Due(Tail(s)) => Due(s)
         /\ Head(s).do \notin Histories /\ Due(s) => Due(Tail(s))
<1> DEFINE t == Tail(s)
<1>1. /\ Head(s) = s[1] /\ 1 \in DOMAIN s /\ DOMAIN s \subseteq Nat /\ DOMAIN t \subseteq Nat
      /\ \A i \in DOMAIN t : i + 1 \in DOMAIN s /\ t[i] = s[i + 1]
      /\ \A i \in DOMAIN s : i = 1 \/ (i - 1 \in DOMAIN t /\ t[i - 1] = s[i])
  <2>1. t \in Seq(Step) BY StepTaken
  <2>2. DOMAIN s = 1 .. Len(s) /\ DOMAIN t = 1 .. Len(t) BY <2>1
  <2> QED BY <2>2, StepTaken
<1> HIDE DEF t
<1>2. ASSUME NEW i \in DOMAIN s, NEW j \in DOMAIN s, j > i, s[j].do \in Histories
      PROVE  j - 1 \in DOMAIN t /\ t[j - 1].do \in Histories
  <2>1. j # 1
    <3>1. i \in Nat /\ j \in Nat BY <1>1
    <3>2. CASE i = 0
      <4>1. DOMAIN s = 1 .. Len(s) OBVIOUS
      <4> QED BY <3>2, <4>1
    <3>3. CASE i # 0 BY <1>2, <3>1, <3>3
    <3> QED BY <3>2, <3>3
  <2> QED BY <1>1, <1>2, <2>1
<1>3. Asked(t)
  <2> SUFFICES ASSUME NEW i \in DOMAIN t, t[i].do = "join"
               PROVE  \E j \in DOMAIN t : j > i /\ t[j].do \in Histories
    BY DEF Asked
  <2>1. i + 1 \in DOMAIN s /\ s[i + 1].do = "join" BY <1>1
  <2>2. PICK j \in DOMAIN s : j > i + 1 /\ s[j].do \in Histories BY <2>1 DEF Asked
  <2>3. j - 1 \in DOMAIN t /\ t[j - 1].do \in Histories BY <1>2, <2>1, <2>2
  <2>4. j - 1 > i BY <1>1, <2>2
  <2> QED BY <2>3, <2>4
<1>4. Head(s).do = "join" => Due(t)
  <2> HAVE Head(s).do = "join"
  <2>1. PICK j \in DOMAIN s : j > 1 /\ s[j].do \in Histories BY <1>1 DEF Asked
  <2> QED BY <1>1, <1>2, <2>1 DEF Due
<1>5. Due(t) => Due(s) BY <1>1 DEF Due
<1>6. Head(s).do \notin Histories /\ Due(s) => Due(t) BY <1>1 DEF Due
<1> QED BY <1>3, <1>4, <1>5, <1>6 DEF t

\* What a handler begins with is put together from parts.
LEMMA AskedTogether ==
  ASSUME NEW s \in Seq(Step), NEW t \in Seq(Step)
  PROVE  /\ s \o t \in Seq(Step)
         /\ Asked(s) /\ Asked(t) => Asked(s \o t)
         /\ Due(t) => Due(s \o t)
         /\ \A i \in DOMAIN s : i \in DOMAIN (s \o t) /\ (s \o t)[i] = s[i]
         /\ \A i \in DOMAIN t : \E j \in DOMAIN (s \o t) : (s \o t)[j] = t[i]
<1> DEFINE u == s \o t
           n == Len(s)
<1>1. /\ u \in Seq(Step) /\ Len(u) = n + Len(t) /\ n \in Nat /\ Len(t) \in Nat
      /\ \A i \in 1 .. n + Len(t) : u[i] = IF i <= n THEN s[i] ELSE t[i - n]
  BY ConcatProperties
<1>2. DOMAIN s = 1 .. n /\ DOMAIN t = 1 .. Len(t) /\ DOMAIN u = 1 .. n + Len(t) BY <1>1
<1> HIDE DEF u, n
<1>3. \A i \in DOMAIN s : i \in DOMAIN u /\ u[i] = s[i] BY <1>1, <1>2
<1>4. ASSUME NEW i \in DOMAIN t PROVE n + i \in DOMAIN u /\ u[n + i] = t[i]
  <2>1. n + i \in 1 .. n + Len(t) /\ ~(n + i <= n) /\ n + i - n = i BY <1>1, <1>2
  <2> QED BY <1>1, <1>2, <2>1
<1>5. ASSUME NEW i \in DOMAIN u, i \notin DOMAIN s PROVE i - n \in DOMAIN t /\ u[i] = t[i - n]
  BY <1>1, <1>2, <1>5
<1>6. Asked(s) /\ Asked(t) => Asked(u)
  <2> SUFFICES ASSUME Asked(s), Asked(t), NEW i \in DOMAIN u, u[i].do = "join"
               PROVE  \E j \in DOMAIN u : j > i /\ u[j].do \in Histories
    BY DEF Asked
  <2>1. CASE i \in DOMAIN s
    <3>1. PICK j \in DOMAIN s : j > i /\ s[j].do \in Histories BY <1>3, <2>1 DEF Asked
    <3> QED BY <1>3, <3>1
  <2>2. CASE i \notin DOMAIN s
    <3>1. i - n \in DOMAIN t /\ u[i] = t[i - n] BY <1>5, <2>2
    <3>2. PICK j \in DOMAIN t : j > i - n /\ t[j].do \in Histories BY <3>1 DEF Asked
    <3>3. n + j > i BY <1>1, <1>2, <3>2
    <3> QED BY <1>4, <3>2, <3>3
  <2> QED BY <2>1, <2>2
<1>7. Due(t) => Due(u) BY <1>4 DEF Due
<1>8. \A i \in DOMAIN t : \E j \in DOMAIN u : u[j] = t[i] BY <1>4
<1> QED BY <1>1, <1>3, <1>6, <1>7, <1>8 DEF u

LEMMA Pushed ==
  ASSUME NEW e \in Step, e.do = "emit", NEW s \in Seq(Step), Asked(s)
  PROVE  /\ <<e>> \o s \in Seq(Step) /\ Asked(<<e>> \o s) /\ (Due(s) => Due(<<e>> \o s))
         /\ \A i \in DOMAIN s : \E j \in DOMAIN (<<e>> \o s) : (<<e>> \o s)[j] = s[i]
         /\ \E j \in DOMAIN (<<e>> \o s) : (<<e>> \o s)[j] = e
<1>1. <<e>> \in Seq(Step) /\ DOMAIN <<e>> = {1} /\ <<e>>[1] = e OBVIOUS
<1> DEFINE one == <<e>>
<1>2. one \in Seq(Step) /\ DOMAIN one = {1} /\ one[1] = e BY <1>1
<1> HIDE DEF one
<1>3. Asked(one) BY <1>2 DEF Asked
<1>4. /\ one \o s \in Seq(Step) /\ Asked(one \o s) /\ (Due(s) => Due(one \o s))
      /\ \A i \in DOMAIN s : \E j \in DOMAIN (one \o s) : (one \o s)[j] = s[i]
      /\ \A i \in DOMAIN one : i \in DOMAIN (one \o s) /\ (one \o s)[i] = one[i]
  BY <1>2, <1>3, AskedTogether
<1> DEFINE u == one \o s
<1>5. \E j \in DOMAIN u : u[j] = e BY <1>2, <1>4
<1> QED BY <1>4, <1>5 DEF one

\* Only a join and a history change who lacks a message: every other step
\* leaves what is emitted with a handler or with the pages that listen.
LEMMA HeardKept ==
  ASSUME Heard,
         \A p \in channel' : ~Due(job'[p]) =>
           \/ p \in channel /\ ~Due(job[p])
           \/ \A i \in DOMAIN RoomChatState'.history : RoomChatState'.history[i].id \in received'[p],
         \A p \in channel' : \A id \in received[p] : id \in received'[p],
         \A p \in channel' : \A id : Emitting(job, id) => Emitting(job', id) \/ id \in received'[p],
         \A i \in DOMAIN RoomChatState'.history :
           \/ \E j \in DOMAIN RoomChatState.history :
                RoomChatState'.history[i] = RoomChatState.history[j]
           \/ ~Broadcasted(RoomChatState'.history[i])
           \/ Emitting(job', RoomChatState'.history[i].id)
  PROVE  Heard'
<1> DEFINE r == RoomChatState
           after == RoomChatState'
<1> SUFFICES ASSUME NEW p \in channel', ~Due(job'[p]), NEW i \in DOMAIN after.history,
                    Broadcasted(after.history[i]), ~Emitting(job', after.history[i].id)
             PROVE  after.history[i].id \in received'[p]
  BY DEF Heard, Broadcasted, Emitting, Due
<1>1. CASE \A k \in DOMAIN after.history : after.history[k].id \in received'[p] BY <1>1
<1>2. CASE p \in channel /\ ~Due(job[p])
  <2>1. PICK j \in DOMAIN r.history : after.history[i] = r.history[j] OBVIOUS
  <2> DEFINE m == r.history[j]
  <2>2. Broadcasted(m) /\ m = after.history[i] BY <2>1
  <2>3. CASE Emitting(job, m.id)
    <3> DEFINE id == m.id
    <3>1. Emitting(job', id) \/ id \in received'[p]
      <4>1. Emitting(job, id) BY <2>3
      <4> HIDE DEF id
      <4> QED BY <4>1
    <3>2. id = after.history[i].id BY <2>2
    <3> HIDE DEF id, after
    <3> QED BY <3>1, <3>2
  <2>4. CASE ~Emitting(job, m.id)
    <3>1. m.id \in received[p] BY <1>2, <2>2, <2>4 DEF Heard
    <3> QED BY <2>2, <3>1
  <2> QED BY <2>3, <2>4
<1> QED BY <1>1, <1>2

LEMMA StateAfter ==
  /\ chat' \in ChatState => RoomChatState' = chat'
  /\ chat' = chat => RoomChatState' = RoomChatState
BY DEF RoomChatState

\* What a step of handler h other than an emission leaves to be emitted.
LEMMA EmissionsKept ==
  ASSUME Types, NEW h \in Handler, NEW s, job' = [job EXCEPT ![h] = s],
         \A i \in DOMAIN job[h] : job[h][i].do = "emit" => \E j \in DOMAIN s : s[j] = job[h][i]
  PROVE  \A id : Emitting(job, id) => Emitting(job', id)
<1> SUFFICES ASSUME NEW id, Emitting(job, id) PROVE Emitting(job', id) OBVIOUS
<1>1. PICK g \in Handler : \E i \in DOMAIN job[g] :
        job[g][i].do = "emit" /\ id \in Ids(job[g][i].message)
  BY DEF Emitting
<1>2. PICK i \in DOMAIN job[g] : job[g][i].do = "emit" /\ id \in Ids(job[g][i].message)
  BY <1>1
<1>3. \A k \in Handler : job'[k] = IF k = h THEN s ELSE job[k] BY DEF Types
<1>4. \E j \in DOMAIN job'[g] : job'[g][j] = job[g][i] BY <1>2, <1>3
<1>5. PICK j \in DOMAIN job'[g] : job'[g][j] = job[g][i] BY <1>4
<1>6. job'[g][j].do = "emit" /\ id \in Ids(job'[g][j].message) BY <1>2, <1>5
<1> QED BY <1>6 DEF Emitting

-----------------------------------------------------------------------------
(* Every step of every handler.                                            *)

LEMMA BeginKeeps ==
  ASSUME ChatInvariant, NEW h \in Handler, NEW steps \in Seq(Step), Asked(steps),
         Begin(h, steps), moves' \in 0 .. MaxMoves
  PROVE  ChatInvariant'
<1>1. /\ job[h] = <<>> /\ job' = [job EXCEPT ![h] = steps]
      /\ UNCHANGED <<chat, channel, received, ids, botRoom, log>>
  BY DEF Begin
<1>2. Types' BY <1>1 DEF ChatInvariant, Types
<1>3. RoomChatState' = RoomChatState BY <1>1, StateAfter
<1>4. Kept(RoomChatState, log)' BY <1>1, <1>3 DEF ChatInvariant
<1>5. \A g \in Handler : job'[g] = IF g = h THEN steps ELSE job[g]
  BY <1>1 DEF ChatInvariant, Types
<1>6. JoinersAsk' BY <1>5 DEF ChatInvariant, JoinersAsk
<1>7. ~Due(job[h]) BY <1>1 DEF Due
<1>8. ASSUME NEW id, Emitting(job, id) PROVE Emitting(job', id)
  <2>1. PICK g \in Handler : \E i \in DOMAIN job[g] :
          job[g][i].do = "emit" /\ id \in Ids(job[g][i].message)
    BY <1>8 DEF Emitting
  <2>2. job'[g] = job[g] BY <1>1, <1>5, <2>1
  <2> QED BY <2>1, <2>2 DEF Emitting
<1>9. \A p \in channel' : ~Due(job'[p]) => p \in channel /\ ~Due(job[p])
  <2>1. \A p \in channel' : p \in Handler BY <1>2 DEF Types, Handler
  <2> QED BY <1>1, <1>5, <1>7, <2>1
<1>10. Heard' BY <1>1, <1>3, <1>8, <1>9, HeardKept DEF ChatInvariant
<1> QED BY <1>2, <1>4, <1>6, <1>10 DEF ChatInvariant

\* The parts that handlers begin with.
LEMMA Parts ==
  /\ \A history \in Histories : Answering(history) \in Seq(Step) /\ Asked(Answering(history))
  /\ \A move \in 0 .. MaxMoves : Broadcasting(move) \in Seq(Step) /\ Asked(Broadcasting(move))
  /\ \A what \in {"history", "reply", "clear"} :
       <<Do(what)>> \in Seq(Step) /\ Asked(<<Do(what)>>)
  /\ \A mirrored \in BOOLEAN :
       /\ <<Do("seed"), [Do("append") EXCEPT !.mirrored = mirrored]>> \in Seq(Step)
       /\ Asked(<<Do("seed"), [Do("append") EXCEPT !.mirrored = mirrored]>>)
<1>1. \A a, b \in Step : /\ <<a>> \in Seq(Step) /\ DOMAIN <<a>> = {1} /\ <<a>>[1] = a
                         /\ <<a, b>> \in Seq(Step) /\ DOMAIN <<a, b>> = {1, 2}
                         /\ <<a, b>>[1] = a /\ <<a, b>>[2] = b
  OBVIOUS
<1>2. \A what \in {"seed", "append", "reply", "comment", "emit", "join", "history", "bareHistory",
                   "clear"} : Do(what) \in Step /\ Do(what).do = what
  <2>1. 0 \in 0 .. MaxMoves /\ <<>> \in Seq(Message) BY EmptySeq
  <2> QED BY <2>1 DEF Do, Step
<1>3. ASSUME NEW history \in Histories
      PROVE  Answering(history) \in Seq(Step) /\ Asked(Answering(history))
  <2>1. Do("join") \in Step /\ Do(history) \in Step /\ Do(history).do \in Histories
    BY <1>2 DEF Histories
  <2> DEFINE s == <<Do("join"), Do(history)>>
  <2>2. s \in Seq(Step) /\ DOMAIN s = {1, 2} /\ s[2] = Do(history) /\ s[1] = Do("join")
    BY <1>1, <2>1
  <2> HIDE DEF s
  <2>3. Asked(s)
    <3>1. s[2].do # "join" /\ 2 > 1 BY <2>1, <2>2 DEF Histories
    <3> QED BY <2>1, <2>2, <3>1 DEF Asked
  <2> QED BY <2>2, <2>3 DEF s, Answering
<1>4. ASSUME NEW a \in Step, a.do # "join" PROVE <<a>> \in Seq(Step) /\ Asked(<<a>>)
  BY <1>1, <1>4 DEF Asked
<1>5. ASSUME NEW a \in Step, NEW b \in Step, a.do # "join", b.do # "join"
      PROVE  <<a, b>> \in Seq(Step) /\ Asked(<<a, b>>)
  <2> DEFINE s == <<a, b>>
  <2>1. s \in Seq(Step) /\ DOMAIN s = {1, 2} /\ s[1] = a /\ s[2] = b BY <1>1
  <2> HIDE DEF s
  <2>2. Asked(s) BY <1>5, <2>1 DEF Asked
  <2> QED BY <2>1, <2>2 DEF s
<1>6. ASSUME NEW move \in 0 .. MaxMoves PROVE [Do("comment") EXCEPT !.move = move] \in Step
  BY <1>2 DEF Step
<1>7. ASSUME NEW mirrored \in BOOLEAN PROVE [Do("append") EXCEPT !.mirrored = mirrored] \in Step
  BY <1>2 DEF Step
<1>8. \A move \in 0 .. MaxMoves : Broadcasting(move) \in Seq(Step) /\ Asked(Broadcasting(move))
  <2> TAKE move \in 0 .. MaxMoves
  <2> DEFINE b == [Do("comment") EXCEPT !.move = move]
  <2>1. b \in Step /\ b.do = "comment" BY <1>6, <1>2 DEF Do
  <2>2. Do("seed") \in Step /\ Do("seed").do = "seed" BY <1>2
  <2> HIDE DEF b
  <2>3. <<Do("seed"), b>> \in Seq(Step) /\ Asked(<<Do("seed"), b>>) BY <1>5, <2>1, <2>2
  <2> QED BY <2>3 DEF b, Broadcasting
<1>9. ASSUME NEW mirrored \in BOOLEAN
      PROVE  /\ <<Do("seed"), [Do("append") EXCEPT !.mirrored = mirrored]>> \in Seq(Step)
             /\ Asked(<<Do("seed"), [Do("append") EXCEPT !.mirrored = mirrored]>>)
  <2> DEFINE b == [Do("append") EXCEPT !.mirrored = mirrored]
  <2>1. b \in Step /\ b.do = "append" BY <1>7, <1>2 DEF Do
  <2>2. Do("seed") \in Step /\ Do("seed").do = "seed" BY <1>2
  <2> HIDE DEF b
  <2>3. <<Do("seed"), b>> \in Seq(Step) /\ Asked(<<Do("seed"), b>>) BY <1>5, <2>1, <2>2
  <2> QED BY <2>3 DEF b
<1>10. ASSUME NEW what \in {"history", "reply", "clear"}
       PROVE  <<Do(what)>> \in Seq(Step) /\ Asked(<<Do(what)>>)
  <2>1. Do(what) \in Step /\ Do(what).do # "join" BY <1>2
  <2> QED BY <1>4, <2>1
<1> QED BY <1>3, <1>8, <1>9, <1>10

\* A handler takes the step ahead of it and keeps who is to have the history.
LEMMA HandlerSteps ==
  ASSUME ChatInvariant, NEW h \in Handler, job[h] # <<>>, NEW before \in Seq(Step),
         job' = [job EXCEPT ![h] = before \o Tail(job[h])], Asked(before),
         Head(job[h]).do # "emit"
  PROVE  /\ job' \in [Handler -> Seq(Step)] /\ JoinersAsk'
         /\ \A id : Emitting(job, id) => Emitting(job', id)
         /\ \A i \in DOMAIN before : before[i].do = "emit" =>
              \A id \in Ids(before[i].message) : Emitting(job', id)
         /\ \A g \in Handler : g # h => job'[g] = job[g]
         /\ Head(job[h]).do \notin Histories => \A g \in Handler : Due(job[g]) => Due(job'[g])
         /\ Head(job[h]).do = "join" => Due(job'[h])
<1> DEFINE s == job[h]
           t == Tail(s)
           u == before \o t
<1>0. /\ s \in Seq(Step) /\ job \in [Handler -> Seq(Step)] /\ Asked(s) /\ s # <<>>
      /\ Head(s) = s[1] /\ 1 \in DOMAIN s /\ Types
  BY StepTaken DEF ChatInvariant, Types, JoinersAsk
<1> HIDE DEF s
<1>1. /\ t \in Seq(Step) /\ Asked(t) /\ (Head(s).do = "join" => Due(t))
      /\ Head(s).do \notin Histories /\ Due(s) => Due(t)
      /\ \A i \in DOMAIN s : i = 1 \/ (i - 1 \in DOMAIN t /\ t[i - 1] = s[i])
  BY <1>0, StepTaken, AskedAfter
<1> HIDE DEF t
<1>2. /\ u \in Seq(Step) /\ Asked(u) /\ (Due(t) => Due(u))
      /\ \A i \in DOMAIN before : i \in DOMAIN u /\ u[i] = before[i]
      /\ \A i \in DOMAIN t : \E j \in DOMAIN u : u[j] = t[i]
  BY <1>1, AskedTogether
<1> HIDE DEF u
<1>3. job' = [job EXCEPT ![h] = u] BY DEF u, t, s
<1>4. job' \in [Handler -> Seq(Step)] /\ \A g \in Handler : job'[g] = IF g = h THEN u ELSE job[g]
  BY <1>0, <1>2, <1>3
<1>5. JoinersAsk' BY <1>2, <1>4 DEF ChatInvariant, JoinersAsk
<1>6. \A i \in DOMAIN s : s[i].do = "emit" => \E j \in DOMAIN u : u[j] = s[i]
  <2> SUFFICES ASSUME NEW i \in DOMAIN s, s[i].do = "emit" PROVE \E j \in DOMAIN u : u[j] = s[i]
    OBVIOUS
  <2>1. i # 1 BY <1>0 DEF s
  <2>2. i - 1 \in DOMAIN t /\ t[i - 1] = s[i] BY <1>1, <2>1
  <2> QED BY <1>2, <2>2
<1>7. \A id : Emitting(job, id) => Emitting(job', id) BY <1>0, <1>3, <1>6, EmissionsKept, ZenonT(60) DEF s
<1>8. \A i \in DOMAIN before : before[i].do = "emit" =>
        \A id \in Ids(before[i].message) : Emitting(job', id)
  <2> TAKE i \in DOMAIN before
  <2> HAVE before[i].do = "emit"
  <2> TAKE id \in Ids(before[i].message)
  <2>1. i \in DOMAIN job'[h] /\ job'[h][i] = before[i] BY <1>2, <1>4
  <2> QED BY <2>1 DEF Emitting
<1>9. Head(s).do \notin Histories => \A g \in Handler : Due(job[g]) => Due(job'[g])
  BY <1>1, <1>2, <1>4 DEF s
<1> QED BY <1>1, <1>2, <1>4, <1>5, <1>7, <1>8, <1>9 DEF s

\* A step on the state keeps the invariant when every message of the new state
\* is an old one, is not broadcast, or is about to be emitted.
LEMMA StateStep ==
  ASSUME ChatInvariant, NEW h \in Handler, job[h] # <<>>, NEW before \in Seq(Step),
         job' = [job EXCEPT ![h] = before \o Tail(job[h])], Asked(before),
         Head(job[h]).do \notin {"emit"} \cup Histories,
         UNCHANGED <<channel, received, moves, botRoom>>,
         RoomChatState' \in ChatState, chat' \in ChatState \cup {NoRoomChat},
         log' \in Seq(Message), ids' \in 0 .. MaxMessages, Kept(RoomChatState', log'),
         \A i \in DOMAIN RoomChatState'.history :
           \/ \E j \in DOMAIN RoomChatState.history :
                RoomChatState'.history[i] = RoomChatState.history[j]
           \/ ~Broadcasted(RoomChatState'.history[i])
           \/ Emitting(job', RoomChatState'.history[i].id)
  PROVE  ChatInvariant'
<1>1. /\ job' \in [Handler -> Seq(Step)] /\ JoinersAsk'
      /\ \A id : Emitting(job, id) => Emitting(job', id)
      /\ \A g \in Handler : Due(job[g]) => Due(job'[g])
  BY HandlerSteps
<1>2. Types' BY <1>1 DEF ChatInvariant, Types
<1>3. \A p \in channel' : p \in Handler BY <1>2 DEF Types, Handler
<1>4. Heard' BY <1>1, <1>3, HeardKept DEF ChatInvariant
<1> QED BY <1>1, <1>2, <1>4 DEF ChatInvariant

LEMMA BeginningsKeep ==
  ASSUME ChatInvariant
  PROVE  /\ \A p \in Page : Enter(p) => ChatInvariant'
         /\ \A h \in Handler : Move(h) => ChatInvariant'
         /\ \A p \in Page, mirrored \in BOOLEAN : Chat(p, mirrored) => ChatInvariant'
         /\ \A p \in Page : Heartbeat(p) => ChatInvariant'
         /\ \A p \in Page : LeaveClosed(p) => ChatInvariant'
<1>1. moves \in 0 .. MaxMoves /\ botRoom \in BOOLEAN /\ Page \subseteq Handler
  BY DEF ChatInvariant, Types, Handler
<1>2. ASSUME NEW p \in Page, Enter(p) PROVE ChatInvariant'
  <2> DEFINE a == Answering("history")
             b == Broadcasting(moves)
  <2>1. a \in Seq(Step) /\ Asked(a) /\ b \in Seq(Step) /\ Asked(b) BY <1>1, Parts DEF Histories
  <2> HIDE DEF a, b
  <2>2. a \o b \in Seq(Step) /\ Asked(a \o b) BY <2>1, AskedTogether
  <2>3. Begin(p, a \o b) /\ moves' = moves BY <1>2 DEF Enter, a, b
  <2> QED BY <1>1, <2>2, <2>3, BeginKeeps
<1>3. ASSUME NEW h \in Handler, Move(h) PROVE ChatInvariant'
  <2> DEFINE a == IF h = Ticker THEN <<>> ELSE Answering("history")
             b == Broadcasting(moves + 1)
  <2>1. moves + 1 \in 0 .. MaxMoves /\ moves' = moves + 1 /\ Begin(h, a \o b)
    <3>1. moves < MaxMoves /\ moves' = moves + 1 /\ Begin(h, a \o b) BY <1>3 DEF Move
    <3> HIDE DEF a, b
    <3> QED BY <1>1, <3>1
  <2>2. b \in Seq(Step) /\ Asked(b) BY <2>1, Parts
  <2>3. a \in Seq(Step) /\ Asked(a)
    <3>1. Answering("history") \in Seq(Step) /\ Asked(Answering("history")) BY Parts DEF Histories
    <3>2. <<>> \in Seq(Step) /\ Asked(<<>>) BY EmptySeq DEF Asked
    <3>3. CASE h = Ticker
      <4>1. a = <<>> BY <3>3
      <4> HIDE DEF a
      <4> QED BY <3>2, <4>1
    <3>4. CASE h # Ticker
      <4>1. a = Answering("history") BY <3>4
      <4> HIDE DEF a
      <4> QED BY <3>1, <4>1
    <3> QED BY <3>3, <3>4
  <2> HIDE DEF a, b
  <2>4. a \o b \in Seq(Step) /\ Asked(a \o b) BY <2>2, <2>3, AskedTogether
  <2> QED BY <2>1, <2>4, BeginKeeps
<1>4. ASSUME NEW p \in Page, NEW mirrored \in BOOLEAN, Chat(p, mirrored) PROVE ChatInvariant'
  <2> DEFINE a == <<Do("seed"), [Do("append") EXCEPT !.mirrored = mirrored]>>
             b == IF botRoom THEN <<Do("reply")>> ELSE <<>>
             c == Answering("bareHistory")
  <2>1. a \in Seq(Step) /\ Asked(a) /\ c \in Seq(Step) /\ Asked(c) BY Parts DEF Histories
  <2>2. b \in Seq(Step) /\ Asked(b)
    <3>1. <<Do("reply")>> \in Seq(Step) /\ Asked(<<Do("reply")>>) BY Parts
    <3>2. <<>> \in Seq(Step) /\ Asked(<<>>) BY EmptySeq DEF Asked
    <3> QED BY <3>1, <3>2
  <2>3. Begin(p, a \o b \o c) /\ moves' = moves BY <1>4 DEF Chat, Chatting
  <2> HIDE DEF a, b, c
  <2>4. a \o b \in Seq(Step) /\ Asked(a \o b) BY <2>1, <2>2, AskedTogether
  <2>5. a \o b \o c \in Seq(Step) /\ Asked(a \o b \o c) BY <2>1, <2>4, AskedTogether
  <2> QED BY <1>1, <2>3, <2>5, BeginKeeps
<1>5. ASSUME NEW p \in Page, Heartbeat(p) PROVE ChatInvariant'
  <2> DEFINE a == <<Do("history")>>
  <2>1. a \in Seq(Step) /\ Asked(a) BY Parts
  <2>2. Begin(p, a) /\ moves' = moves BY <1>5 DEF Heartbeat
  <2> HIDE DEF a
  <2> QED BY <1>1, <2>1, <2>2, BeginKeeps
<1>6. ASSUME NEW p \in Page, LeaveClosed(p) PROVE ChatInvariant'
  <2> DEFINE a == <<Do("clear")>>
             b == Answering("bareHistory")
  <2>1. a \in Seq(Step) /\ Asked(a) /\ b \in Seq(Step) /\ Asked(b) BY Parts DEF Histories
  <2>2. Begin(p, a \o b) /\ moves' = moves BY <1>6 DEF LeaveClosed
  <2> HIDE DEF a, b
  <2>3. a \o b \in Seq(Step) /\ Asked(a \o b) BY <2>1, AskedTogether
  <2> QED BY <1>1, <2>2, <2>3, BeginKeeps
<1> QED BY <1>2, <1>3, <1>4, <1>5, <1>6

LEMMA CloseKeeps ==
  ASSUME ChatInvariant, NEW p \in Page, Close(p)
  PROVE  ChatInvariant'
<1>1. /\ channel' = channel \ {p} /\ received' = [received EXCEPT ![p] = {}]
      /\ UNCHANGED <<chat, job, ids, moves, botRoom, log>>
  BY DEF Close
<1>2. Types' BY <1>1 DEF ChatInvariant, Types
<1>3. RoomChatState' = RoomChatState BY <1>1, StateAfter
<1>4. Kept(RoomChatState, log)' /\ JoinersAsk' BY <1>1, <1>3 DEF ChatInvariant, JoinersAsk
<1>5. \A q \in channel' : q \in channel /\ q \in Page /\ received'[q] = received[q]
  BY <1>1 DEF ChatInvariant, Types
<1>6. \A id : Emitting(job, id) => Emitting(job', id) BY <1>1
<1>7. Heard' BY <1>1, <1>3, <1>5, <1>6, HeardKept DEF ChatInvariant
<1> QED BY <1>2, <1>4, <1>7 DEF ChatInvariant

\* A handler whose next step is of some kind has steps.
LEMMA OneStep ==
  ASSUME ChatInvariant, NEW h \in Handler, NEW what, Upcoming(h, what)
  PROVE  /\ job[h] # <<>> /\ Head(job[h]).do = what
         /\ job[h] \in Seq(Step) /\ Head(job[h]) \in Step
         /\ <<>> \in Seq(Step) /\ Asked(<<>>)
         /\ <<>> \o Tail(job[h]) = Tail(job[h])
<1>1. job[h] # <<>> /\ Head(job[h]).do = what /\ job[h] \in Seq(Step)
  BY DEF Upcoming, ChatInvariant, Types
<1>2. Head(job[h]) \in Step /\ Tail(job[h]) \in Seq(Step) BY <1>1, StepTaken
<1>3. <<>> \o Tail(job[h]) = Tail(job[h]) BY <1>2, ConcatEmptySeq
<1>4. <<>> \in Seq(Step) /\ Asked(<<>>) BY EmptySeq DEF Asked
<1> QED BY <1>1, <1>2, <1>3, <1>4

LEMMA SeedKeeps ==
  ASSUME ChatInvariant, NEW h \in Handler, Seed(h)
  PROVE  ChatInvariant'
<1>1. /\ Upcoming(h, "seed") /\ Seeded(botRoom) /\ job' = [job EXCEPT ![h] = Tail(job[h])]
      /\ UNCHANGED <<channel, received, moves, botRoom>>
  BY DEF Seed, Proceed
<1> DEFINE before == <<>>
<1>2. /\ job[h] # <<>> /\ Head(job[h]).do = "seed" /\ before \in Seq(Step) /\ Asked(before)
      /\ job' = [job EXCEPT ![h] = before \o Tail(job[h])]
  BY <1>1, OneStep
<1> HIDE DEF before
<1>3. /\ chat' \in ChatState /\ log' \in Seq(Message) /\ ids' \in 0 .. MaxMessages
      /\ Kept(chat', log')
      /\ \A i \in DOMAIN chat'.history :
           \/ \E j \in DOMAIN RoomChatState.history :
                chat'.history[i] = RoomChatState.history[j]
           \/ chat'.history[i].sender \in {"system", "welcome"}
  BY <1>1, SeededKeeps DEF ChatInvariant, Types
<1>4. RoomChatState' = chat' BY <1>3, StateAfter
<1>5. Head(job[h]).do \notin {"emit"} \cup Histories BY <1>2 DEF Histories
<1>6. \A i \in DOMAIN chat'.history :
        \/ \E j \in DOMAIN RoomChatState.history : chat'.history[i] = RoomChatState.history[j]
        \/ ~Broadcasted(chat'.history[i])
  BY <1>3 DEF Broadcasted
<1> QED BY <1>1, <1>2, <1>3, <1>4, <1>5, <1>6, StateStep

LEMMA StoredKeepsAll ==
  ASSUME ChatInvariant, NEW h \in Handler, NEW what \in {"append", "reply", "comment"},
         Upcoming(h, what), NEW m \in Message, Stored(h, m), m.sender # "system",
         m.sender = "comment" => m.move # RoomChatState.lastCommentAt
  PROVE  ChatInvariant'
<1>1. UNCHANGED <<channel, received, moves, botRoom>> BY DEF Stored
<1> DEFINE e == [Do("emit") EXCEPT !.message = <<m>>]
           before == IF m.mirrored THEN <<>> ELSE <<e>>
<1>2. e \in Step /\ e.do = "emit" /\ e.message = <<m>>
  <2> DEFINE ms == <<m>>
             base == Do("emit")
  <2>1. ms \in Seq(Message) /\ 0 \in 0 .. MaxMoves /\ <<>> \in Seq(Message) BY EmptySeq
  <2>2. base \in Step /\ base.do = "emit" BY <2>1 DEF Do, Step
  <2> HIDE DEF ms, base
  <2>3. LET x == [base EXCEPT !.message = ms] IN x \in Step /\ x.do = "emit" /\ x.message = ms
    BY <2>1, <2>2 DEF Step
  <2> QED BY <2>3 DEF ms, base
<1>3. job' = [job EXCEPT ![h] = before \o Tail(job[h])] BY DEF Stored, Proceed
<1>4. job[h] # <<>> /\ Head(job[h]).do = what BY OneStep
<1>5. Ids(<<m>>) = {m.id} BY DEF Ids
<1> HIDE DEF e
<1>6. <<e>> \in Seq(Step) /\ Asked(<<e>>) /\ DOMAIN <<e>> = {1} /\ <<e>>[1] = e
  <2> DEFINE one == <<e>>
  <2>1. one \in Seq(Step) /\ DOMAIN one = {1} /\ one[1] = e BY <1>2
  <2> HIDE DEF one
  <2>2. Asked(one) BY <1>2, <2>1 DEF Asked
  <2> QED BY <2>1, <2>2 DEF one
<1>7. <<>> \in Seq(Step) /\ Asked(<<>>) BY OneStep
<1> DEFINE one == <<e>>
           none == <<>>
<1>8. before = IF m.mirrored THEN none ELSE one OBVIOUS
<1> HIDE DEF one, none, before
<1>9. before \in Seq(Step) /\ Asked(before) BY <1>6, <1>7, <1>8 DEF one, none
<1>10. Head(job[h]).do \notin {"emit"} \cup Histories BY <1>4 DEF Histories
<1>11. m.mirrored \/ Emitting(job', m.id)
  <2> SUFFICES ASSUME ~m.mirrored PROVE Emitting(job', m.id) OBVIOUS
  <2>1. before = one /\ 1 \in DOMAIN one /\ one[1] = e BY <1>6, <1>8 DEF one
  <2>2. 1 \in DOMAIN before /\ before[1].do = "emit" /\ m.id \in Ids(before[1].message)
    BY <1>2, <1>5, <2>1
  <2> QED BY <1>3, <1>4, <1>9, <1>10, <2>2, HandlerSteps
<1>12. /\ chat' \in ChatState /\ log' \in Seq(Message) /\ ids' \in 0 .. MaxMessages
       /\ Kept(chat', log')
       /\ \A i \in DOMAIN chat'.history :
            \/ \E j \in DOMAIN RoomChatState.history :
                 chat'.history[i] = RoomChatState.history[j]
            \/ chat'.history[i] = m
  BY StoredKeeps DEF ChatInvariant
<1>13. RoomChatState' = chat' BY <1>12, StateAfter
<1>14. \A i \in DOMAIN chat'.history :
         \/ \E j \in DOMAIN RoomChatState.history : chat'.history[i] = RoomChatState.history[j]
         \/ ~Broadcasted(chat'.history[i])
         \/ Emitting(job', chat'.history[i].id)
  BY <1>11, <1>12 DEF Broadcasted
<1> QED BY <1>1, <1>3, <1>4, <1>9, <1>10, <1>12, <1>13, <1>14, StateStep

LEMMA AppendKeeps ==
  ASSUME ChatInvariant, NEW h \in Handler, AppendChatMessage(h)
  PROVE  ChatInvariant'
<1>1. ids \in Nat /\ 0 \in 0 .. MaxMoves BY DEF ChatInvariant, Types
<1>2. CASE Upcoming(h, "append") /\ Stored(h, NewMessage(1, "player", 0, Head(job[h]).mirrored))
  <2> DEFINE m == NewMessage(1, "player", 0, Head(job[h]).mirrored)
  <2>1. Head(job[h]).mirrored \in BOOLEAN BY <1>2, OneStep DEF Step
  <2>2. ids < MaxMessages BY <1>2 DEF Stored
  <2>3. m \in Message /\ m.sender = "player" BY <1>1, <2>1, <2>2 DEF Message, NewMessage
  <2>4. Stored(h, m) BY <1>2
  <2> HIDE DEF m
  <2> QED BY <1>2, <2>3, <2>4, StoredKeepsAll
<1>3. CASE Upcoming(h, "reply") /\ Stored(h, NewMessage(1, "bot", 0, FALSE))
  <2> DEFINE m == NewMessage(1, "bot", 0, FALSE)
  <2>1. ids < MaxMessages BY <1>3 DEF Stored
  <2>2. m \in Message /\ m.sender = "bot" BY <1>1, <2>1 DEF Message, NewMessage
  <2>3. Stored(h, m) BY <1>3
  <2> HIDE DEF m
  <2> QED BY <1>3, <2>2, <2>3, StoredKeepsAll
<1> QED BY <1>2, <1>3 DEF AppendChatMessage

LEMMA CommentKeeps ==
  ASSUME ChatInvariant, NEW h \in Handler, MaybeComment(h)
  PROVE  ChatInvariant'
<1> DEFINE move == Head(job[h]).move
<1>1. Upcoming(h, "comment") BY DEF MaybeComment
<1>2. move \in 0 .. MaxMoves BY <1>1, OneStep DEF Step
<1>3. CASE CommentDue(move) /\ Stored(h, NewMessage(1, "comment", move, FALSE))
  <2> DEFINE m == NewMessage(1, "comment", move, FALSE)
  <2>1. ids < MaxMessages /\ ids \in Nat BY <1>3 DEF Stored, ChatInvariant, Types
  <2>2. m \in Message /\ m.sender = "comment" /\ m.move = move
    BY <1>2, <2>1 DEF Message, NewMessage
  <2>3. Stored(h, m) BY <1>3
  <2>4. move # RoomChatState.lastCommentAt BY <1>3 DEF CommentDue
  <2> HIDE DEF m, move
  <2> QED BY <1>1, <2>2, <2>3, <2>4, StoredKeepsAll
<1>4. CASE /\ Proceed(h, Tail(job[h]))
           /\ UNCHANGED <<chat, channel, received, ids, moves, botRoom, log>>
  <2> DEFINE before == <<>>
  <2>1. /\ job[h] # <<>> /\ Head(job[h]).do = "comment" /\ before \in Seq(Step) /\ Asked(before)
        /\ job' = [job EXCEPT ![h] = before \o Tail(job[h])]
    BY <1>1, <1>4, OneStep DEF Proceed
  <2> HIDE DEF before
  <2>2. RoomChatState' = RoomChatState /\ RoomChatState' \in ChatState
    BY <1>4, StateAfter, StateMade DEF ChatInvariant
  <2>3. Head(job[h]).do \notin {"emit"} \cup Histories BY <2>1 DEF Histories
  <2>4. chat' \in ChatState \cup {NoRoomChat} /\ log' \in Seq(Message) /\ ids' \in 0 .. MaxMessages
    BY <1>4 DEF ChatInvariant, Types
  <2>5. Kept(RoomChatState', log') BY <1>4, <2>2 DEF ChatInvariant
  <2> QED BY <1>4, <2>1, <2>2, <2>3, <2>4, <2>5, StateStep
<1> QED BY <1>3, <1>4 DEF MaybeComment

LEMMA ClearKeeps ==
  ASSUME ChatInvariant, NEW p \in Page, Clear(p)
  PROVE  ChatInvariant'
<1>1. /\ Upcoming(p, "clear") /\ job' = [job EXCEPT ![p] = Tail(job[p])]
      /\ chat' = NoRoomChat /\ log' = <<>>
      /\ UNCHANGED <<channel, received, ids, moves, botRoom>> /\ p \in Handler
  BY DEF Clear, Proceed, Handler
<1> DEFINE before == <<>>
<1>2. /\ job[p] # <<>> /\ Head(job[p]).do = "clear" /\ before \in Seq(Step) /\ Asked(before)
      /\ job' = [job EXCEPT ![p] = before \o Tail(job[p])]
  BY <1>1, OneStep
<1> HIDE DEF before
<1>3. RoomChatState' = [history |-> <<>>, seeded |-> FALSE, lastCommentAt |-> 0]
  BY <1>1 DEF RoomChatState
<1> DEFINE new == [history |-> <<>>, seeded |-> FALSE, lastCommentAt |-> 0]
<1>4. new \in ChatState /\ Kept(new, <<>>)
  <2>1. <<>> \in Seq(Message) /\ Len(<<>>) = 0 /\ MaxChatHistory \in Nat BY EmptySeq
  <2>2. new \in ChatState BY <2>1 DEF ChatState
  <2>3. Suffix(<<>>, <<>>) BY <2>1 DEF Suffix
  <2>4. Long(<<>>, <<>>, FALSE) BY <2>1 DEF Long
  <2>5. Welcomed(<<>>, FALSE) BY <2>1 DEF Welcomed
  <2>6. Commented(<<>>, 0) BY <2>1 DEF Commented
  <2> QED BY <2>2, <2>3, <2>4, <2>5, <2>6 DEF Kept
<1>5. DOMAIN new.history = {} OBVIOUS
<1> HIDE DEF new
<1>6. Head(job[p]).do \notin {"emit"} \cup Histories BY <1>2 DEF Histories
<1>7. RoomChatState' = new BY <1>3 DEF new
<1>8. log' \in Seq(Message) /\ ids' \in 0 .. MaxMessages /\ Kept(new, log')
  BY <1>1, <1>4, EmptySeq DEF ChatInvariant, Types
<1> QED BY <1>1, <1>2, <1>4, <1>5, <1>6, <1>7, <1>8, StateStep

LEMMA EmitKeeps ==
  ASSUME ChatInvariant, NEW h \in Handler, Emit(h)
  PROVE  ChatInvariant'
<1> DEFINE s == job[h]
           sent == Ids(Head(s).message)
<1>1. /\ Upcoming(h, "emit") /\ job' = [job EXCEPT ![h] = Tail(s)]
      /\ received' = [p \in Page |-> IF p \in channel THEN received[p] \cup sent ELSE received[p]]
      /\ UNCHANGED <<chat, channel, ids, moves, botRoom, log>>
  BY DEF Emit, Proceed
<1>2. /\ s # <<>> /\ Head(s).do = "emit" /\ s \in Seq(Step) /\ Head(s) \in Step /\ Asked(s)
      /\ Types
  BY <1>1, OneStep DEF ChatInvariant, JoinersAsk
<1>3. /\ Asked(Tail(s)) /\ Tail(s) \in Seq(Step) /\ (Due(s) => Due(Tail(s)))
      /\ Head(s) = s[1]
      /\ \A i \in DOMAIN s : i = 1 \/ (i - 1 \in DOMAIN Tail(s) /\ Tail(s)[i - 1] = s[i])
  BY <1>2, AskedAfter, StepTaken DEF Histories
<1>4. \A g \in Handler : job'[g] = IF g = h THEN Tail(s) ELSE job[g]
  BY <1>1, <1>2 DEF Types
<1>5. sent \subseteq 1 .. MaxMessages
  <2>1. Head(s).message \in Seq(Message) BY <1>2 DEF Step
  <2> DEFINE ms == Head(s).message
  <2> HIDE DEF ms
  <2>2. ms \in Seq(Message) => Ids(ms) \subseteq 1 .. MaxMessages
    <3> SUFFICES ASSUME ms \in Seq(Message), NEW i \in DOMAIN ms PROVE ms[i].id \in 1 .. MaxMessages
      BY DEF Ids
    <3>1. i \in 1 .. Len(ms) OBVIOUS
    <3>2. ms[i] \in Message BY <3>1, ElementOfSeq
    <3> QED BY <3>2 DEF Message
  <2> QED BY <2>1, <2>2 DEF ms
<1> HIDE DEF sent
<1>6. Types'
  <2>1. received' \in [Page -> SUBSET (1 .. MaxMessages)] BY <1>1, <1>2, <1>5 DEF Types
  <2>2. job' \in [Handler -> Seq(Step)] BY <1>1, <1>2, <1>3 DEF Types
  <2> QED BY <1>1, <1>2, <2>1, <2>2 DEF Types
<1>7. RoomChatState' = RoomChatState BY <1>1, StateAfter
<1>8. Kept(RoomChatState, log)' BY <1>1, <1>7 DEF ChatInvariant
<1>9. JoinersAsk' BY <1>3, <1>4 DEF ChatInvariant, JoinersAsk
<1>10. \A p \in channel' : p \in channel /\ p \in Page /\ received'[p] = received[p] \cup sent
  BY <1>1, <1>2 DEF Types
<1>11. ASSUME NEW p \in channel', NEW id, Emitting(job, id)
       PROVE  Emitting(job', id) \/ id \in received'[p]
  <2>1. PICK g \in Handler : \E i \in DOMAIN job[g] :
          job[g][i].do = "emit" /\ id \in Ids(job[g][i].message)
    BY <1>11 DEF Emitting
  <2>2. PICK i \in DOMAIN job[g] : job[g][i].do = "emit" /\ id \in Ids(job[g][i].message)
    BY <2>1
  <2>3. CASE g # h
    <3>1. job'[g] = job[g] BY <1>4, <2>3
    <3> QED BY <2>2, <3>1 DEF Emitting
  <2>4. CASE g = h /\ i = 1 BY <1>3, <1>10, <2>2, <2>4 DEF sent
  <2>5. CASE g = h /\ i # 1
    <3>1. i - 1 \in DOMAIN job'[g] /\ job'[g][i - 1] = job[g][i] BY <1>3, <1>4, <2>2, <2>5
    <3> QED BY <2>2, <3>1 DEF Emitting
  <2> QED BY <2>3, <2>4, <2>5
<1>12. \A p \in channel' : ~Due(job'[p]) => p \in channel /\ ~Due(job[p])
  <2>1. \A p \in channel' : p \in Handler BY <1>10 DEF Handler
  <2> QED BY <1>3, <1>4, <1>10, <2>1
<1>13. Heard' BY <1>7, <1>10, <1>11, <1>12, HeardKept DEF ChatInvariant
<1> QED BY <1>6, <1>8, <1>9, <1>13 DEF ChatInvariant

LEMMA JoinKeeps ==
  ASSUME ChatInvariant, NEW p \in Page, Join(p)
  PROVE  ChatInvariant'
<1>1. /\ Upcoming(p, "join") /\ job' = [job EXCEPT ![p] = Tail(job[p])]
      /\ channel' = channel \cup {p} /\ p \in Handler
      /\ UNCHANGED <<chat, received, ids, moves, botRoom, log>>
  BY DEF Join, Proceed, Handler
<1> DEFINE before == <<>>
<1>2. /\ job[p] # <<>> /\ Head(job[p]).do = "join" /\ before \in Seq(Step) /\ Asked(before)
      /\ job' = [job EXCEPT ![p] = before \o Tail(job[p])]
  BY <1>1, OneStep
<1> HIDE DEF before
<1>3. /\ job' \in [Handler -> Seq(Step)] /\ JoinersAsk' /\ Due(job'[p])
      /\ \A id : Emitting(job, id) => Emitting(job', id)
      /\ \A g \in Handler : g # p => job'[g] = job[g]
  BY <1>1, <1>2, HandlerSteps
<1>4. Types' BY <1>1, <1>3 DEF ChatInvariant, Types
<1>5. RoomChatState' = RoomChatState BY <1>1, StateAfter
<1>6. Kept(RoomChatState, log)' BY <1>1, <1>5 DEF ChatInvariant
<1>7. \A q \in channel' : ~Due(job'[q]) => q \in channel /\ ~Due(job[q])
  <2>1. \A q \in channel' : q \in Handler /\ (q = p \/ q \in channel)
    BY <1>1, <1>4 DEF Types, Handler
  <2> QED BY <1>3, <2>1
<1>8. Heard' BY <1>1, <1>3, <1>5, <1>7, HeardKept DEF ChatInvariant
<1> QED BY <1>3, <1>4, <1>6, <1>8 DEF ChatInvariant

LEMMA HistoryKeeps ==
  ASSUME ChatInvariant, NEW p \in Page, History(p)
  PROVE  ChatInvariant'
<1>1. PICK training \in BOOLEAN :
        /\ Seeded(training) /\ (Upcoming(p, "history") \/ Upcoming(p, "bareHistory"))
  BY DEF History, ChatInvariant, Types
<1>2. /\ job' = [job EXCEPT ![p] = Tail(job[p])] /\ p \in Handler
      /\ received' = [received EXCEPT ![p] = @ \cup Ids(chat'.history)]
      /\ UNCHANGED <<channel, moves, botRoom>>
  BY DEF History, Proceed, Handler
<1> DEFINE before == <<>>
<1>3. /\ job[p] # <<>> /\ Head(job[p]).do \in Histories /\ before \in Seq(Step) /\ Asked(before)
      /\ job' = [job EXCEPT ![p] = before \o Tail(job[p])]
  BY <1>1, <1>2, OneStep DEF Histories
<1> HIDE DEF before
<1>4. /\ job' \in [Handler -> Seq(Step)] /\ JoinersAsk'
      /\ \A id : Emitting(job, id) => Emitting(job', id)
      /\ \A g \in Handler : g # p => job'[g] = job[g]
  BY <1>2, <1>3, HandlerSteps DEF Histories
<1>5. /\ chat' \in ChatState /\ log' \in Seq(Message) /\ ids' \in 0 .. MaxMessages
      /\ Kept(chat', log')
      /\ \A i \in DOMAIN chat'.history :
           \/ \E j \in DOMAIN RoomChatState.history :
                chat'.history[i] = RoomChatState.history[j]
           \/ chat'.history[i].sender \in {"system", "welcome"}
  BY <1>1, SeededKeeps DEF ChatInvariant
<1>6. RoomChatState' = chat' BY <1>5, StateAfter
<1>7. \A i \in DOMAIN chat'.history :
        \/ \E j \in DOMAIN RoomChatState.history : chat'.history[i] = RoomChatState.history[j]
        \/ ~Broadcasted(chat'.history[i])
  BY <1>5 DEF Broadcasted
<1>8. Ids(chat'.history) \subseteq 1 .. MaxMessages
  <2> DEFINE g == chat'.history
  <2>1. g \in Seq(Message) BY <1>5 DEF ChatState
  <2> HIDE DEF g
  <2>2. \A i \in DOMAIN g : g[i] \in Message BY <2>1
  <2>3. Ids(g) \subseteq 1 .. MaxMessages BY <2>2 DEF Ids, Message
  <2> QED BY <2>3 DEF g
<1>9. received \in [Page -> SUBSET (1 .. MaxMessages)] /\ channel \subseteq Page
  BY DEF ChatInvariant, Types
<1>10. received' \in [Page -> SUBSET (1 .. MaxMessages)] BY <1>2, <1>8, <1>9
<1>11. Types' BY <1>2, <1>4, <1>5, <1>10 DEF ChatInvariant, Types
<1>12. \A q \in channel' : received[q] \subseteq received'[q] BY <1>2, <1>9
<1>13. \A i \in DOMAIN chat'.history : chat'.history[i].id \in received'[p]
  <2>1. received'[p] = received[p] \cup Ids(chat'.history) BY <1>2, <1>9
  <2> QED BY <2>1 DEF Ids
<1>14. \A q \in channel' : ~Due(job'[q]) =>
         \/ q \in channel /\ ~Due(job[q])
         \/ \A i \in DOMAIN RoomChatState'.history : RoomChatState'.history[i].id \in received'[q]
  <2>1. \A q \in channel' : q \in Handler /\ q \in channel BY <1>2, <1>9 DEF Handler
  <2> QED BY <1>4, <1>6, <1>13, <2>1
<1>15. Heard' BY <1>4, <1>6, <1>7, <1>12, <1>14, HeardKept DEF ChatInvariant
<1>16. Kept(RoomChatState, log)' BY <1>5, <1>6
<1> QED BY <1>4, <1>11, <1>15, <1>16 DEF ChatInvariant

-----------------------------------------------------------------------------
(* The theorems.                                                           *)

LEMMA InitSound == Init => ChatInvariant
<1> SUFFICES ASSUME Init PROVE ChatInvariant OBVIOUS
<1> DEFINE new == [history |-> <<>>, seeded |-> FALSE, lastCommentAt |-> 0]
<1>1. RoomChatState = new /\ log = <<>> BY DEF Init, RoomChatState
<1>2. <<>> \in Seq(Message) /\ <<>> \in Seq(Step) /\ Len(<<>>) = 0 /\ MaxChatHistory \in Nat
  BY EmptySeq
<1>3. Types
  <2>1. job \in [Handler -> Seq(Step)] BY <1>2 DEF Init
  <2>2. received \in [Page -> SUBSET (1 .. MaxMessages)] BY DEF Init
  <2>3. 0 \in 0 .. MaxMessages /\ 0 \in 0 .. MaxMoves OBVIOUS
  <2> QED BY <1>2, <2>1, <2>2, <2>3 DEF Init, Types
<1>4. Kept(new, <<>>)
  <2>1. Suffix(<<>>, <<>>) BY <1>2 DEF Suffix
  <2>2. Long(<<>>, <<>>, FALSE) BY <1>2 DEF Long
  <2>3. Welcomed(<<>>, FALSE) BY <1>2 DEF Welcomed
  <2>4. Commented(<<>>, 0) BY <1>2 DEF Commented
  <2> QED BY <2>1, <2>2, <2>3, <2>4 DEF Kept
<1>5. JoinersAsk BY DEF Init, JoinersAsk, Asked
<1>6. Heard BY DEF Init, Heard
<1> HIDE DEF new
<1> QED BY <1>1, <1>3, <1>4, <1>5, <1>6 DEF ChatInvariant

LEMMA StepKeeps == ChatInvariant /\ [Next]_vars => ChatInvariant'
<1> SUFFICES ASSUME ChatInvariant, [Next]_vars PROVE ChatInvariant' OBVIOUS
<1>1. CASE UNCHANGED vars
  <2>1. RoomChatState' = RoomChatState BY <1>1 DEF vars, RoomChatState
  <2>2. Types' /\ Kept(RoomChatState, log)' /\ JoinersAsk'
    BY <1>1, <2>1 DEF vars, ChatInvariant, Types, JoinersAsk
  <2>3. Heard' BY <1>1, <2>1 DEF vars, ChatInvariant, Heard, Emitting
  <2> QED BY <2>2, <2>3 DEF ChatInvariant
<1>2. CASE Next
  <2>1. ASSUME NEW p \in Page, Enter(p) PROVE ChatInvariant' BY <2>1, BeginningsKeep
  <2>2. ASSUME NEW h \in Handler, Move(h) PROVE ChatInvariant' BY <2>2, BeginningsKeep
  <2>3. ASSUME NEW p \in Page, NEW mirrored \in BOOLEAN, Chat(p, mirrored) PROVE ChatInvariant'
    BY <2>3, BeginningsKeep
  <2>4. ASSUME NEW p \in Page, Heartbeat(p) PROVE ChatInvariant' BY <2>4, BeginningsKeep
  <2>5. ASSUME NEW p \in Page, LeaveClosed(p) PROVE ChatInvariant' BY <2>5, BeginningsKeep
  <2>6. ASSUME NEW p \in Page, Close(p) PROVE ChatInvariant' BY <2>6, CloseKeeps
  <2>7. ASSUME NEW h \in Handler, Seed(h) PROVE ChatInvariant' BY <2>7, SeedKeeps
  <2>8. ASSUME NEW h \in Handler, AppendChatMessage(h) PROVE ChatInvariant' BY <2>8, AppendKeeps
  <2>9. ASSUME NEW h \in Handler, MaybeComment(h) PROVE ChatInvariant' BY <2>9, CommentKeeps
  <2>10. ASSUME NEW h \in Handler, Emit(h) PROVE ChatInvariant' BY <2>10, EmitKeeps
  <2>11. ASSUME NEW p \in Page, Join(p) PROVE ChatInvariant' BY <2>11, JoinKeeps
  <2>12. ASSUME NEW p \in Page, History(p) PROVE ChatInvariant' BY <2>12, HistoryKeeps
  <2>13. ASSUME NEW p \in Page, Clear(p) PROVE ChatInvariant' BY <2>13, ClearKeeps
  <2> QED
    BY <1>2, <2>1, <2>2, <2>3, <2>4, <2>5, <2>6, <2>7, <2>8, <2>9, <2>10, <2>11, <2>12, <2>13
    DEF Next
<1> QED BY <1>1, <1>2

\* The chat's state is what its log makes of it, somebody who joins the channel
\* asks for the history after it, and who has asked lacks nothing that was
\* emitted (withAck 536-540, roomChat and its users 739-783).
THEOREM ChatIsSound == Spec => []ChatInvariant
<1>1. Init => ChatInvariant BY InitSound
<1>2. ChatInvariant /\ [Next]_vars => ChatInvariant' BY StepKeeps
<1> QED BY <1>1, <1>2, PTL DEF Spec

LEMMA Reversed ==
  ASSUME NEW s \in Seq(Message)
  PROVE  /\ Reverse(s) \in Seq(Message) /\ Len(Reverse(s)) = Len(s)
         /\ \A i \in 1 .. Len(s) : Reverse(s)[i] = s[Len(s) - i + 1]
<1> DEFINE n == Len(s)
           f == [i \in 1 .. n |-> s[(n - i) + 1]]
<1>1. n \in Nat /\ \A i \in 1 .. n : (n - i) + 1 \in 1 .. n OBVIOUS
<1>2. \A i \in 1 .. n : s[(n - i) + 1] \in Message BY <1>1, ElementOfSeq
<1> HIDE DEF n
<1>3. f \in [1 .. n -> Message] BY <1>2
<1>4. f \in Seq(Message) /\ Len(f) = n BY <1>1, <1>3
<1>5. \A i \in 1 .. n : f[i] = s[(n - i) + 1] OBVIOUS
<1> QED BY <1>4, <1>5 DEF Reverse, n

LEMMA SuffixIsSuffix ==
  ASSUME NEW h \in Seq(Message), NEW l \in Seq(Message), Suffix(h, l)
  PROVE  IsSuffix(h, l)
<1> DEFINE a == Reverse(h)
           b == Reverse(l)
           n == Len(h)
           k == Len(l)
<1>1. /\ a \in Seq(Message) /\ Len(a) = n /\ n \in Nat /\ k \in Nat
      /\ b \in Seq(Message) /\ Len(b) = k /\ n <= k
      /\ \A i \in 1 .. n : a[i] = h[n - i + 1]
      /\ \A i \in 1 .. k : b[i] = l[k - i + 1]
  BY Reversed DEF Suffix
<1> HIDE DEF a, b, n, k
<1>2. ASSUME NEW i \in 1 .. n PROVE a[i] = b[i] /\ a[i] \in Message /\ b[i] \in Message
  <2>1. n - i + 1 \in 1 .. n /\ k - n + (n - i + 1) = k - i + 1 /\ i \in 1 .. k BY <1>1
  <2>2. h[n - i + 1] = l[k - n + (n - i + 1)] BY <2>1 DEF Suffix, n, k
  <2>3. a[i] = b[i] BY <1>1, <2>1, <2>2
  <2>4. b[i] \in Message BY <1>1, <2>1, ElementOfSeq DEF k
  <2> QED BY <2>3, <2>4
<1> DEFINE x == SubSeq(a, 1, n)
           y == SubSeq(b, 1, n)
<1>3. /\ x \in Seq(Message) /\ Len(x) = n /\ \A i \in 1 .. n : x[i] = a[i]
      /\ y \in Seq(Message) /\ Len(y) = n /\ \A i \in 1 .. n : y[i] = b[i]
  <2>1. /\ x \in Seq(Message) /\ Len(x) = IF 1 <= n THEN n - 1 + 1 ELSE 0
        /\ \A i \in 1 .. n - 1 + 1 : x[i] = a[1 + i - 1]
    BY <1>1, <1>2, SubSeqProperties
  <2>2. /\ y \in Seq(Message) /\ Len(y) = IF 1 <= n THEN n - 1 + 1 ELSE 0
        /\ \A i \in 1 .. n - 1 + 1 : y[i] = b[1 + i - 1]
    BY <1>1, <1>2, SubSeqProperties
  <2> HIDE DEF x, y
  <2>3. n - 1 + 1 = n /\ (IF 1 <= n THEN n - 1 + 1 ELSE 0) = n /\ \A i \in 1 .. n : 1 + i - 1 = i
    BY <1>1
  <2> QED BY <2>1, <2>2, <2>3
<1> HIDE DEF x, y
<1>4. x = y
  <2>1. Len(x) = Len(y) /\ \A i \in 1 .. Len(x) : x[i] = y[i] BY <1>2, <1>3
  <2> QED BY <1>3, <2>1, SeqEqual
<1>5. IsPrefix(a, b) BY <1>1, <1>4 DEF IsPrefix, x, y, n, k
<1> QED BY <1>5 DEF IsSuffix, a, b

LEMMA InvariantSound == ChatInvariant => HistorySound
<1> SUFFICES ASSUME ChatInvariant PROVE HistorySound OBVIOUS
<1>1. TypeOK BY DEF ChatInvariant, Types, TypeOK
<1>2. HistoryIsNewest
  <2> SUFFICES ASSUME chat # NoRoomChat
               PROVE  /\ IsSuffix(chat.history, log)
                      /\ Len(chat.history) >= IF Len(log) < MaxChatHistory THEN Len(log)
                                              ELSE MaxChatHistory
                      /\ Len(chat.history) <= MaxChatHistory + 2
    BY DEF HistoryIsNewest
  <2>1. RoomChatState = chat BY DEF RoomChatState
  <2>2. Suffix(chat.history, log) /\ Long(chat.history, log, chat.seeded)
    BY <2>1 DEF ChatInvariant, Kept
  <2>3. chat.history \in Seq(Message) /\ log \in Seq(Message) /\ chat.seeded \in BOOLEAN
    BY DEF ChatInvariant, Types, ChatState
  <2>4. IsSuffix(chat.history, log) BY <2>2, <2>3, SuffixIsSuffix
  <2>5. Len(chat.history) <= MaxChatHistory + 2
    <3> DEFINE n == Len(chat.history)
    <3>1. n \in Nat /\ MaxChatHistory \in Nat BY <2>3
    <3>2. n <= MaxChatHistory + (IF chat.seeded THEN 2 ELSE 0) BY <2>2 DEF Long
    <3> HIDE DEF n
    <3>3. CASE chat.seeded BY <3>1, <3>2, <3>3 DEF n
    <3>4. CASE ~chat.seeded BY <3>1, <3>2, <3>4 DEF n
    <3> QED BY <3>3, <3>4
  <2> QED BY <2>2, <2>4, <2>5 DEF Long
<1>3. WelcomesOnce
  <2> DEFINE S == {i \in DOMAIN log : log[i].sender = "system"}
  <2>1. DOMAIN log = 1 .. Len(log) BY DEF ChatInvariant, Types
  <2>2. \A i, j \in S : i = j BY <2>1 DEF ChatInvariant, Kept, Welcomed
  <2> HIDE DEF S
  <2>3. CASE S = {} BY <2>3, FS_EmptySet DEF S, WelcomesOnce
  <2>4. CASE S # {}
    <3>1. PICK i : S = {i} BY <2>2, <2>4
    <3>2. Cardinality(S) = 1 BY <3>1, FS_Singleton
    <3> QED BY <3>2 DEF S, WelcomesOnce
  <2> QED BY <2>3, <2>4
<1> QED BY <1>1, <1>2, <1>3 DEF HistorySound

\* What the room remembers is the newest of all that was written, as much as
\* the cap allows and with one welcome, for any cap and any number of pages
\* that seed and append at the same time (739-783, 807).
THEOREM HistoryIsSound == Spec => []HistorySound
BY ChatIsSound, InvariantSound, PTL

LEMMA InvariantHeard == ChatInvariant => NoMessageMissed
<1> SUFFICES ASSUME ChatInvariant, chat # NoRoomChat, NEW p \in channel, job[p] = <<>>,
                    NEW i \in DOMAIN chat.history,
                    Broadcasted(chat.history[i]), ~BeingEmitted(chat.history[i].id)
             PROVE  chat.history[i].id \in received[p]
  BY DEF NoMessageMissed
<1>1. RoomChatState = chat BY DEF RoomChatState
<1>2. ~Due(job[p]) BY DEF Due
<1>3. ~Emitting(job, chat.history[i].id) BY DEF Emitting, BeingEmitted
<1>4. Heard BY DEF ChatInvariant
<1> QED BY <1>1, <1>2, <1>3, <1>4 DEF Heard

\* A page that listens and waits for nothing has every message of the history
\* that was emitted, whatever joined, was written, emitted, copied or cleared
\* between the steps of its own request (536-540).
THEOREM NothingIsMissed == Spec => []NoMessageMissed
BY ChatIsSound, InvariantHeard, PTL

LEMMA InvariantComments == ChatInvariant => NoCommentTwiceInARow
<1> SUFFICES ASSUME ChatInvariant, NEW i \in DOMAIN log, NEW j \in 1 .. i - 1,
                    log[i].sender = "comment", log[j].sender = "comment",
                    \A k \in j + 1 .. i - 1 : log[k].sender # "comment"
             PROVE  log[i].move # log[j].move
  BY DEF NoCommentTwiceInARow
<1>1. i \in 1 .. Len(log) BY DEF ChatInvariant, Types
<1>2. InARow(log, j, i) BY DEF InARow
<1>3. Commented(log, RoomChatState.lastCommentAt) BY DEF ChatInvariant, Kept
<1> QED BY <1>1, <1>2, <1>3 DEF Commented

\* Two comments in a row are about different moves, in every interleaving of
\* the handlers that broadcast the same snapshot (785-814).
THEOREM CommentsDiffer == Spec => []NoCommentTwiceInARow
BY ChatIsSound, InvariantComments, PTL
=============================================================================

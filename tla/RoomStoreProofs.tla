--------------------------- MODULE RoomStoreProofs ---------------------------
(***************************************************************************)
(* Whatever handlers overlap, in any number and order, and whatever is     *)
(* lost, the stored record and the copies being worked on are sound.       *)
(***************************************************************************)
EXTENDS RoomStore, RoomRulesProofs

USE ParametersAssumption, StoreAssumption DEF RoomWith

\* What a copy that was loaded soundly is saved as.
LEMMA SavedSound ==
  ASSUME NEW n \in Nat, now = n, NEW j \in Serving \cup Ticking, LoadedCopy(j),
         NEW q \in Results(j), q # Absent
  PROVE  Sound(q, n) /\ Members(q) \subseteq issued
<1>1. j.ts \in Nat /\ j.ts <= n /\ j.copy \in Room \cup {Absent}
  BY DEF LoadedCopy, Serving, Ticking
<1>2. j.op # "create" => /\ j.copy \in Room /\ Sound(j.copy, n)
                         /\ Members(j.copy) \subseteq issued
  BY <1>1, SoundLater DEF LoadedCopy
<1>3. j.op # "tick" => j.token \in Token /\ j.fresh \in Token
  BY DEF Serving, Ticking
<1>4. CASE j.op = "create"
  <2>1. PICK m \in {"pvp", "bot_easy"}, c \in BOOLEAN : q = NewRoom(m, c, j.fresh)
    BY <1>4 DEF Results
  <2>2. j.fresh \in issued BY <1>4 DEF LoadedCopy
  <2> QED BY <1>3, <1>4, <2>1, <2>2, NewRoomSound
<1>5. CASE j.op = "join"
  <2>1. q \in JoinResults(j.copy, j.token, j.fresh) BY <1>5 DEF Results
  <2>2. j.token \notin Members(j.copy) => j.fresh \in issued \ Members(j.copy)
    BY <1>5 DEF LoadedCopy
  <2>3. Sound(q, n) BY <1>2, <1>3, <1>5, <2>1, <2>2, JoinSound
  <2>4. Members(q) \subseteq issued
    BY <1>2, <1>3, <1>5, <2>1, <2>2, JoinPeople
  <2> QED BY <2>3, <2>4
<1>6. CASE j.op = "leave"
  <2>1. q \in LeaveResults(j.copy, j.token) BY <1>6 DEF Results
  <2> QED BY <1>2, <1>3, <1>6, <2>1, LeaveSound, LeavePeople
<1>7. CASE j.op \in {"sync", "disconnect"}
  <2>1. q \in SyncResults(j.copy, j.token) \cup MarkDisconnectedResults(j.copy, j.token)
    BY <1>7 DEF Results
  <2>2. Sound(q, n)
    BY <1>2, <1>3, <1>7, <2>1, ReconnectSound, DisconnectSound
    DEF SyncResults, MarkDisconnectedResults
  <2> QED BY <1>2, <1>3, <1>7, <2>1, <2>2, OtherPeople
<1>8. CASE j.op = "submit"
  <2>1. q \in SubmitActionResults(j.copy, j.token, j.ts) BY <1>8 DEF Results
  <2>2. Sound(j.copy, j.ts) BY <1>8 DEF LoadedCopy
  <2>3. Sound(q, n) BY <1>1, <1>3, <1>8, <2>1, <2>2, SubmitActionSound, SoundLater
  <2>4. Members(q) = Members(j.copy) BY <1>1, <1>3, <1>8, <2>1, <2>2, GamePeople
  <2> QED BY <1>2, <1>8, <2>3, <2>4
<1>9. CASE j.op = "resign"
  <2>1. q \in ResignResults(j.copy, j.token) BY <1>9 DEF Results
  <2> QED BY <1>2, <1>3, <1>9, <2>1, ResignSound, OtherPeople
<1>10. CASE j.op \in {"offer", "accept", "decline"}
  <2>1. q \in OfferDrawResults(j.copy, j.token) \cup AcceptDrawResults(j.copy, j.token)
                \cup DeclineDrawResults(j.copy, j.token)
    BY <1>10 DEF Results
  <2> QED BY <1>2, <1>3, <1>10, <2>1, DrawSound, OtherPeople
<1>11. CASE j.op = "tick"
  <2>1. q \in TickResults(j.copy, j.ts) BY <1>11 DEF Results
  <2>2. Sound(j.copy, j.ts) BY <1>11 DEF LoadedCopy
  <2>3. Sound(q, n) BY <1>1, <2>1, <2>2, TickSound, SoundLater
  <2>4. CASE Token = {} BY <2>3, <2>4 DEF Members
  <2>5. CASE Token # {}
    <3>1. PICK t \in Token : TRUE BY <2>5
    <3>2. Members(q) = Members(j.copy) BY <1>1, <2>1, <2>2, GamePeople
    <3> QED BY <1>2, <1>11, <2>3, <3>2
  <2> QED BY <2>4, <2>5
<1> QED
  BY <1>4, <1>5, <1>6, <1>7, <1>8, <1>9, <1>10, <1>11 DEF Serving, Ticking, Command

-----------------------------------------------------------------------------

Inv == TypeOK /\ AllSound

\* A copy that was sound stays so as time passes and tokens are handed out.
LEMMA CopyKept ==
  ASSUME TypeOK, TypeOK', now <= now', issued \subseteq issued',
         NEW j \in Serving \cup Ticking, LoadedCopy(j)
  PROVE  LoadedCopy(j)'
<1>1. now \in Nat /\ now' \in Nat BY DEF TypeOK
<1>2. j.ts \in Nat /\ j.ts <= now' BY <1>1 DEF LoadedCopy, Serving, Ticking
<1>3. j.op # "create" =>
        Sound(j.copy, IF j.op \in {"submit", "tick"} THEN j.ts ELSE now')
  BY <1>1, SoundLater DEF LoadedCopy
<1> QED BY <1>2, <1>3 DEF LoadedCopy

\* The record: a step that keeps it, loses it, or saves a sound one.
LEMMA JobsKept ==
  ASSUME Inv, TypeOK', now <= now', issued \subseteq issued',
         store' \in {store, Absent} \/ (Sound(store', now') /\ Members(store') \subseteq issued'),
         \A h \in Handler : job'[h] = job[h] \/ ~HasLoaded(h)' \/ LoadedCopy(job[h])'
  PROVE  Inv'
<1>1. now \in Nat /\ now' \in Nat BY DEF Inv, TypeOK
<1>2. store' # Absent => Sound(store', now') /\ Members(store') \subseteq issued'
  BY <1>1, SoundLater DEF Inv, AllSound
<1>3. ASSUME NEW h \in Handler, HasLoaded(h)' PROVE LoadedCopy(job[h])'
  <2>1. CASE job'[h] = job[h]
    <3>1. HasLoaded(h) /\ job[h] \in Job BY <1>3, <2>1 DEF HasLoaded, Inv, TypeOK
    <3>2. PICK j \in Serving \cup Ticking : j = job[h]
      BY <3>1 DEF HasLoaded, Job, Idle, Noting
    <3>3. LoadedCopy(j) BY <3>1, <3>2 DEF Inv, AllSound
    <3>4. LoadedCopy(j)' BY <3>3, CopyKept DEF Inv
    <3> QED BY <2>1, <3>2, <3>4 DEF LoadedCopy
  <2> QED BY <1>3, <2>1
<1> QED BY <1>2, <1>3 DEF Inv, AllSound

LEMMA InitInv == ASSUME Init PROVE Inv
<1>1. Idle \in Job /\ Idle.stage # "loaded" BY DEF Job, Idle
<1>2. MaxRequests \in Nat /\ MaxRestarts \in Nat /\ MaxTime \in Nat OBVIOUS
<1>3. job \in [Handler -> Job] BY <1>1 DEF Init
<1>4. TypeOK
  <2>1. tracked \in BOOLEAN BY Zenon DEF Init
  <2>2. /\ store \in Room \cup {Absent} /\ issued \subseteq Token
        /\ requests \in 0 .. MaxRequests /\ restarts \in 0 .. MaxRestarts /\ now \in 0 .. MaxTime
    BY <1>2 DEF Init
  <2> QED BY <1>3, <2>1, <2>2 DEF TypeOK
<1>5. AllSound BY <1>1 DEF Init, AllSound, HasLoaded
<1> QED BY <1>4, <1>5 DEF Inv

LEMMA BecomesJob ==
  ASSUME TypeOK, NEW h \in Handler, NEW x \in Job, Becomes(h, x)
  PROVE  /\ job' \in [Handler -> Job] /\ job'[h] = x
         /\ \A g \in Handler \ {h} : job'[g] = job[g]
BY DEF Becomes, TypeOK

LEMMA LoadInv ==
  ASSUME Inv, NEW w \in Worker, NEW op \in Command, NEW t \in Token, NEW fresh \in Token,
         Load(w, op, t, fresh)
  PROVE  Inv'
<1> DEFINE ts == IF op = "submit" THEN now ELSE 0
           j == [stage |-> "loaded", op |-> op, token |-> t, fresh |-> fresh,
                 copy |-> store, ts |-> ts]
<1>1. /\ store \in Room \cup {Absent} /\ now \in 0 .. MaxTime /\ issued \subseteq Token
      /\ requests \in 0 .. MaxRequests /\ MaxRequests \in Nat
      /\ store # Absent => Sound(store, now) /\ Members(store) \subseteq issued
  BY DEF Inv, TypeOK, AllSound
<1>2. /\ Becomes(w, j) /\ UNCHANGED <<store, tracked, restarts, now>>
      /\ op = "create" <=> store = Absent
      /\ IF NeedsToken(op, t) THEN fresh \notin issued /\ issued' = issued \cup {fresh}
         ELSE issued' = issued
  BY DEF Load
<1>3. requests' \in 0 .. MaxRequests
  BY <1>1 DEF Load
<1>4. ts \in 0 .. MaxTime /\ ts <= now /\ j \in Serving
  BY <1>1 DEF Serving
<1>5. w \in Handler /\ j \in Job BY <1>4 DEF Handler, Job
<1>6. /\ op = "create" => fresh \in issued'
      /\ op # "create" => Sound(store, now) /\ Members(store) \subseteq issued'
      /\ op = "join" /\ t \notin Members(store) => fresh \in issued' \ Members(store)
  BY <1>1, <1>2 DEF NeedsToken
<1>7. /\ j.op = op /\ j.token = t /\ j.fresh = fresh /\ j.copy = store /\ j.ts = ts
      /\ op = "submit" => ts = now
      /\ op # "tick"
  BY DEF Command
<1> HIDE DEF j, ts
<1>8. /\ job' \in [Handler -> Job] /\ job'[w] = j
      /\ \A g \in Handler \ {w} : job'[g] = job[g]
  BY <1>2, <1>5, BecomesJob DEF Inv
<1>9. TypeOK' BY <1>1, <1>2, <1>3, <1>8 DEF Inv, TypeOK
<1>10. LoadedCopy(job[w])'
  BY <1>2, <1>4, <1>6, <1>7, <1>8 DEF LoadedCopy
<1>11. now <= now' /\ issued \subseteq issued' BY <1>1, <1>2
<1> QED BY <1>2, <1>8, <1>9, <1>10, <1>11, JobsKept

LEMMA TickLoadInv == ASSUME Inv, TickLoad PROVE Inv'
<1> DEFINE j == [stage |-> "loaded", op |-> "tick", copy |-> store, ts |-> now]
           x == IF store = Absent THEN [stage |-> "untrack"] ELSE j
<1>1. /\ Becomes(Ticker, x) /\ UNCHANGED <<store, tracked, issued, requests, restarts, now>>
  BY DEF TickLoad
<1>2. /\ store \in Room \cup {Absent} /\ now \in 0 .. MaxTime
      /\ store # Absent => Sound(store, now) /\ Members(store) \subseteq issued
  BY DEF Inv, TypeOK, AllSound
<1>3. Ticker \in Handler /\ x \in Job
  BY <1>2 DEF Handler, Job, Ticking, Noting
<1>4. x.stage = "untrack" \/ (store # Absent /\ x = j)
  OBVIOUS
<1>5. j.op = "tick" /\ j.copy = store /\ j.ts = now
  OBVIOUS
<1> HIDE DEF x, j
<1>6. /\ job' \in [Handler -> Job] /\ job'[Ticker] = x
      /\ \A g \in Handler \ {Ticker} : job'[g] = job[g]
  BY <1>1, <1>3, BecomesJob DEF Inv
<1>7. TypeOK' BY <1>1, <1>6 DEF Inv, TypeOK
<1>8. ~HasLoaded(Ticker)' \/ LoadedCopy(job[Ticker])'
  BY <1>1, <1>2, <1>4, <1>5, <1>6 DEF HasLoaded, LoadedCopy
<1>9. now <= now' /\ issued \subseteq issued' BY <1>1, <1>2
<1> QED BY <1>1, <1>6, <1>7, <1>8, <1>9, JobsKept

LEMMA WriteInv == ASSUME Inv, NEW h \in Handler, Write(h) PROVE Inv'
<1> DEFINE x == [stage |-> IF store' = Absent THEN "untrack" ELSE "track"]
<1>1. /\ HasLoaded(h) /\ store' \in Results(job[h]) /\ Becomes(h, x)
      /\ UNCHANGED <<tracked, issued, requests, restarts, now>>
  BY DEF Write
<1>2. x \in Job /\ x.stage # "loaded" BY DEF Job, Noting
<1> HIDE DEF x
<1>3. /\ job' \in [Handler -> Job] /\ job'[h] = x
      /\ \A g \in Handler \ {h} : job'[g] = job[g]
  BY <1>1, <1>2, BecomesJob DEF Inv
<1>4. PICK j \in Serving \cup Ticking : j = job[h]
  BY <1>1 DEF Inv, TypeOK, HasLoaded, Job, Idle, Noting
<1>5. PICK q : q = store' OBVIOUS
<1>6. LoadedCopy(j) /\ q \in Results(j)
  BY <1>1, <1>4, <1>5 DEF Inv, AllSound
<1>7. PICK n \in Nat : n = now BY DEF Inv, TypeOK
<1>8. q # Absent => Sound(q, n) /\ Members(q) \subseteq issued
  BY <1>6, <1>7, SavedSound
<1>9. store' = Absent \/ (Sound(store', now') /\ Members(store') \subseteq issued')
  BY <1>1, <1>5, <1>7, <1>8
<1>10. store' \in Room \cup {Absent} BY <1>9 DEF Sound
<1>11. TypeOK' BY <1>1, <1>3, <1>10 DEF Inv, TypeOK
<1>12. ~HasLoaded(h)' BY <1>2, <1>3 DEF HasLoaded
<1>13. now <= now' /\ issued \subseteq issued' BY <1>1, <1>7
<1> QED BY <1>3, <1>9, <1>11, <1>12, <1>13, JobsKept

\* The steps that load and save nothing.
LEMMA OtherInv ==
  ASSUME Inv,
         \/ \E h \in Handler : Abort(h) \/ Note(h)
         \/ Restart \/ Expire \/ TimePasses \/ UNCHANGED vars
  PROVE  Inv'
<1>1. now \in Nat BY DEF Inv, TypeOK
<1>2. Idle \in Job /\ Idle.stage # "loaded" BY DEF Job, Idle
<1>3. ASSUME NEW h \in Handler, Abort(h) \/ Note(h) PROVE Inv'
  <2>1. /\ Becomes(h, Idle) /\ UNCHANGED <<store, issued, requests, restarts, now>>
        /\ tracked' \in {tracked, TRUE, FALSE}
    BY <1>3 DEF Abort, Note
  <2>2. /\ job' \in [Handler -> Job] /\ job'[h] = Idle
        /\ \A g \in Handler \ {h} : job'[g] = job[g]
    BY <1>2, <2>1, BecomesJob DEF Inv
  <2>3. TypeOK' BY <2>1, <2>2 DEF Inv, TypeOK
  <2>4. ~HasLoaded(h)' BY <1>2, <2>2 DEF HasLoaded
  <2> QED BY <1>1, <2>1, <2>2, <2>3, <2>4, JobsKept
<1>4. CASE Restart
  <2>1. job' = [h \in Handler |-> Idle] /\ UNCHANGED <<store, issued, requests, now>>
    BY <1>4 DEF Restart
  <2>2. tracked' \in BOOLEAN
    <3>1. (store # Absent) \in BOOLEAN OBVIOUS
    <3> QED BY <1>4, <3>1, Zenon DEF Restart
  <2>3. restarts' \in 0 .. MaxRestarts
    BY <1>4 DEF Restart, Inv, TypeOK
  <2>4. TypeOK' BY <1>2, <2>1, <2>2, <2>3 DEF Inv, TypeOK
  <2>5. \A h \in Handler : ~HasLoaded(h)' BY <1>2, <2>1 DEF HasLoaded
  <2> QED BY <1>1, <2>1, <2>4, <2>5, JobsKept
<1>5. CASE Expire
  <2>1. store' = Absent /\ UNCHANGED <<tracked, job, issued, requests, restarts, now>>
    BY <1>5 DEF Expire
  <2>2. TypeOK' BY <2>1 DEF Inv, TypeOK
  <2> QED BY <1>1, <2>1, <2>2, JobsKept
<1>6. CASE TimePasses
  <2>1. /\ now' = now + 1 /\ now' \in 0 .. MaxTime
        /\ UNCHANGED <<store, tracked, job, issued, requests, restarts>>
    BY <1>6 DEF TimePasses, Inv, TypeOK
  <2>2. TypeOK' BY <2>1 DEF Inv, TypeOK
  <2> QED BY <1>1, <2>1, <2>2, JobsKept
<1>7. CASE UNCHANGED vars
  <2>1. TypeOK' BY <1>7 DEF vars, Inv, TypeOK
  <2> QED BY <1>1, <1>7, <2>1, JobsKept DEF vars
<1> QED BY <1>3, <1>4, <1>5, <1>6, <1>7

LEMMA NextInv == ASSUME Inv, [Next]_vars PROVE Inv'
BY LoadInv, TickLoadInv, WriteInv, OtherInv DEF Next

\* Every stored record and every copy in a handler's hands is sound, for any
\* number of handlers and sessions and however their loads and saves interleave.
THEOREM EveryCopyIsSound == Spec => []AllSound
<1>1. Init => Inv BY InitInv
<1>2. Inv /\ [Next]_vars => Inv' BY NextInv
<1>3. Inv => AllSound BY DEF Inv
<1> QED BY <1>1, <1>2, <1>3, PTL DEF Spec

\* The types of the store, the ticker's set and the handlers' jobs.
THEOREM StoreTypes == Spec => []TypeOK
<1>1. Init => Inv BY InitInv
<1>2. Inv /\ [Next]_vars => Inv' BY NextInv
<1>3. Inv => TypeOK BY DEF Inv
<1> QED BY <1>1, <1>2, <1>3, PTL DEF Spec

-----------------------------------------------------------------------------

\* A copy that holds a finished game is saved with the game finished.
LEMMA FinishedCopyStaysFinished ==
  ASSUME NEW j \in Serving \cup Ticking, LoadedCopy(j), now \in Nat,
         j.copy # Absent, IsFinished(j.copy),
         NEW q \in Results(j), q # Absent
  PROVE  IsFinished(q)
<1>1. j.op # "create" BY DEF LoadedCopy
<1>2. PICK n \in Nat : Sound(j.copy, n)
  <2>1. j.ts \in Nat BY DEF Serving, Ticking
  <2> QED BY <1>1, <2>1 DEF LoadedCopy
<1>3. CASE j.op = "tick"
  <2>1. q \in TickResults(j.copy, j.ts) /\ j.ts \in Nat
    BY <1>3 DEF Results, Serving, Ticking
  <2> QED BY <1>2, <2>1, VerdictKeptByTick
<1>4. CASE j.op # "tick"
  <2>1. j.token \in Token /\ j.fresh \in Token /\ j.ts \in Nat /\ j.op \in Command
    BY <1>4 DEF Serving, Ticking
  <2>2. CASE j.op \in {"join", "leave", "sync", "disconnect"}
    <3>1. q \in JoinResults(j.copy, j.token, j.fresh) \cup LeaveResults(j.copy, j.token)
                  \cup SyncResults(j.copy, j.token) \cup MarkDisconnectedResults(j.copy, j.token)
      BY <2>2 DEF Results
    <3>2. SameTable(q, j.copy) BY <1>2, <2>1, <3>1, VerdictKeptByPeople
    <3> QED BY <3>2 DEF SameTable, SamePhase, IsFinished
  <2>3. CASE j.op \in {"submit", "resign", "offer", "accept", "decline"}
    <3>1. q \in SubmitActionResults(j.copy, j.token, j.ts) \cup ResignResults(j.copy, j.token)
                  \cup OfferDrawResults(j.copy, j.token) \cup AcceptDrawResults(j.copy, j.token)
                  \cup DeclineDrawResults(j.copy, j.token)
      BY <2>3 DEF Results
    <3> QED BY <1>2, <2>1, <3>1, VerdictKeptByPlay
  <2> QED BY <1>1, <2>1, <2>2, <2>3 DEF Command
<1> QED BY <1>3, <1>4

LEMMA UndoneStep ==
  ASSUME Inv, [Next]_vars, store # Absent, store' # Absent, IsFinished(store), ~IsFinished(store')
  PROVE  \E h \in Handler : HasLoaded(h) /\ (job[h].copy = Absent \/ ~IsFinished(job[h].copy))
<1>1. store' # store OBVIOUS
<1>2. PICK h \in Handler : Write(h)
  BY <1>1 DEF Next, Load, TickLoad, Abort, Note, Restart, Expire, TimePasses, vars
<1>3. HasLoaded(h) /\ store' \in Results(job[h]) BY <1>2 DEF Write
<1>4. PICK j \in Serving \cup Ticking : j = job[h]
  BY <1>3 DEF Inv, TypeOK, HasLoaded, Job, Idle, Noting
<1>5. PICK q : q = store' OBVIOUS
<1>6. LoadedCopy(j) /\ q \in Results(j) /\ now \in Nat
  BY <1>3, <1>4, <1>5 DEF Inv, AllSound, TypeOK
<1>7. j.copy = Absent \/ ~IsFinished(j.copy)
  BY <1>5, <1>6, FinishedCopyStaysFinished
<1> QED BY <1>3, <1>4, <1>7

\* A verdict is lost only to a handler whose copy is older than the verdict.
THEOREM VerdictLostOnlyToStaleCopy == Spec => UndoneOnlyByStaleCopy
<1>1. Init => Inv BY InitInv
<1>2. Inv /\ [Next]_vars => Inv' BY NextInv
<1>3. Inv /\ [Next]_vars =>
        [store # Absent /\ store' # Absent /\ IsFinished(store) /\ ~IsFinished(store') =>
           \E h \in Handler :
              HasLoaded(h) /\ (job[h].copy = Absent \/ ~IsFinished(job[h].copy))]_vars
  BY UndoneStep
<1> QED BY <1>1, <1>2, <1>3, PTL DEF Spec, UndoneOnlyByStaleCopy
=============================================================================

--------------------------- MODULE BroadcastProofs ---------------------------
(***************************************************************************)
(* A page shows saved records only, for any pages and number of records.   *)
(***************************************************************************)
EXTENDS Broadcast, TLAPS

\* The shape of what the pages show and the handlers hold; numbers unbounded.
Held == {Idle} \cup [stage : {"loaded", "saved"}, op : {"command", "tick", "heartbeat"},
                     version : Nat]

Types ==
  /\ store \in Nat /\ latest \in Nat
  /\ job \in [Handler -> Held] /\ shown \in [Page -> Nat]

\* What a handler is about to answer has been saved.
AnswersWereSaved == \A h \in Handler : job[h].stage = "saved" => job[h].version \in stored

Inv == Types /\ AnswersWereSaved /\ ShownWasSaved

LEMMA InvInitially == Init => Inv
  BY DEF Init, Inv, Types, AnswersWereSaved, ShownWasSaved, Held, Idle

\* A handler that goes on to something not saved leaves what was saved alone.
LEMMA HandlerMoves ==
  ASSUME Inv, UNCHANGED <<shown, stored>>, store' \in Nat, latest' \in Nat,
         NEW h \in Handler, NEW j \in Held, j.stage # "saved", Becomes(h, j)
  PROVE  Inv'
  BY DEF Inv, Types, AnswersWereSaved, ShownWasSaved, Becomes

\* An answer: pages show what its handler saved, or what they showed.
LEMMA PagesShow ==
  ASSUME Inv, UNCHANGED <<store, latest, stored>>,
         NEW h \in Handler, job[h].stage = "saved", Becomes(h, Idle),
         shown' \in [Page -> Nat],
         \A p \in Page : shown'[p] \in {shown[p], job[h].version}
  PROVE  Inv'
  BY DEF Inv, Types, AnswersWereSaved, ShownWasSaved, Becomes, Idle, Held

LEMMA InvKept == ASSUME Inv, [Next]_vars PROVE Inv'
<1> USE BroadcastAssumption
<1>1. CASE UNCHANGED vars
  BY <1>1 DEF vars, Inv, Types, AnswersWereSaved, ShownWasSaved
<1>2. ASSUME NEW h \in Handler, Load(h) PROVE Inv'
  <2>1. PICK j \in Held : j.stage = "loaded" /\ Becomes(h, j)
    BY <1>2 DEF Load, Inv, Types, Held
  <2> QED BY <1>2, <2>1, HandlerMoves DEF Load, Inv, Types
<1>3. ASSUME NEW p \in Page, Heartbeat(p) PROVE Inv'
  <2>1. PICK j \in Held : j.stage = "loaded" /\ Becomes(p, j)
    BY <1>3 DEF Heartbeat, Inv, Types, Held
  <2>2. p \in Handler BY DEF Handler
  <2> QED BY <1>3, <2>1, <2>2, HandlerMoves DEF Heartbeat, Inv, Types
<1>4. ASSUME NEW h \in Handler, Save(h) PROVE Inv'
  <2>1. job[h] \in Held /\ job[h].stage = "loaded" BY <1>4 DEF Save, Inv, Types
  <2>2. job[h] \in [stage : {"loaded", "saved"}, op : {"command", "tick", "heartbeat"},
                    version : Nat]
    BY <2>1 DEF Held, Idle
  <2>3. [job[h] EXCEPT !.stage = "saved"] \in Held
        /\ [job[h] EXCEPT !.stage = "saved"].version = job[h].version
    BY <2>2 DEF Held
  <2>4. job[h].version \in stored' /\ stored \subseteq stored' /\ store' \in Nat
    BY <1>4, <2>2 DEF Save
  <2>5. job' = [job EXCEPT ![h] = [job[h] EXCEPT !.stage = "saved"]]
    BY <1>4 DEF Save, Becomes
  <2>6. Types' BY <1>4, <2>3, <2>4, <2>5 DEF Save, Inv, Types
  <2>7. AnswersWereSaved'
    BY <2>3, <2>4, <2>5 DEF Inv, Types, AnswersWereSaved
  <2>8. ShownWasSaved' BY <1>4, <2>4 DEF Save, Inv, ShownWasSaved
  <2> QED BY <2>6, <2>7, <2>8 DEF Inv
<1>5. ASSUME NEW h \in Handler, Fail(h) PROVE Inv'
  BY <1>5, HandlerMoves DEF Fail, Inv, Types, Held, Idle
<1>6. ASSUME NEW p \in Page, Answer(p) PROVE Inv'
  <2>1. p \in Handler /\ job[p].stage = "saved" /\ Becomes(p, Idle)
    BY <1>6 DEF Answer, Handler
  <2>2. job[p].version \in Nat BY <2>1 DEF Inv, Types, Held, Idle
  <2>3. shown' \in [Page -> Nat] /\ \A q \in Page : shown'[q] \in {shown[q], job[p].version}
    BY <1>6, <2>2 DEF Answer, Inv, Types
  <2> QED BY <1>6, <2>1, <2>3, PagesShow DEF Answer
<1>7. ASSUME TickAnswer PROVE Inv'
  <2>1. Ticker \in Handler /\ job[Ticker].stage = "saved" /\ Becomes(Ticker, Idle)
    BY <1>7 DEF TickAnswer, Handler
  <2>2. job[Ticker].version \in Nat BY <2>1 DEF Inv, Types, Held, Idle
  <2>3. shown' \in [Page -> Nat]
        /\ \A q \in Page : shown'[q] \in {shown[q], job[Ticker].version}
    BY <1>7, <2>2 DEF TickAnswer, Inv, Types
  <2> QED BY <1>7, <2>1, <2>3, PagesShow DEF TickAnswer
<1>8. ASSUME NEW h \in Handler, Drop(h) PROVE Inv'
  BY <1>8, HandlerMoves DEF Drop, Inv, Types, Held, Idle
<1>9. ASSUME NEW p \in Page, HeartbeatAnswer(p) PROVE Inv'
  <2>1. p \in Handler /\ job[p].stage = "saved" /\ Becomes(p, Idle)
    BY <1>9 DEF HeartbeatAnswer, Handler
  <2>2. job[p].version \in Nat BY <2>1 DEF Inv, Types, Held, Idle
  <2>3. shown' \in [Page -> Nat] /\ \A q \in Page : shown'[q] \in {shown[q], job[p].version}
    BY <1>9, <2>2 DEF HeartbeatAnswer, Inv, Types
  <2> QED BY <1>9, <2>1, <2>3, PagesShow DEF HeartbeatAnswer
<1> QED BY <1>1, <1>2, <1>3, <1>4, <1>5, <1>6, <1>7, <1>8, <1>9 DEF Next

\* No page shows a record that was never in Redis, for any number of pages and of
\* records, and whatever is dropped, fails or overtakes (service.go 602-610, 655).
THEOREM PagesShowSavedRecords == Spec => []ShownWasSaved
<1>1. Init => Inv BY InvInitially
<1>2. Inv /\ [Next]_vars => Inv' BY InvKept
<1>3. Inv => ShownWasSaved BY DEF Inv
<1> QED BY <1>1, <1>2, <1>3, PTL DEF Spec
=============================================================================

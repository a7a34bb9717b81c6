----------------------------- MODULE Broadcast -----------------------------
(***************************************************************************)
(* What the pages of one room show.  A command loads the record, saves a   *)
(* changed one, and its snapshot is broadcast to the channel; the ticker   *)
(* does so too, but when a later room of its sweep fails, the snapshots it *)
(* has are dropped with the error.  A heartbeat saves what it loaded and   *)
(* answers its own page only.  Nothing orders these answers: each replaces *)
(* all that a page shows (ChessGame.tsx 31-47, 446-451, 494-500).          *)
(*                                                                         *)
(* A record is known by its number; 0 is the record that was created.      *)
(***************************************************************************)
EXTENDS Naturals

CONSTANTS Page, Ticker,
          MaxVersion    \* bound on the records that commands and ticks make

ASSUME BroadcastAssumption == Ticker \notin Page /\ MaxVersion \in Nat

VARIABLES store,     \* the record in Redis
          latest,    \* the newest record made
          job,       \* what each page's handler, and the ticker's, is doing
          shown,     \* the record each page shows
          listening, \* the pages whose socket is in the channel
          stored     \* history: the records that were ever in Redis

vars == <<store, latest, job, shown, listening, stored>>

Handler == Page \cup {Ticker}
Idle == [stage |-> "idle"]
\* A handler has loaded `base` and made `version` of it, then has saved it.
Job == {Idle} \cup [stage : {"loaded", "saved"}, op : {"command", "tick", "heartbeat"},
                    version : 0 .. MaxVersion]

Becomes(h, j) == job' = [job EXCEPT ![h] = j]

Init ==
  /\ store = 0 /\ latest = 0 /\ stored = {0}
  /\ job = [h \in Handler |-> Idle]
  /\ shown = [p \in Page |-> 0]
  /\ listening \in SUBSET Page

\* requireRoom, and the change that makes a new record.
Load(h) ==
  /\ job[h] = Idle /\ latest < MaxVersion
  /\ latest' = latest + 1
  /\ Becomes(h, [stage |-> "loaded", op |-> IF h = Ticker THEN "tick" ELSE "command",
                 version |-> latest + 1])
  /\ UNCHANGED <<store, shown, listening, stored>>

Beating(p) == job[p] # Idle /\ job[p].op = "heartbeat"

\* A heartbeat changes nothing but presence.  Heartbeats are 15 s apart and take
\* milliseconds: two of them do not overlap.
Heartbeat(p) ==
  /\ job[p] = Idle
  /\ ~ \E q \in Page : Beating(q)
  /\ Becomes(p, [stage |-> "loaded", op |-> "heartbeat", version |-> store])
  /\ UNCHANGED <<store, latest, shown, listening, stored>>

\* (slip) The snapshot is answered although the record could not be saved.
SaveOrNot(h) ==
  /\ job[h].stage = "loaded"
  /\ \/ store' = job[h].version /\ stored' = stored \cup {store'}
     \/ UNCHANGED <<store, stored>>
  /\ Becomes(h, [job[h] EXCEPT !.stage = "saved"])
  /\ UNCHANGED <<latest, shown, listening>>

\* saveRoom, whatever others have saved since the load.
Save(h) ==
  /\ job[h].stage = "loaded"
  /\ store' = job[h].version /\ stored' = stored \cup {store'}
  /\ Becomes(h, [job[h] EXCEPT !.stage = "saved"])
  /\ UNCHANGED <<latest, shown, listening>>

\* match-core or Redis fails before the save: sendError, nothing is shown.
Fail(h) ==
  /\ job[h].stage = "loaded"
  /\ Becomes(h, Idle)
  /\ UNCHANGED <<store, latest, shown, listening, stored>>

\* withAck: broadcastSnapshot to the channel, then the acknowledgement.
Answer(p) ==
  /\ job[p].stage = "saved" /\ job[p].op = "command"
  /\ shown' = [q \in Page |-> IF q \in listening \cup {p} THEN job[p].version ELSE shown[q]]
  /\ listening' = listening \cup {p}
  /\ Becomes(p, Idle)
  /\ UNCHANGED <<store, latest, stored>>

\* StartTicker broadcasts the snapshots of a sweep that succeeded.
TickAnswer ==
  /\ job[Ticker].stage = "saved"
  /\ shown' = [q \in Page |-> IF q \in listening THEN job[Ticker].version ELSE shown[q]]
  /\ Becomes(Ticker, Idle)
  /\ UNCHANGED <<store, latest, listening, stored>>

\* The answer is lost: the call timed out, or another room made the sweep fail.
Drop(h) ==
  /\ job[h].stage = "saved"
  /\ Becomes(h, Idle)
  /\ UNCHANGED <<store, latest, shown, listening, stored>>

\* (slip) The page ignores the snapshot of a heartbeat's acknowledgement.
HeartbeatAnswerIgnored(p) ==
  /\ job[p].stage = "saved" /\ job[p].op = "heartbeat"
  /\ Becomes(p, Idle)
  /\ UNCHANGED <<store, latest, shown, listening, stored>>

\* The acknowledgement of a heartbeat, to its page only.
HeartbeatAnswer(p) ==
  /\ job[p].stage = "saved" /\ job[p].op = "heartbeat"
  /\ shown' = [shown EXCEPT ![p] = job[p].version]
  /\ Becomes(p, Idle)
  /\ UNCHANGED <<store, latest, listening, stored>>

Next ==
  \/ \E h \in Handler : Load(h)
  \/ \E p \in Page : Heartbeat(p)
  \/ \E h \in Handler : Save(h)
  \/ \E h \in Handler : Fail(h)
  \/ \E p \in Page : Answer(p)
  \/ TickAnswer
  \/ \E h \in Handler : Drop(h)
  \/ \E p \in Page : HeartbeatAnswer(p)

Spec == Init /\ [][Next]_vars

\* Handlers end; a page keeps sending heartbeats, and one sent again and again
\* is loaded, saved and answered some time.  No command need ever succeed.
Fairness ==
  /\ \A h \in Handler : WF_vars(Save(h) \/ Fail(h)) /\ WF_vars(Drop(h) \/ (h = Ticker /\ TickAnswer))
  /\ \A p \in Page : /\ WF_vars(Answer(p) \/ HeartbeatAnswer(p) \/ Drop(p))
                     /\ SF_vars(Heartbeat(p)) /\ SF_vars(HeartbeatAnswer(p))
                     /\ SF_vars(Beating(p) /\ Save(p))

LiveSpec == Spec /\ Fairness

-----------------------------------------------------------------------------

\* No page shows a record that was never saved, whatever fails on the way: a
\* snapshot leaves match-core only after the save (service.go 602-610, 655).
ShownWasSaved == \A p \in Page : shown[p] \in stored

\* When nobody changes the game any more, every page shows the record in Redis in
\* the end and goes on showing it: broadcasts that were dropped, answers that
\* overtook each other and sockets outside the channel are made good by the
\* heartbeats (ChessGame.tsx 485-503).
PagesConverge == <>[](\A p \in Page : shown[p] = store)
=============================================================================

---------------------------- MODULE ServicesProofs ----------------------------
(***************************************************************************)
(* The parts of the services, each for any accounts, codes, pods, games    *)
(* and handlers: what the parts promise side by side is proved part by     *)
(* part, from the steps of each alone.                                     *)
(***************************************************************************)
EXTENDS Services, Sequences, FiniteSetTheorems, SequenceTheorems, TLAPS

-----------------------------------------------------------------------------
(* Each part behaves as its own module says, whichever of them moves.      *)

LEMMA DirectoryBehaves == Spec => Directory!Spec
<1>1. Init => Directory!Init BY DEF Init
<1>2. [Next]_vars => [Directory!Next]_directory BY DEF Next, vars
<1> QED BY <1>1, <1>2, PTL DEF Spec, Directory!Spec, directory, Directory!directoryVars

LEMMA MetricsBehave == Spec => Metrics!Spec
<1>1. Init => Metrics!Init BY DEF Init
<1>2. [Next]_vars => [Metrics!Next]_Metrics!metricsVars
  BY DEF Next, vars, metrics, Metrics!metricsVars, Metrics!store, Metrics!metrics, Metrics!faults
<1> QED BY <1>1, <1>2, PTL DEF Spec, Metrics!Spec

LEMMA RecordBehaves == Spec => Record!Spec
<1>1. Init => Record!Init BY DEF Init
<1>2. [Next]_vars => [Record!Next]_Record!recordVars
  BY DEF Next, vars, records, Record!recordVars
<1> QED BY <1>1, <1>2, PTL DEF Spec, Record!Spec

LEMMA RequestsBehave == Spec => Requests!Spec
<1>1. Init => Requests!Init BY DEF Init
<1>2. [Next]_vars => [Requests!Next]_Requests!requestVars
  BY DEF Next, vars, requests, Requests!requestVars
<1> QED BY <1>1, <1>2, PTL DEF Spec, Requests!Spec

LEMMA BotBehaves == Spec => Bot!Spec
<1>1. Init => Bot!Init BY DEF Init
<1>2. [Next]_vars => [Bot!Next]_Bot!turnVars
  BY DEF Next, vars, bot, Bot!turnVars
<1> QED BY <1>1, <1>2, PTL DEF Spec, Bot!Spec

LEMMA PortalBehaves == Spec => Portal!Spec
<1>1. Init => Portal!Init BY DEF Init
<1>2. [Next]_vars => [Portal!Next]_Portal!signInVars
  BY DEF Next, vars, portal, Portal!signInVars, Portal!pageVars, Portal!serviceVars
<1> QED BY <1>1, <1>2, PTL DEF Spec, Portal!Spec

-----------------------------------------------------------------------------
(* Who is in the portal has a login event.                                 *)


SignInSteps == {"posted", "decoded", "recorded", "unrecorded", "created", "failed", "lost", "done"}
SignInRequest == [step : SignInSteps, user : User, valid : BOOLEAN, heard : BOOLEAN]

SignInTypes ==
  /\ attempt \in [Attempt -> {Portal!Unmade} \cup SignInRequest]
  /\ events \in [Attempt -> Nat]
  /\ popup \subseteq User

\* An attempt that is about to be answered, or was answered, 201 has its event.
AnsweredHasEvent == \A a \in Attempt : Portal!At(a) \in {"recorded", "created"} => events[a] > 0

\* A login event of u is stored.
EventOf(u) == \E a \in Portal!Made : attempt[a].user = u /\ events[a] > 0

SignInInvariant == SignInTypes /\ AnsweredHasEvent /\ Portal!GoogleMeansRecorded

LEMMA SignInInitially ==
  ASSUME Portal!Init
  PROVE  SignInInvariant
  BY AccountsAssumption DEF Portal!Init, SignInInvariant, SignInTypes, AnsweredHasEvent, Portal!GoogleMeansRecorded, Portal!NoEvents, Portal!Unmade, Portal!At

\* Events stay, attempts stay the same user's: who has an event keeps it.
LEMMA EventsStay ==
  ASSUME SignInTypes,
         \A a \in Portal!Made : a \in Portal!Made' /\ attempt'[a].user = attempt[a].user
                         /\ (events[a] > 0 => events'[a] > 0)
  PROVE  \A u \in User : EventOf(u) => EventOf(u)'
  BY DEF EventOf, Portal!Made

\* A step that lets nobody new in, and leaves each event with its attempt.
LEMMA NobodyEnters ==
  ASSUME SignInInvariant,
         auth' \in {auth, saved, Portal!Guest, Portal!Nobody}, saved' \in {auth, saved, Portal!Guest, Portal!Nobody},
         \A a \in Portal!Made : a \in Portal!Made' /\ attempt'[a].user = attempt[a].user
                         /\ (events[a] > 0 => events'[a] > 0)
  PROVE  Portal!GoogleMeansRecorded'
<1>1. \A u \in User : EventOf(u) => EventOf(u)' BY EventsStay DEF SignInInvariant
<1>2. \A u \in User \cap {auth, saved} : EventOf(u) BY DEF SignInInvariant, Portal!GoogleMeansRecorded, EventOf
<1>3. User \cap {auth', saved'} \subseteq User \cap {auth, saved} BY AccountsAssumption
<1> QED BY <1>1, <1>2, <1>3 DEF Portal!GoogleMeansRecorded, EventOf

\* One attempt goes on to another step; its event, if it needs one, is there.
LEMMA AttemptMoves ==
  ASSUME SignInInvariant,
         NEW a \in Attempt, attempt[a] # Portal!Unmade, NEW s \in SignInSteps, Portal!Moves(a, s),
         events' \in [Attempt -> Nat],
         \A b \in Attempt : events[b] > 0 => events'[b] > 0,
         s \in {"recorded", "created"} => events'[a] > 0,
         UNCHANGED popup
  PROVE  /\ SignInTypes' /\ AnsweredHasEvent'
         /\ \A b \in Portal!Made : b \in Portal!Made' /\ attempt'[b].user = attempt[b].user
                            /\ (events[b] > 0 => events'[b] > 0)
<1>1. attempt[a] \in SignInRequest BY DEF SignInInvariant, SignInTypes
<1>2. attempt' = [attempt EXCEPT ![a] = [attempt[a] EXCEPT !.step = s]] BY DEF Portal!Moves
<1>3. [attempt[a] EXCEPT !.step = s] \in SignInRequest
      /\ [attempt[a] EXCEPT !.step = s].user = attempt[a].user
      /\ [attempt[a] EXCEPT !.step = s].step = s
  BY <1>1 DEF SignInRequest
<1>4. [attempt[a] EXCEPT !.step = s] # Portal!Unmade BY <1>3 DEF Portal!Unmade, SignInSteps
<1>5. SignInTypes' BY <1>2, <1>3 DEF SignInInvariant, SignInTypes
<1>6. AnsweredHasEvent' BY <1>2, <1>3 DEF SignInInvariant, SignInTypes, AnsweredHasEvent, Portal!At
<1>7. \A b \in Portal!Made : b \in Portal!Made' /\ attempt'[b].user = attempt[b].user
  BY <1>2, <1>3, <1>4 DEF SignInInvariant, SignInTypes, Portal!Made
<1> QED BY <1>5, <1>6, <1>7 DEF Portal!Made

\* A step that moves one attempt and enters nobody.
LEMMA AttemptGoesOn ==
  ASSUME SignInInvariant,
         NEW a \in Attempt, attempt[a] # Portal!Unmade, NEW s \in SignInSteps, Portal!Moves(a, s),
         events' \in [Attempt -> Nat],
         \A b \in Attempt : events[b] > 0 => events'[b] > 0,
         s \in {"recorded", "created"} => events'[a] > 0,
         UNCHANGED <<popup, auth, saved>>
  PROVE  SignInInvariant'
<1>1. /\ SignInTypes' /\ AnsweredHasEvent'
      /\ \A b \in Portal!Made : b \in Portal!Made' /\ attempt'[b].user = attempt[b].user
                         /\ (events[b] > 0 => events'[b] > 0)
  BY AttemptMoves
<1>2. Portal!GoogleMeansRecorded' BY <1>1, NobodyEnters
<1> QED BY <1>1, <1>2 DEF SignInInvariant

LEMMA SignInKept ==
  ASSUME SignInInvariant, [Portal!Next]_Portal!signInVars
  PROVE  SignInInvariant'
<1>0. \A a \in Attempt : Portal!At(a) # "unmade" => attempt[a] # Portal!Unmade BY DEF Portal!At, Portal!Unmade
<1>1. CASE UNCHANGED Portal!signInVars
  BY <1>1 DEF Portal!signInVars, Portal!pageVars, Portal!serviceVars, SignInInvariant, SignInTypes, AnsweredHasEvent,
              Portal!GoogleMeansRecorded, Portal!Made, Portal!At
<1>2. ASSUME NEW u \in User, Portal!OpenPopup(u) PROVE SignInInvariant'
  BY <1>2 DEF Portal!OpenPopup, Portal!serviceVars, SignInInvariant, SignInTypes, AnsweredHasEvent, Portal!GoogleMeansRecorded, Portal!Made, Portal!At
<1>3. ASSUME NEW u \in User, NEW a \in Attempt, Portal!HandleAuthSuccess(u, a) PROVE SignInInvariant'
  <2>1. PICK valid \in BOOLEAN :
          attempt' = [attempt EXCEPT ![a] = [step |-> "posted", user |-> u, valid |-> valid, heard |-> TRUE]]
    BY <1>3 DEF Portal!HandleAuthSuccess
  <2>2. SignInTypes' BY <1>3, <2>1 DEF Portal!HandleAuthSuccess, Portal!serviceVars, SignInInvariant, SignInTypes, SignInRequest, SignInSteps
  <2>3. AnsweredHasEvent'
    BY <1>3, <2>1 DEF Portal!HandleAuthSuccess, Portal!serviceVars, SignInInvariant, SignInTypes, AnsweredHasEvent, Portal!At
  <2>4. \A b \in Portal!Made : b \in Portal!Made' /\ attempt'[b].user = attempt[b].user
                        /\ (events[b] > 0 => events'[b] > 0)
    BY <1>3, <2>1 DEF Portal!HandleAuthSuccess, Portal!serviceVars, SignInInvariant, SignInTypes, Portal!Made, Portal!Unmade
  <2>5. Portal!GoogleMeansRecorded' BY <1>3, <2>4, NobodyEnters DEF Portal!HandleAuthSuccess
  <2> QED BY <2>2, <2>3, <2>5 DEF SignInInvariant
<1>4. CASE Portal!HandleContinueAsGuest
  <2>1. SignInTypes' /\ AnsweredHasEvent'
    BY <1>4 DEF Portal!HandleContinueAsGuest, Portal!serviceVars, SignInInvariant, SignInTypes, AnsweredHasEvent, Portal!At
  <2>2. Portal!GoogleMeansRecorded'
    BY <1>4, NobodyEnters DEF Portal!HandleContinueAsGuest, Portal!serviceVars, Portal!Made
  <2> QED BY <2>1, <2>2 DEF SignInInvariant
<1>5. CASE Portal!HandleLogout
  <2>1. SignInTypes' /\ AnsweredHasEvent'
    BY <1>5 DEF Portal!HandleLogout, Portal!serviceVars, SignInInvariant, SignInTypes, AnsweredHasEvent, Portal!At
  <2>2. Portal!GoogleMeansRecorded' BY <1>5, NobodyEnters DEF Portal!HandleLogout, Portal!serviceVars, Portal!Made
  <2> QED BY <2>1, <2>2 DEF SignInInvariant
<1>6. ASSUME NEW a \in Attempt, Portal!Settle(a) PROVE SignInInvariant'
  <2>1. attempt[a] # Portal!Unmade /\ attempt[a] \in SignInRequest
    BY <1>0, <1>6 DEF Portal!Settle, SignInInvariant, SignInTypes
  <2>2. /\ SignInTypes' /\ AnsweredHasEvent'
        /\ \A b \in Portal!Made : b \in Portal!Made' /\ attempt'[b].user = attempt[b].user
                           /\ (events[b] > 0 => events'[b] > 0)
    <3>1. "done" \in SignInSteps BY DEF SignInSteps
    <3> QED BY <1>6, <2>1, <3>1, AttemptMoves DEF Portal!Settle, Portal!serviceVars, SignInInvariant, SignInTypes
  <2>3. CASE Portal!At(a) = "created"
    <3>1. auth' = attempt[a].user /\ saved' = attempt[a].user
      BY <1>6, <2>3 DEF Portal!Settle, Portal!Enters
    <3>2. a \in Portal!Made /\ events[a] > 0 BY <2>1, <2>3 DEF SignInInvariant, AnsweredHasEvent, Portal!Made
    <3>3. a \in Portal!Made' /\ attempt'[a].user = attempt[a].user /\ events'[a] > 0
      BY <2>2, <3>2
    <3>4. Portal!GoogleMeansRecorded' BY <3>1, <3>3 DEF Portal!GoogleMeansRecorded
    <3> QED BY <2>2, <3>4 DEF SignInInvariant
  <2>4. CASE Portal!At(a) # "created"
    <3>1. UNCHANGED <<auth, saved>> BY <1>6, <2>4 DEF Portal!Settle
    <3>2. Portal!GoogleMeansRecorded' BY <2>2, <3>1, NobodyEnters
    <3> QED BY <2>2, <3>2 DEF SignInInvariant
  <2> QED BY <2>3, <2>4
<1>7. CASE Portal!Reload
  <2>1. \A a \in Attempt :
          \/ attempt[a] = Portal!Unmade /\ attempt'[a] = Portal!Unmade
          \/ /\ attempt[a] # Portal!Unmade /\ attempt[a] \in SignInRequest /\ attempt'[a] \in SignInRequest
             /\ attempt'[a].step = attempt[a].step /\ attempt'[a].user = attempt[a].user
    BY <1>7 DEF Portal!Reload, SignInInvariant, SignInTypes, SignInRequest
  <2>2. \A a \in Attempt : attempt[a] # Portal!Unmade /\ attempt[a] \in SignInRequest => attempt'[a] # Portal!Unmade
    BY <2>1 DEF Portal!Unmade, SignInRequest, SignInSteps
  <2>3. SignInTypes'
    BY <1>7, <2>1 DEF Portal!Reload, Portal!serviceVars, SignInInvariant, SignInTypes
  <2>4. AnsweredHasEvent' BY <1>7, <2>1 DEF Portal!Reload, Portal!serviceVars, SignInInvariant, AnsweredHasEvent, Portal!At
  <2>5. \A b \in Portal!Made : b \in Portal!Made' /\ attempt'[b].user = attempt[b].user
                        /\ (events[b] > 0 => events'[b] > 0)
    BY <1>7, <2>1, <2>2 DEF Portal!Reload, Portal!serviceVars, Portal!Made
  <2>6. Portal!GoogleMeansRecorded' BY <1>7, <2>5, NobodyEnters DEF Portal!Reload
  <2> QED BY <2>3, <2>4, <2>6 DEF SignInInvariant
<1>8. CASE Portal!Stop
  <2>1. \A a \in Attempt :
          \/ attempt'[a] = attempt[a]
          \/ /\ attempt[a] # Portal!Unmade /\ attempt[a] \in SignInRequest /\ attempt'[a] \in SignInRequest
             /\ attempt'[a].step = "lost" /\ attempt'[a].user = attempt[a].user
    BY <1>0, <1>8 DEF Portal!Stop, SignInInvariant, SignInTypes, SignInRequest, SignInSteps
  <2>2. \A a \in Attempt : attempt[a] # Portal!Unmade => attempt'[a] # Portal!Unmade
    BY <2>1 DEF Portal!Unmade
  <2>3. SignInTypes' BY <1>8, <2>1 DEF Portal!Stop, Portal!pageVars, SignInInvariant, SignInTypes
  <2>4. AnsweredHasEvent' BY <1>8, <2>1 DEF Portal!Stop, SignInInvariant, AnsweredHasEvent, Portal!At
  <2>5. \A b \in Portal!Made : b \in Portal!Made' /\ attempt'[b].user = attempt[b].user
                        /\ (events[b] > 0 => events'[b] > 0)
    BY <1>8, <2>1, <2>2 DEF Portal!Stop, Portal!Made
  <2>6. Portal!GoogleMeansRecorded' BY <1>8, <2>5, NobodyEnters DEF Portal!Stop, Portal!pageVars
  <2> QED BY <2>3, <2>4, <2>6 DEF SignInInvariant
<1>9. ASSUME NEW a \in Attempt, Portal!DecodeLoginRequest(a) PROVE SignInInvariant'
  <2>1. attempt[a] # Portal!Unmade BY <1>0, <1>9 DEF Portal!DecodeLoginRequest
  <2>2. PICK s \in {"decoded", "failed"} : Portal!Moves(a, s) BY <1>9 DEF Portal!DecodeLoginRequest
  <2>3. s \in SignInSteps /\ s \notin {"recorded", "created"} BY DEF SignInSteps
  <2> QED BY <1>9, <2>1, <2>2, <2>3, AttemptGoesOn DEF Portal!DecodeLoginRequest, Portal!pageVars, SignInInvariant, SignInTypes
<1>10. ASSUME NEW a \in Attempt, Portal!RecordLogin(a) PROVE SignInInvariant'
  <2>1. attempt[a] # Portal!Unmade BY <1>0, <1>10 DEF Portal!RecordLogin
  <2>2. PICK stays \in BOOLEAN, says \in BOOLEAN :
          /\ says => stays
          /\ events' = IF stays THEN [events EXCEPT ![a] = @ + 1] ELSE events
          /\ Portal!Moves(a, IF says THEN "recorded" ELSE "unrecorded")
    BY <1>10 DEF Portal!RecordLogin
  <2>3. /\ events' \in [Attempt -> Nat]
        /\ \A b \in Attempt : events[b] > 0 => events'[b] > 0
        /\ stays => events'[a] > 0
    BY <2>2 DEF SignInInvariant, SignInTypes
  <2>4. PICK s \in {"recorded", "unrecorded"} : Portal!Moves(a, s) /\ (s = "recorded" => stays)
    BY <2>2
  <2>5. s \in SignInSteps BY DEF SignInSteps
  <2> QED BY <1>10, <2>1, <2>3, <2>4, <2>5, AttemptGoesOn DEF Portal!RecordLogin, Portal!pageVars
<1>11. ASSUME NEW a \in Attempt, Portal!Answer(a) PROVE SignInInvariant'
  <2>1. attempt[a] # Portal!Unmade BY <1>0, <1>11 DEF Portal!Answer
  <2>2. PICK s \in {"created", "failed"} : Portal!Moves(a, s) /\ (s = "created" => Portal!At(a) = "recorded")
    BY <1>11 DEF Portal!Answer
  <2>3. s \in SignInSteps BY DEF SignInSteps
  <2>4. s = "created" => events[a] > 0 BY <2>2 DEF SignInInvariant, AnsweredHasEvent
  <2> QED BY <1>11, <2>1, <2>2, <2>3, <2>4, AttemptGoesOn DEF Portal!Answer, Portal!pageVars, SignInInvariant, SignInTypes
<1>12. ASSUME NEW a \in Attempt, Portal!Lose(a) PROVE SignInInvariant'
  <2>1. attempt[a] # Portal!Unmade BY <1>0, <1>12 DEF Portal!Lose
  <2>2. "lost" \in SignInSteps BY DEF SignInSteps
  <2> QED BY <1>12, <2>1, <2>2, AttemptGoesOn DEF Portal!Lose, Portal!pageVars, Portal!serviceVars, SignInInvariant, SignInTypes
<1> QED
  BY <1>1, <1>2, <1>3, <1>4, <1>5, <1>6, <1>7, <1>8, <1>9, <1>10, <1>11, <1>12 DEF Portal!Next

\* Nobody is in the portal as a Google account, or stays so over a reload, whose
\* login has no event: for any accounts, attempts, reloads and stops, whatever is
\* lost or late (App.tsx 91-105, login-service main.go 115-143).
THEOREM SignedInMeansRecorded == Spec => []GoogleMeansRecorded
<1>1. Portal!Init => SignInInvariant BY SignInInitially
<1>2. SignInInvariant /\ [Portal!Next]_Portal!signInVars => SignInInvariant' BY SignInKept
<1>3. SignInInvariant => GoogleMeansRecorded BY DEF SignInInvariant, GoogleMeansRecorded
<1> QED BY <1>1, <1>2, <1>3, PortalBehaves, PTL DEF Portal!Spec

\* What an attempt was counted as fits what has become of it.
Account(a) ==
  /\ events[a] \in {0, 1}
  /\ Portal!At(a) \in {"unmade", "posted", "decoded"} => events[a] = 0
  /\ Portal!At(a) = "recorded" => events[a] = 1
  /\ Portal!At(a) \in {"unmade", "posted", "decoded", "recorded", "unrecorded"} =>
       \A r \in Portal!Results : a \notin results[r]
  /\ \A r, s \in Portal!Results : r # s => ~(a \in results[r] /\ a \in results[s])
  /\ a \in results["ok"] => events[a] = 1
  /\ a \in results["invalid"] => events[a] = 0
  /\ stops = 0 /\ events[a] = 1 =>
       \/ Portal!At(a) \in {"recorded", "unrecorded"}
       \/ a \in results["ok"] \cup results["error"]

Accounts ==
  /\ attempt \in [Attempt -> {Portal!Unmade} \cup SignInRequest]
  /\ events \in [Attempt -> Nat]
  /\ results \in [Portal!Results -> SUBSET Attempt]
  /\ stops \in Nat
  /\ \A a \in Attempt : Account(a)

LEMMA AccountsInitially == Portal!Init => Accounts
  BY DEF Portal!Init, Accounts, Account, Portal!NoEvents, Portal!NoResults, Portal!Unmade,
         Portal!At, Portal!Results

\* The account of an attempt that nothing happens to.
LEMMA AccountStays ==
  ASSUME NEW a, Account(a), Portal!At(a)' = Portal!At(a), events'[a] = events[a],
         \A r \in Portal!Results : a \in results'[r] <=> a \in results[r], stops' = stops
  PROVE  Account(a)'
  BY DEF Account, Portal!Results

LEMMA AccountsKept == Accounts /\ [Portal!Next]_Portal!signInVars => Accounts'
<1> SUFFICES ASSUME Accounts, [Portal!Next]_Portal!signInVars PROVE Accounts' OBVIOUS
<1> USE DEF Accounts
<1>0. ASSUME NEW a \in Attempt, Portal!At(a) # "unmade"
      PROVE  attempt[a] \in SignInRequest /\ Portal!At(a) \in SignInSteps
  BY <1>0 DEF Portal!At, Portal!Unmade, SignInRequest
\* One attempt goes on to step s, with its event and its count; the others rest.
<1>1. ASSUME NEW a \in Attempt, Portal!At(a) # "unmade", NEW s \in SignInSteps, Portal!Moves(a, s),
             events' \in [Attempt -> Nat], results' \in [Portal!Results -> SUBSET Attempt],
             stops' = stops,
             \A b \in Attempt \ {a} : events'[b] = events[b],
             \A b \in Attempt \ {a}, r \in Portal!Results : b \in results'[r] <=> b \in results[r],
             Portal!At(a)' = s => Account(a)'
      PROVE  Accounts'
  <2>1. attempt[a] \in SignInRequest BY <1>0, <1>1
  <2>2. /\ attempt' \in [Attempt -> {Portal!Unmade} \cup SignInRequest]
        /\ Portal!At(a)' = s /\ \A b \in Attempt \ {a} : Portal!At(b)' = Portal!At(b)
    BY <1>1, <2>1 DEF Portal!Moves, Portal!At, SignInRequest
  <2>3. \A b \in Attempt \ {a} : Account(b)' BY <1>1, <2>2, AccountStays
  <2> QED BY <1>1, <2>2, <2>3
\* No attempt goes on.
<1>2. ASSUME UNCHANGED <<events, results, stops>>,
             attempt' \in [Attempt -> {Portal!Unmade} \cup SignInRequest],
             \A a \in Attempt : Portal!At(a)' = Portal!At(a)
      PROVE  Accounts'
  BY <1>2, AccountStays
<1>3. ASSUME UNCHANGED <<attempt, events, results, stops>> PROVE Accounts'
  BY <1>2, <1>3 DEF Portal!At
<1>4. CASE UNCHANGED Portal!signInVars
  BY <1>3, <1>4 DEF Portal!signInVars, Portal!serviceVars
<1>5. ASSUME NEW u \in User, Portal!OpenPopup(u) PROVE Accounts'
  BY <1>3, <1>5 DEF Portal!OpenPopup, Portal!serviceVars
<1>6. ASSUME NEW u \in User, NEW a \in Attempt, Portal!HandleAuthSuccess(u, a) PROVE Accounts'
  <2>1. PICK valid \in BOOLEAN :
          attempt' = [attempt EXCEPT ![a] = [step |-> "posted", user |-> u, valid |-> valid, heard |-> TRUE]]
    BY <1>6 DEF Portal!HandleAuthSuccess
  <2>2. attempt[a] = Portal!Unmade /\ UNCHANGED <<events, results, stops>>
    BY <1>6 DEF Portal!HandleAuthSuccess, Portal!serviceVars
  <2>3. attempt' \in [Attempt -> {Portal!Unmade} \cup SignInRequest]
    BY <2>1 DEF SignInRequest, SignInSteps
  <2>4. /\ Portal!At(a) = "unmade" /\ Portal!At(a)' = "posted"
        /\ \A b \in Attempt \ {a} : Portal!At(b)' = Portal!At(b)
    BY <2>1, <2>2 DEF Portal!At, Portal!Unmade
  <2>5. Account(a)' BY <2>2, <2>4 DEF Account
  <2>6. \A b \in Attempt \ {a} : Account(b)' BY <2>2, <2>4, AccountStays
  <2> QED BY <2>2, <2>3, <2>5, <2>6
<1>7. CASE Portal!HandleContinueAsGuest
  BY <1>3, <1>7 DEF Portal!HandleContinueAsGuest, Portal!serviceVars
<1>8. CASE Portal!HandleLogout
  BY <1>3, <1>8 DEF Portal!HandleLogout, Portal!serviceVars
<1>9. CASE Portal!Reload
  <2>1. \A a \in Attempt :
          /\ attempt'[a] \in {Portal!Unmade} \cup SignInRequest
          /\ attempt'[a].step = attempt[a].step
    BY <1>9 DEF Portal!Reload, SignInRequest
  <2>2. DOMAIN attempt' = Attempt /\ attempt' = [a \in Attempt |-> attempt'[a]]
    BY <1>9 DEF Portal!Reload
  <2> QED BY <1>2, <1>9, <2>1, <2>2 DEF Portal!Reload, Portal!serviceVars, Portal!At
<1>10. CASE Portal!Stop
  <2>1. /\ stops' = stops + 1 /\ results' = Portal!NoResults /\ events' = events
        /\ attempt' = [a \in Attempt |->
             IF Portal!At(a) \in {"decoded", "recorded", "unrecorded"}
             THEN [attempt[a] EXCEPT !.step = "lost"] ELSE attempt[a]]
    BY <1>10 DEF Portal!Stop
  <2>2. ASSUME NEW a \in Attempt
        PROVE  /\ attempt'[a] \in {Portal!Unmade} \cup SignInRequest
               /\ \/ Portal!At(a) \in {"decoded", "recorded", "unrecorded"} /\ Portal!At(a)' = "lost"
                  \/ /\ Portal!At(a) \notin {"decoded", "recorded", "unrecorded"}
                     /\ Portal!At(a)' = Portal!At(a)
    <3>1. CASE Portal!At(a) \in {"decoded", "recorded", "unrecorded"}
      <4>1. attempt[a] \in SignInRequest BY <1>0, <3>1
      <4> QED BY <2>1, <3>1, <4>1 DEF SignInRequest, SignInSteps, Portal!At
    <3>2. CASE Portal!At(a) \notin {"decoded", "recorded", "unrecorded"}
      BY <2>1, <3>2 DEF Portal!At
    <3> QED BY <3>1, <3>2
  <2>3. results' \in [Portal!Results -> SUBSET Attempt] /\ \A r \in Portal!Results : results'[r] = {}
    BY <2>1 DEF Portal!NoResults
  <2>4. stops' \in Nat /\ stops' # 0 BY <2>1
  <2>5. \A a \in Attempt : Account(a)' BY <2>1, <2>2, <2>3, <2>4 DEF Account, Portal!Results
  <2> QED BY <2>1, <2>2, <2>3, <2>4, <2>5
<1>11. ASSUME NEW a \in Attempt, Portal!Settle(a) PROVE Accounts'
  <2>1. /\ Portal!At(a) \in {"created", "failed", "lost"} /\ Portal!Moves(a, "done")
        /\ UNCHANGED <<events, results, stops>> /\ "done" \in SignInSteps
    BY <1>11 DEF Portal!Settle, Portal!serviceVars, SignInSteps
  <2>2. Portal!At(a)' = "done" => Account(a)' BY <2>1 DEF Account
  <2> QED BY <1>1, <2>1, <2>2
<1>12. ASSUME NEW a \in Attempt, Portal!DecodeLoginRequest(a) PROVE Accounts'
  <2>1. Portal!At(a) = "posted" /\ UNCHANGED <<events, stops>>
    BY <1>12 DEF Portal!DecodeLoginRequest
  <2>2. CASE Portal!Moves(a, "decoded") /\ UNCHANGED results
    <3>1. Portal!At(a)' = "decoded" => Account(a)' BY <2>1, <2>2 DEF Account
    <3> QED BY <1>1, <2>1, <2>2, <3>1 DEF SignInSteps
  <2>3. CASE Portal!Observe(a, "invalid") /\ Portal!Moves(a, "failed")
    <3>1. /\ results' \in [Portal!Results -> SUBSET Attempt]
          /\ results'["invalid"] = results["invalid"] \cup {a}
          /\ results'["ok"] = results["ok"] /\ results'["error"] = results["error"]
      BY <2>3 DEF Portal!Observe, Portal!Results
    <3>2. Portal!At(a)' = "failed" => Account(a)' BY <2>1, <3>1 DEF Account, Portal!Results
    <3>3. \A b \in Attempt \ {a}, r \in Portal!Results : b \in results'[r] <=> b \in results[r]
      BY <3>1 DEF Portal!Results
    <3> QED BY <1>1, <2>1, <2>3, <3>1, <3>2, <3>3 DEF SignInSteps
  <2> QED BY <1>12, <2>2, <2>3 DEF Portal!DecodeLoginRequest
<1>13. ASSUME NEW a \in Attempt, Portal!RecordLogin(a) PROVE Accounts'
  <2>1. Portal!At(a) = "decoded" /\ UNCHANGED <<results, stops>>
    BY <1>13 DEF Portal!RecordLogin
  <2>2. PICK stays \in BOOLEAN, says \in BOOLEAN :
          /\ says => stays
          /\ events' = IF stays THEN [events EXCEPT ![a] = @ + 1] ELSE events
          /\ Portal!Moves(a, IF says THEN "recorded" ELSE "unrecorded")
    BY <1>13 DEF Portal!RecordLogin
  <2>3. PICK s \in {"recorded", "unrecorded"} : Portal!Moves(a, s) /\ (s = "recorded" => stays)
    BY <2>2
  <2>4. events[a] = 0 BY <2>1 DEF Account
  <2>5. /\ events' \in [Attempt -> Nat] /\ \A b \in Attempt \ {a} : events'[b] = events[b]
        /\ events'[a] \in {0, 1} /\ (stays => events'[a] = 1)
    BY <2>2, <2>4
  <2>6. Portal!At(a)' = s => Account(a)'
    <3>1. /\ s = "recorded" => events'[a] = 1
          /\ \A r \in Portal!Results : a \notin results'[r]
      BY <2>1, <2>3, <2>5 DEF Account
    <3>2. "ok" \in Portal!Results /\ "invalid" \in Portal!Results BY DEF Portal!Results
    <3> SUFFICES ASSUME Portal!At(a)' = s PROVE Account(a)' OBVIOUS
    <3>3. CASE s = "recorded" BY <2>5, <3>1, <3>2, <3>3 DEF Account
    <3>4. CASE s = "unrecorded" BY <2>5, <3>1, <3>2, <3>4 DEF Account
    <3> QED BY <3>3, <3>4
  <2>7. s \in SignInSteps BY DEF SignInSteps
  <2> QED BY <1>1, <2>1, <2>3, <2>5, <2>6, <2>7
<1>14. ASSUME NEW a \in Attempt, Portal!Answer(a) PROVE Accounts'
  <2>1. Portal!At(a) \in {"recorded", "unrecorded"} /\ UNCHANGED <<events, stops>>
    BY <1>14 DEF Portal!Answer
  <2>2. PICK s \in {"created", "failed"}, r \in {"ok", "error"} :
          /\ Portal!Observe(a, r) /\ Portal!Moves(a, s)
          /\ r = "ok" => Portal!At(a) = "recorded"
    BY <1>14 DEF Portal!Answer
  <2>3. /\ results' \in [Portal!Results -> SUBSET Attempt]
        /\ results'[r] = results[r] \cup {a}
        /\ \A q \in Portal!Results \ {r} : results'[q] = results[q]
    BY <2>2 DEF Portal!Observe, Portal!Results
  <2>4. Portal!At(a)' = s => Account(a)' BY <2>1, <2>2, <2>3 DEF Account, Portal!Results
  <2>5. \A b \in Attempt \ {a}, q \in Portal!Results : b \in results'[q] <=> b \in results[q]
    BY <2>3
  <2>6. s \in SignInSteps BY DEF SignInSteps
  <2> QED BY <1>1, <2>1, <2>2, <2>3, <2>4, <2>5, <2>6
<1>15. ASSUME NEW a \in Attempt, Portal!Lose(a) PROVE Accounts'
  <2>1. /\ Portal!At(a) \in {"posted", "created", "failed"} /\ Portal!Moves(a, "lost")
        /\ UNCHANGED <<events, results, stops>> /\ "lost" \in SignInSteps
    BY <1>15 DEF Portal!Lose, Portal!serviceVars, SignInSteps
  <2>2. Portal!At(a)' = "lost" => Account(a)' BY <2>1 DEF Account
  <2> QED BY <1>1, <2>1, <2>2
<1> QED
  BY <1>4, <1>5, <1>6, <1>7, <1>8, <1>9, <1>10, <1>11, <1>12, <1>13, <1>14, <1>15 DEF Portal!Next

LEMMA AccountsTruthful == Accounts => AttemptsAccounted
<1> SUFFICES ASSUME Accounts PROVE Portal!AttemptsAccounted BY DEF AttemptsAccounted
<1>1. /\ results \in [Portal!Results -> SUBSET Attempt] /\ \A a \in Attempt : Account(a)
      /\ events \in [Attempt -> Nat]
  BY DEF Accounts
<1>2. "ok" \in Portal!Results /\ "invalid" \in Portal!Results BY DEF Portal!Results
<1>3. \A r \in Portal!Results : results[r] \subseteq Attempt BY <1>1
<1>4. \A r, s \in Portal!Results : r # s => results[r] \cap results[s] = {}
  BY <1>1, <1>3 DEF Account
<1>5. \A a \in results["ok"] : events[a] = 1 BY <1>1, <1>2, <1>3 DEF Account
<1>6. \A a \in results["invalid"] : events[a] = 0 BY <1>1, <1>2, <1>3 DEF Account
<1>7. \A a \in Attempt : events[a] <= 1 BY <1>1 DEF Account
<1>8. stops = 0 => \A a \in Attempt : events[a] > 0 =>
        Portal!At(a) \in {"recorded", "unrecorded"} \/ a \in results["ok"] \cup results["error"]
  BY <1>1 DEF Account
<1> QED BY <1>4, <1>5, <1>6, <1>7, <1>8 DEF Portal!AttemptsAccounted

\* An attempt is counted under one result at most, as it went, and none that is
\* stored and answered goes uncounted before a stop: for any attempts, however they
\* overlap, and whatever is lost or stored without a word (metrics.go 34, main.go
\* 115-143).
THEOREM AttemptsAreAccounted == Spec => []AttemptsAccounted
<1>1. Portal!Init => Accounts BY AccountsInitially
<1>2. Accounts /\ [Portal!Next]_Portal!signInVars => Accounts' BY AccountsKept
<1>3. Accounts => AttemptsAccounted BY AccountsTruthful
<1> QED BY <1>1, <1>2, <1>3, PortalBehaves, PTL DEF Portal!Spec

-----------------------------------------------------------------------------
(* A room is replaced only by a handler that looked before it was there.   *)


\* Games are numbered from 1, and a record is that of the room it is kept for.
RecordsHaveGames ==
  /\ made \in Nat
  /\ \A k \in DOMAIN redis : redis[k].game \in Nat \ {Directory!NoGame}

\* A handler about to save a room has a game for it: the one it loaded, or a new one.
SaversLoadedOrDrew ==
  \A h \in Maker : job[h].step = "save" =>
    /\ job[h].game \in Nat \ {Directory!NoGame}
    /\ job[h].saw \in {job[h].game, Directory!NoGame}

\* A handler that draws codes has a game of its own.
DrawersHaveGames ==
  \A h \in Maker : job[h].step = "draw" => job[h].game \in Nat \ {Directory!NoGame}

DirectoryInvariant == RecordsHaveGames /\ SaversLoadedOrDrew /\ DrawersHaveGames /\ DOMAIN job = Maker

LEMMA DirectoryInitially == Directory!Init => DirectoryInvariant
  BY DEF Directory!Init, DirectoryInvariant, RecordsHaveGames, SaversLoadedOrDrew, DrawersHaveGames, Directory!Free

\* One handler goes on to something; the records are as they were.
LEMMA HandlerGoesOn ==
  ASSUME DirectoryInvariant, UNCHANGED redis, made' \in Nat, NEW h \in Maker, NEW j, Directory!Takes(h, j),
         j.step = "save" => j.game \in Nat \ {Directory!NoGame} /\ j.saw \in {j.game, Directory!NoGame},
         j.step = "draw" => j.game \in Nat \ {Directory!NoGame}
  PROVE  DirectoryInvariant'
<1>1. /\ DOMAIN job' = Maker /\ job'[h] = j
      /\ \A g \in Maker \ {h} : job'[g] = job[g]
  BY DEF Directory!Takes, DirectoryInvariant
<1>2. SaversLoadedOrDrew' BY <1>1 DEF DirectoryInvariant, SaversLoadedOrDrew
<1>3. DrawersHaveGames' BY <1>1 DEF DirectoryInvariant, DrawersHaveGames
<1> QED BY <1>1, <1>2, <1>3 DEF DirectoryInvariant, RecordsHaveGames

\* Nothing that the invariant is about moves, but for rooms that go.
LEMMA RoomsGo ==
  ASSUME DirectoryInvariant, UNCHANGED <<job, made>>, DOMAIN redis' \subseteq DOMAIN redis,
         \A k \in DOMAIN redis' : redis'[k] = redis[k]
  PROVE  DirectoryInvariant'
  BY DEF DirectoryInvariant, RecordsHaveGames, SaversLoadedOrDrew, DrawersHaveGames

\* A stored room has a game.
LEMMA GetIsGame ==
  ASSUME DirectoryInvariant, NEW r, Directory!Get(r) # Directory!NoGame
  PROVE  Directory!Get(r) \in Nat \ {Directory!NoGame}
  BY DEF Directory!Get, DirectoryInvariant, RecordsHaveGames

LEMMA DirectoryKept == ASSUME DirectoryInvariant, [Directory!Next]_Directory!directoryVars PROVE DirectoryInvariant'
<1> USE DEF Directory!NoGame
<1>1. CASE UNCHANGED Directory!directoryVars BY <1>1, RoomsGo DEF Directory!directoryVars
<1>2. ASSUME NEW p \in Pod, Directory!StartPod(p) \/ Directory!ScanPage(p) \/ Directory!PrimeMetrics(p) \/ Directory!PrimeFails(p)
      PROVE DirectoryInvariant'
  BY <1>2, RoomsGo DEF Directory!StartPod, Directory!ScanPage, Directory!PrimeMetrics, Directory!PrimeFails
<1>3. ASSUME NEW p \in Pod, Directory!StopPod(p) \/ Directory!Connect(p) PROVE DirectoryInvariant'
  BY <1>3, RoomsGo DEF Directory!StopPod, Directory!Connect
<1>4. ASSUME NEW p \in Pod, Directory!EndPod(p) PROVE DirectoryInvariant'
  <2>1. DOMAIN job' = Maker /\ UNCHANGED <<redis, made>> BY <1>4 DEF Directory!EndPod
  <2>2. \A h \in Maker : job'[h] \in {job[h], Directory!Free} BY <1>4 DEF Directory!EndPod
  <2> QED BY <2>1, <2>2 DEF DirectoryInvariant, RecordsHaveGames, SaversLoadedOrDrew, DrawersHaveGames, Directory!Free
<1>5. ASSUME NEW r \in Directory!Room, Directory!Expire(r) PROVE DirectoryInvariant'
  BY <1>5, RoomsGo DEF Directory!Expire
<1>6. ASSUME NEW h \in Maker, NEW rt \in Directory!Runtime, Directory!BeginCreate(h, rt) PROVE DirectoryInvariant'
  <2> DEFINE j == [step |-> "draw", pod |-> link, runtime |-> rt, tries |-> 0, game |-> made + 1]
  <2>1. made \in Nat BY DEF DirectoryInvariant, RecordsHaveGames
  <2>2. Directory!Takes(h, j) /\ UNCHANGED redis /\ made' = made + 1 BY <1>6 DEF Directory!BeginCreate
  <2>3. j.step = "draw" /\ j.game = made + 1 OBVIOUS
  <2> HIDE DEF j
  <2> QED BY <2>1, <2>2, <2>3, HandlerGoesOn
<1>7. ASSUME NEW h \in Maker, NEW r \in Directory!Room, Directory!Load(h, r) PROVE DirectoryInvariant'
  <2>1. PICK step \in {"save", "delete"} :
          Directory!Takes(h, [step |-> step, pod |-> link, room |-> r, game |-> Directory!Get(r), saw |-> Directory!Get(r)])
    BY <1>7 DEF Directory!Load
  <2> DEFINE j == [step |-> step, pod |-> link, room |-> r, game |-> Directory!Get(r), saw |-> Directory!Get(r)]
  <2>2. Directory!Get(r) \in Nat \ {Directory!NoGame} BY <1>7, GetIsGame DEF Directory!Load
  <2>3. j.step \in {"save", "delete"} /\ j.game = Directory!Get(r) /\ j.saw = Directory!Get(r) OBVIOUS
  <2>4. Directory!Takes(h, j) /\ UNCHANGED <<redis, made>> BY <1>7, <2>1 DEF Directory!Load
  <2> HIDE DEF j
  <2> QED BY <2>2, <2>3, <2>4, HandlerGoesOn DEF DirectoryInvariant, RecordsHaveGames
<1>8. ASSUME NEW h \in Maker, NEW r \in Directory!Room, Directory!FindGone(h, r) PROVE DirectoryInvariant'
  <2> DEFINE j == [step |-> "untrack", pod |-> link, room |-> r]
  <2>1. Directory!Takes(h, j) /\ UNCHANGED <<redis, made>> BY <1>8 DEF Directory!FindGone
  <2>2. j.step = "untrack" OBVIOUS
  <2> HIDE DEF j
  <2> QED BY <2>1, <2>2, HandlerGoesOn DEF DirectoryInvariant, RecordsHaveGames
<1>9. ASSUME NEW h \in Maker, Directory!Draw(h) PROVE DirectoryInvariant'
  <2>1. job[h].step = "draw" /\ job[h].game \in Nat \ {Directory!NoGame} /\ UNCHANGED <<redis, made>>
    BY <1>9 DEF Directory!Draw, Directory!Step, DirectoryInvariant, DrawersHaveGames
  <2>2. PICK c \in Code : LET r == <<job[h].runtime, c>> IN
          IF Directory!Get(r) = Directory!NoGame THEN Directory!SaveAs(h, r, job[h].game, Directory!NoGame)
          ELSE IF job[h].tries + 1 < MaxAttempts THEN Directory!Takes(h, [job[h] EXCEPT !.tries = @ + 1])
          ELSE Directory!Ends(h)
    BY <1>9 DEF Directory!Draw
  <2>3. CASE Directory!SaveAs(h, <<job[h].runtime, c>>, job[h].game, Directory!NoGame)
    <3> DEFINE j == [step |-> "save", pod |-> job[h].pod, room |-> <<job[h].runtime, c>>,
                     game |-> job[h].game, saw |-> Directory!NoGame]
    <3>1. Directory!Takes(h, j) BY <2>3 DEF Directory!SaveAs
    <3>2. j.step = "save" /\ j.game = job[h].game /\ j.saw = Directory!NoGame OBVIOUS
    <3> HIDE DEF j
    <3> QED BY <2>1, <3>1, <3>2, HandlerGoesOn DEF DirectoryInvariant, RecordsHaveGames
  <2>4. CASE Directory!Takes(h, [job[h] EXCEPT !.tries = @ + 1])
    <3> DEFINE j == [job[h] EXCEPT !.tries = @ + 1]
    <3>1. j.step = job[h].step /\ j.game = job[h].game OBVIOUS
    <3>2. Directory!Takes(h, j) BY <2>4
    <3> HIDE DEF j
    <3> QED BY <2>1, <3>1, <3>2, HandlerGoesOn DEF DirectoryInvariant, RecordsHaveGames
  <2>5. CASE Directory!Ends(h)
    BY <2>1, <2>5, HandlerGoesOn DEF Directory!Ends, Directory!Free, DirectoryInvariant, RecordsHaveGames
  <2> QED BY <2>2, <2>3, <2>4, <2>5
<1>10. ASSUME NEW h \in Maker, Directory!SaveRoom(h) PROVE DirectoryInvariant'
  <2> DEFINE j == [step |-> "track", pod |-> job[h].pod, room |-> job[h].room]
  <2>1. job[h].game \in Nat \ {Directory!NoGame}
    BY <1>10 DEF Directory!SaveRoom, Directory!Step, DirectoryInvariant, SaversLoadedOrDrew
  <2>2. \A k \in DOMAIN redis' : redis'[k].game \in Nat \ {Directory!NoGame}
    BY <1>10, <2>1 DEF Directory!SaveRoom, DirectoryInvariant, RecordsHaveGames
  <2>3. Directory!Takes(h, j) /\ UNCHANGED made BY <1>10 DEF Directory!SaveRoom, Directory!NoteAs
  <2>4. j.step = "track" OBVIOUS
  <2> HIDE DEF j
  <2>5. /\ DOMAIN job' = Maker /\ job'[h] = j
        /\ \A g \in Maker \ {h} : job'[g] = job[g]
    BY <2>3 DEF Directory!Takes, DirectoryInvariant
  <2>6. SaversLoadedOrDrew' BY <2>4, <2>5 DEF DirectoryInvariant, SaversLoadedOrDrew
  <2>7. DrawersHaveGames' BY <2>4, <2>5 DEF DirectoryInvariant, DrawersHaveGames
  <2> QED BY <2>2, <2>3, <2>5, <2>6, <2>7 DEF DirectoryInvariant, RecordsHaveGames
<1>11. ASSUME NEW h \in Maker, Directory!DeleteRoom(h) PROVE DirectoryInvariant'
  <2> DEFINE j == [step |-> "untrack", pod |-> job[h].pod, room |-> job[h].room]
  <2>1. \A k \in DOMAIN redis' : redis'[k].game \in Nat \ {Directory!NoGame}
    BY <1>11 DEF Directory!DeleteRoom, DirectoryInvariant, RecordsHaveGames
  <2>2. Directory!Takes(h, j) /\ UNCHANGED made BY <1>11 DEF Directory!DeleteRoom, Directory!NoteAs
  <2>3. j.step = "untrack" OBVIOUS
  <2> HIDE DEF j
  <2>4. /\ DOMAIN job' = Maker /\ job'[h] = j
        /\ \A g \in Maker \ {h} : job'[g] = job[g]
    BY <2>2 DEF Directory!Takes, DirectoryInvariant
  <2>5. SaversLoadedOrDrew' BY <2>3, <2>4 DEF DirectoryInvariant, SaversLoadedOrDrew
  <2>6. DrawersHaveGames' BY <2>3, <2>4 DEF DirectoryInvariant, DrawersHaveGames
  <2> QED BY <2>1, <2>2, <2>4, <2>5, <2>6 DEF DirectoryInvariant, RecordsHaveGames
<1>12. ASSUME NEW h \in Maker, Directory!Note(h) \/ Directory!Abort(h) PROVE DirectoryInvariant'
  BY <1>12, HandlerGoesOn DEF Directory!Note, Directory!Abort, Directory!Ends, Directory!Free, DirectoryInvariant, RecordsHaveGames
<1> QED
  BY <1>1, <1>2, <1>3, <1>4, <1>5, <1>6, <1>7, <1>8, <1>9, <1>10, <1>11, <1>12 DEF Directory!Next

\* The code's room changes hands: the step is a save, of a handler with another game.
LEMMA OnlySavesReplace ==
  ASSUME DirectoryInvariant, [Directory!Next]_Directory!directoryVars, NEW k \in DOMAIN redis \cap DOMAIN redis',
         redis'[k].game # redis[k].game
  PROVE  \E h \in Maker : /\ Directory!Busy(h) /\ job[h].step = "save"
                          /\ Directory!RoomKey(job[h].room) = k /\ job[h].saw # redis[k].game
<1>1. PICK h \in Maker : Directory!SaveRoom(h)
  BY DEF Directory!Next, Directory!directoryVars, Directory!StartPod, Directory!ScanPage, Directory!PrimeMetrics, Directory!PrimeFails, Directory!StopPod, Directory!Connect,
         Directory!EndPod, Directory!Expire, Directory!BeginCreate, Directory!Load, Directory!FindGone, Directory!Draw, Directory!DeleteRoom, Directory!Note, Directory!Abort
<1>2. Directory!Busy(h) /\ job[h].step = "save" BY <1>1 DEF Directory!SaveRoom, Directory!Step
<1>3. k = Directory!RoomKey(job[h].room) /\ redis'[k].game = job[h].game BY <1>1 DEF Directory!SaveRoom
<1>4. job[h].saw \in {job[h].game, Directory!NoGame} BY <1>2 DEF DirectoryInvariant, SaversLoadedOrDrew
<1>5. redis[k].game # Directory!NoGame BY DEF DirectoryInvariant, RecordsHaveGames
<1> QED BY <1>2, <1>3, <1>4, <1>5

\* A stored room gives way to another one with its code only to a handler that had
\* looked before it was stored: a save of a loaded copy never does it, nor does a
\* pod that starts, stops or scans (service.go 798-822).
THEOREM ReplacedByUnseenOnly == Spec => ReplacedOnlyUnseen
<1>1. Directory!Init => DirectoryInvariant BY DirectoryInitially
<1>2. DirectoryInvariant /\ [Directory!Next]_Directory!directoryVars => DirectoryInvariant' BY DirectoryKept
<1>3. DirectoryInvariant /\ [Directory!Next]_Directory!directoryVars =>
        [\A k \in DOMAIN redis \cap DOMAIN redis' : redis'[k].game # redis[k].game =>
           \E h \in Maker : /\ Directory!Busy(h) /\ job[h].step = "save"
                            /\ Directory!RoomKey(job[h].room) = k /\ job[h].saw # redis[k].game]_Directory!directoryVars
  BY OnlySavesReplace
<1> QED BY <1>1, <1>2, <1>3, DirectoryBehaves, PTL DEF Directory!Spec, ReplacedOnlyUnseen, Directory!ReplacedOnlyUnseen

-----------------------------------------------------------------------------
(* A match-core whose scans succeeded ticks the rooms it was to find.      *)

Phases == {"new", "serving", "stopping", "gone"}
Scan == [phase : {"scanning"}, runtime : Directory!Runtime, left : SUBSET Code, found : SUBSET Code]

PodTypes ==
  /\ pod \in [Pod -> {[phase |-> x] : x \in Phases} \cup Scan]
  /\ active \in [Pod -> SUBSET Directory!Room]
  /\ steady \in [Pod -> SUBSET Directory!Room]
  /\ DOMAIN job = Maker

\* The gateway is connected to a pod that serves.
Linked == link # Directory!NoPod => link \in Pod /\ Directory!Serving(link)

\* What was stored without a gap is stored.
SteadyStored == \A p \in Pod : steady[p] \subseteq Directory!Stored

\* A handler runs in a pod that serves or stops, and one that is about to take a
\* room off the list holds a room that has gone.
Held(j) ==
  /\ j.pod \in Pod /\ pod[j.pod].phase \in {"serving", "stopping"}
  /\ j.step = "draw" => j.runtime \in Directory!Runtime
  /\ j.step # "draw" => j.room \in Directory!Room
  /\ j.step = "untrack" => j.room \notin steady[j.pod]
HandlersRun == \A h \in Maker : job[h] = Directory!Free \/ Held(job[h])

\* Behind the scan a room is in the list or among those found, and ahead of it in
\* what is left to scan.
Scanned(p) ==
  \A r \in steady[p] :
    IF r[1] = pod[p].runtime THEN r[2] \in pod[p].left \cup pod[p].found
    ELSE r[1] = "chess" => r \in active[p]
Ticking(p) ==
  /\ pod[p].phase = "scanning" => Scanned(p)
  /\ pod[p].phase = "serving" => steady[p] \subseteq active[p]

TickInvariant ==
  /\ PodTypes /\ Linked /\ SteadyStored /\ HandlersRun
  /\ \A p \in Pod : Ticking(p)

LEMMA TickInitially == Directory!Init => TickInvariant
  BY DEF Directory!Init, TickInvariant, PodTypes, Linked, SteadyStored, HandlersRun, Ticking,
         Phases, Directory!Free

LEMMA RoomsArePairs ==
  \A r \in Directory!Room : r = <<r[1], r[2]>> /\ r[1] \in Directory!Runtime /\ r[2] \in Code
  BY DEF Directory!Room

LEMMA StoredMeans ==
  \A r : r \in Directory!Stored <=>
           r \in Directory!Room /\ r \in DOMAIN redis /\ redis[r].game # Directory!NoGame
  BY DEF Directory!Stored, Directory!Get, Directory!RoomKey

\* A handler goes on; the pods and the rooms are as they were.
LEMMA HandlerTakes ==
  ASSUME TickInvariant, UNCHANGED <<redis, pod, active, steady, link>>,
         NEW h \in Maker, NEW j, Directory!Takes(h, j), j = Directory!Free \/ Held(j)
  PROVE  TickInvariant'
<1>1. /\ DOMAIN job' = Maker /\ job'[h] = j /\ \A g \in Maker \ {h} : job'[g] = job[g]
  BY DEF Directory!Takes, TickInvariant, PodTypes
<1>2. PodTypes' BY <1>1 DEF TickInvariant, PodTypes
<1>3. Linked' BY DEF TickInvariant, Linked, Directory!Serving
<1>4. SteadyStored' BY StoredMeans DEF TickInvariant, SteadyStored, Directory!Stored, Directory!Get
<1>5. HandlersRun'
  <2> SUFFICES ASSUME NEW g \in Maker, job'[g] # Directory!Free PROVE Held(job[g])'
    BY DEF HandlersRun
  <2>1. CASE g = h BY <1>1, <2>1 DEF Held
  <2>2. CASE g # h
    <3>1. job'[g] = job[g] /\ Held(job[g]) BY <1>1, <2>2 DEF TickInvariant, HandlersRun
    <3> QED BY <3>1 DEF Held
  <2> QED BY <2>1, <2>2
<1>6. \A p \in Pod : Ticking(p)' BY DEF TickInvariant, Ticking, Scanned
<1> QED BY <1>2, <1>3, <1>4, <1>5, <1>6 DEF TickInvariant

\* One pod that has no handlers yet moves; the rooms are as they were.
LEMMA PodMoves ==
  ASSUME TickInvariant, UNCHANGED <<redis, job, link>>, NEW p \in Pod,
         pod[p].phase \in {"new", "scanning"},
         NEW q \in {[phase |-> x] : x \in Phases} \cup Scan, pod' = [pod EXCEPT ![p] = q],
         NEW s \in SUBSET Directory!Room, steady' = [steady EXCEPT ![p] = s],
         NEW l \in SUBSET Directory!Room, active' = [active EXCEPT ![p] = l],
         s \subseteq Directory!Stored, Ticking(p)'
  PROVE  TickInvariant'
<1>1. /\ pod'[p] = q /\ steady'[p] = s /\ active'[p] = l
      /\ \A o \in Pod \ {p} : pod'[o] = pod[o] /\ steady'[o] = steady[o] /\ active'[o] = active[o]
  BY DEF TickInvariant, PodTypes
<1>2. PodTypes' BY DEF TickInvariant, PodTypes
<1>3. Linked' BY <1>1 DEF TickInvariant, Linked, Directory!Serving
<1>4. Directory!Stored' = Directory!Stored BY DEF Directory!Stored, Directory!Get
<1>5. SteadyStored' BY <1>1, <1>4 DEF TickInvariant, SteadyStored
<1>6. HandlersRun'
  <2> SUFFICES ASSUME NEW h \in Maker, job'[h] # Directory!Free PROVE Held(job[h])'
    BY DEF HandlersRun
  <2>1. Held(job[h]) BY DEF TickInvariant, HandlersRun
  <2>2. job[h].pod # p BY <2>1 DEF Held
  <2> QED BY <1>1, <2>1, <2>2 DEF Held
<1>7. \A o \in Pod \ {p} : Ticking(o)' BY <1>1 DEF TickInvariant, Ticking, Scanned
<1> QED BY <1>2, <1>3, <1>5, <1>6, <1>7 DEF TickInvariant

\* Rooms go, or come, and are no longer among the steady ones, or not yet.
LEMMA RoomsChange ==
  ASSUME TickInvariant, UNCHANGED <<pod, active, link>>, DOMAIN job' = Maker,
         NEW gone \in SUBSET Directory!Room, Directory!Forget(gone),
         \A r \in Directory!Stored : r \notin gone => r \in Directory!Stored',
         NEW h \in Maker, \A g \in Maker \ {h} : job'[g] = job[g],
         job'[h] = Directory!Free \/ Held(job[h])'
  PROVE  TickInvariant'
<1>1. \A p \in Pod : steady'[p] = steady[p] \ gone BY DEF Directory!Forget
<1>2. PodTypes' BY <1>1 DEF TickInvariant, PodTypes, Directory!Forget
<1>3. Linked' BY DEF TickInvariant, Linked, Directory!Serving
<1>4. SteadyStored' BY <1>1 DEF TickInvariant, SteadyStored
<1>5. HandlersRun'
  <2> SUFFICES ASSUME NEW g \in Maker, g # h, job'[g] # Directory!Free PROVE Held(job[g])'
    BY DEF HandlersRun
  <2>1. Held(job[g]) /\ job'[g] = job[g] BY DEF TickInvariant, HandlersRun
  <2> QED BY <1>1, <2>1 DEF Held
<1>6. \A p \in Pod : Ticking(p)' BY <1>1 DEF TickInvariant, Ticking, Scanned
<1> QED BY <1>2, <1>3, <1>4, <1>5, <1>6 DEF TickInvariant

\* The scan of pod p goes on.
LEMMA ScanKept ==
  ASSUME TickInvariant, NEW p \in Pod,
         \/ Directory!StartPod(p) \/ Directory!ScanPage(p)
         \/ Directory!PrimeMetrics(p) \/ Directory!PrimeFails(p)
  PROVE  TickInvariant'
<1> USE DEF TickInvariant
<1>0. /\ pod[p] \in {[phase |-> x] : x \in Phases} \cup Scan
      /\ active[p] \in SUBSET Directory!Room /\ steady[p] \in SUBSET Directory!Room
      /\ steady[p] \subseteq Directory!Stored
      /\ active = [active EXCEPT ![p] = active[p]] /\ steady = [steady EXCEPT ![p] = steady[p]]
  BY DEF PodTypes, SteadyStored
<1>1. pod[p].phase = "scanning" => pod[p] \in Scan BY <1>0 DEF Phases
<1>2. \A rt \in Directory!Runtime : Directory!Scanning(rt) \in Scan BY DEF Directory!Scanning, Scan
<1>3. CASE Directory!StartPod(p)
  <2> DEFINE q == Directory!Scanning("chess")
  <2>1. /\ pod[p].phase = "new" /\ pod' = [pod EXCEPT ![p] = q]
        /\ steady' = [steady EXCEPT ![p] = Directory!Stored]
        /\ active' = [active EXCEPT ![p] = active[p]] /\ UNCHANGED <<redis, link, job>>
    BY <1>0, <1>3 DEF Directory!StartPod
  <2>2. q \in Scan /\ Directory!Stored \in SUBSET Directory!Room
    BY <1>2 DEF Directory!Runtime, Directory!Stored
  <2>3. q.phase = "scanning" /\ q.runtime = "chess" /\ q.left = Code /\ q.found = {}
    BY DEF Directory!Scanning
  <2> HIDE DEF q
  <2>4. pod'[p] = q /\ steady'[p] \in SUBSET Directory!Room BY <2>1, <2>2 DEF PodTypes
  <2>5. Ticking(p)'
    BY <2>3, <2>4, RoomsArePairs DEF Ticking, Scanned
  <2> QED BY <1>0, <2>1, <2>2, <2>5, PodMoves
<1>4. CASE Directory!ScanPage(p)
  <2>1. PICK page \in SUBSET pod[p].left \ {{}} :
          pod' = [pod EXCEPT ![p].left = @ \ page,
                             ![p].found = @ \cup {c \in page : Directory!Get(<<pod[p].runtime, c>>) # Directory!NoGame}]
    BY <1>4 DEF Directory!ScanPage
  <2>2. /\ pod[p].phase = "scanning" /\ UNCHANGED <<redis, active, steady, link, job>>
        /\ pod[p] \in Scan
    BY <1>1, <1>4 DEF Directory!ScanPage
  <2> DEFINE there == {c \in page : Directory!Get(<<pod[p].runtime, c>>) # Directory!NoGame}
             q == [pod[p] EXCEPT !.left = @ \ page, !.found = @ \cup there]
  <2>3. there \subseteq Code BY <2>1, <2>2 DEF Scan
  <2>4. pod' = [pod EXCEPT ![p] = q] BY <2>1 DEF PodTypes
  <2>5. q \in Scan /\ q.phase = "scanning" /\ q.runtime = pod[p].runtime
        /\ q.left = pod[p].left \ page /\ q.found = pod[p].found \cup there
    <3> HIDE DEF there
    <3> QED BY <2>1, <2>2, <2>3 DEF Scan
  <2>6. \A r \in steady[p] : r[1] = pod[p].runtime /\ r[2] \in page => r[2] \in there
    BY <1>0, RoomsArePairs DEF Directory!Stored
  <2> HIDE DEF q, there
  <2>7. pod'[p] = q BY <2>4 DEF PodTypes
  <2>8. Ticking(p)'
    <3>1. Scanned(p) BY <2>2 DEF Ticking
    <3>2. Scanned(p)' BY <2>2, <2>5, <2>6, <2>7, <3>1 DEF Scanned
    <3> QED BY <2>5, <2>7, <3>2 DEF Ticking
  <2>9. steady' = [steady EXCEPT ![p] = steady[p]] /\ active' = [active EXCEPT ![p] = active[p]]
    BY <1>0, <2>2
  <2> QED BY <1>0, <2>2, <2>4, <2>5, <2>8, <2>9, PodMoves
<1>5. CASE Directory!PrimeMetrics(p)
  <2> DEFINE q == Directory!NextRuntime(pod[p].runtime)
             l == active[p] \cup ({pod[p].runtime} \X pod[p].found)
  <2>1. /\ pod[p].phase = "scanning" /\ pod[p].left = {} /\ pod[p] \in Scan
        /\ active' = [active EXCEPT ![p] = l] /\ pod' = [pod EXCEPT ![p] = q]
        /\ UNCHANGED <<redis, steady, link, job>>
    BY <1>1, <1>5 DEF Directory!PrimeMetrics
  <2>2. q \in {[phase |-> x] : x \in Phases} \cup Scan
    BY <1>2 DEF Directory!NextRuntime, Phases, Directory!Runtime
  <2>3. l \in SUBSET Directory!Room BY <1>0, <2>1 DEF Scan, Directory!Room
  <2>4. \A r \in steady[p] : /\ r[1] = pod[p].runtime => r \in l
                             /\ r[1] # pod[p].runtime /\ r[1] = "chess" => r \in l
    <3>1. Scanned(p) BY <2>1 DEF Ticking
    <3> QED BY <1>0, <2>1, <3>1, RoomsArePairs DEF Scanned
  <2>5. pod[p].runtime = "chess" => q = Directory!Scanning("tictactoe")
    BY DEF Directory!NextRuntime
  <2>6. pod[p].runtime # "chess" => q = [phase |-> "serving"] /\ pod[p].runtime = "tictactoe"
    BY <2>1 DEF Directory!NextRuntime, Scan, Directory!Runtime
  <2> HIDE DEF q, l
  <2>7. pod'[p] = q /\ active'[p] = l /\ steady'[p] = steady[p] BY <2>1 DEF PodTypes
  <2>8. Ticking(p)'
    <3>1. CASE pod[p].runtime = "chess"
      <4>1. q.phase = "scanning" /\ q.runtime = "tictactoe" /\ q.left = Code
        BY <2>5, <3>1 DEF Directory!Scanning
      <4>2. Scanned(p)'
        BY <1>0, <2>4, <2>7, <3>1, <4>1, RoomsArePairs DEF Scanned, Directory!Runtime
      <4> QED BY <2>7, <4>1, <4>2 DEF Ticking
    <3>2. CASE pod[p].runtime # "chess"
      <4>1. q.phase = "serving" BY <2>6, <3>2
      <4>2. steady[p] \subseteq l
        BY <1>0, <2>4, <2>6, <3>2, RoomsArePairs DEF Directory!Runtime
      <4> QED BY <2>7, <4>1, <4>2 DEF Ticking
    <3> QED BY <3>1, <3>2
  <2>9. steady' = [steady EXCEPT ![p] = steady[p]] BY <1>0, <2>1
  <2> QED BY <1>0, <2>1, <2>2, <2>3, <2>8, <2>9, PodMoves
<1>6. CASE Directory!PrimeFails(p)
  <2> DEFINE q == Directory!NextRuntime(pod[p].runtime)
             s == steady[p] \ ({pod[p].runtime} \X Code)
  <2>1. /\ pod[p].phase = "scanning" /\ pod[p] \in Scan
        /\ steady' = [steady EXCEPT ![p] = s] /\ pod' = [pod EXCEPT ![p] = q]
        /\ UNCHANGED <<redis, active, link, job>>
    BY <1>1, <1>6 DEF Directory!PrimeFails
  <2>2. q \in {[phase |-> x] : x \in Phases} \cup Scan
    BY <1>2 DEF Directory!NextRuntime, Phases, Directory!Runtime
  <2>3. s \in SUBSET Directory!Room /\ s \subseteq Directory!Stored BY <1>0
  <2>4. \A r \in s : /\ r \in Directory!Room /\ r[1] # pod[p].runtime
                     /\ r[1] = "chess" => r \in active[p]
    <3>1. Scanned(p) BY <2>1 DEF Ticking
    <3> QED BY <1>0, <3>1, RoomsArePairs DEF Scanned
  <2>5. pod[p].runtime = "chess" => q = Directory!Scanning("tictactoe")
    BY DEF Directory!NextRuntime
  <2>6. pod[p].runtime # "chess" => q = [phase |-> "serving"] /\ pod[p].runtime = "tictactoe"
    BY <2>1 DEF Directory!NextRuntime, Scan, Directory!Runtime
  <2> HIDE DEF q, s
  <2>7. pod'[p] = q /\ active'[p] = active[p] /\ steady'[p] = s BY <2>1 DEF PodTypes
  <2>8. Ticking(p)'
    <3>1. CASE pod[p].runtime = "chess"
      <4>1. q.phase = "scanning" /\ q.runtime = "tictactoe" /\ q.left = Code
        BY <2>5, <3>1 DEF Directory!Scanning
      <4>2. Scanned(p)'
        BY <2>4, <2>7, <3>1, <4>1, RoomsArePairs DEF Scanned
      <4> QED BY <2>7, <4>1, <4>2 DEF Ticking
    <3>2. CASE pod[p].runtime # "chess"
      <4>1. q.phase = "serving" BY <2>6, <3>2
      <4>2. s \subseteq active[p]
        BY <2>4, <2>6, <3>2, RoomsArePairs DEF Directory!Runtime
      <4> QED BY <2>7, <4>1, <4>2 DEF Ticking
    <3> QED BY <3>1, <3>2
  <2>9. active' = [active EXCEPT ![p] = active[p]] BY <1>0, <2>1
  <2> QED BY <1>0, <2>1, <2>2, <2>3, <2>8, <2>9, PodMoves
<1> QED BY <1>3, <1>4, <1>5, <1>6

\* A pod stops or ends, or the gateway connects.
LEMMA PodsKept ==
  ASSUME TickInvariant, NEW p \in Pod,
         Directory!StopPod(p) \/ Directory!EndPod(p) \/ Directory!Connect(p)
  PROVE  TickInvariant'
<1> USE DEF TickInvariant
<1>1. CASE Directory!StopPod(p)
  <2>1. /\ pod[p].phase = "serving" /\ pod' = [pod EXCEPT ![p] = [phase |-> "stopping"]]
        /\ link' = (IF link = p THEN Directory!NoPod ELSE link)
        /\ UNCHANGED <<redis, active, steady, job>>
    BY <1>1 DEF Directory!StopPod, Directory!Serving
  <2>2. /\ pod'[p].phase = "stopping" /\ \A o \in Pod \ {p} : pod'[o] = pod[o]
        /\ PodTypes'
    BY <2>1 DEF PodTypes, Phases
  <2>3. Linked' BY <2>1, <2>2 DEF Linked, Directory!Serving
  <2>4. SteadyStored' BY <2>1 DEF SteadyStored, Directory!Stored, Directory!Get
  <2>5. HandlersRun' BY <2>1, <2>2 DEF HandlersRun, Held
  <2>6. \A o \in Pod : Ticking(o)' BY <2>1, <2>2 DEF Ticking, Scanned
  <2> QED BY <2>2, <2>3, <2>4, <2>5, <2>6
<1>2. CASE Directory!EndPod(p)
  <2>1. /\ pod[p].phase \in {"serving", "stopping"}
        /\ pod' = [pod EXCEPT ![p] = [phase |-> "gone"]]
        /\ active' = [active EXCEPT ![p] = {}] /\ steady' = [steady EXCEPT ![p] = {}]
        /\ link' = (IF link = p THEN Directory!NoPod ELSE link)
        /\ job' = [h \in Maker |-> IF Directory!Busy(h) /\ job[h].pod = p THEN Directory!Free
                                   ELSE job[h]]
        /\ UNCHANGED redis
    BY <1>2 DEF Directory!EndPod
  <2>2. /\ pod'[p].phase = "gone" /\ active'[p] = {} /\ steady'[p] = {}
        /\ \A o \in Pod \ {p} : pod'[o] = pod[o] /\ active'[o] = active[o] /\ steady'[o] = steady[o]
        /\ PodTypes'
    BY <2>1 DEF PodTypes, Phases
  <2>3. Linked' BY <2>1, <2>2 DEF Linked, Directory!Serving
  <2>4. SteadyStored' BY <2>1, <2>2 DEF SteadyStored, Directory!Stored, Directory!Get
  <2>5. \A h \in Maker : job'[h] = Directory!Free
                         \/ (job'[h] = job[h] /\ Held(job[h]) /\ job[h].pod # p)
    BY <2>1 DEF HandlersRun, Directory!Busy
  <2>6. HandlersRun' BY <2>2, <2>5 DEF HandlersRun, Held
  <2>7. \A o \in Pod : Ticking(o)' BY <2>2 DEF Ticking, Scanned
  <2> QED BY <2>2, <2>3, <2>4, <2>6, <2>7
<1>3. CASE Directory!Connect(p)
  <2>1. /\ Directory!Serving(p) /\ link' = p /\ UNCHANGED <<redis, pod, active, steady, job>>
    BY <1>3 DEF Directory!Connect
  <2>2. PodTypes' BY <2>1 DEF PodTypes
  <2>3. Linked' BY <2>1 DEF Linked, Directory!Serving
  <2>4. SteadyStored' BY <2>1 DEF SteadyStored, Directory!Stored, Directory!Get
  <2>5. HandlersRun' BY <2>1 DEF HandlersRun, Held
  <2>6. \A o \in Pod : Ticking(o)' BY <2>1 DEF Ticking, Scanned
  <2> QED BY <2>2, <2>3, <2>4, <2>5, <2>6
<1> QED BY <1>1, <1>2, <1>3

\* A call finds a pod that serves, and draws, loads, looks or gives up in it.
LEMMA CallsKept ==
  ASSUME TickInvariant, NEW h \in Maker,
         \/ \E rt \in Directory!Runtime : Directory!BeginCreate(h, rt)
         \/ \E r \in Directory!Room : Directory!Load(h, r) \/ Directory!FindGone(h, r)
         \/ Directory!Draw(h) \/ Directory!Abort(h)
  PROVE  TickInvariant'
<1>1. UNCHANGED <<redis, pod, active, steady, link>>
  BY DEF Directory!BeginCreate, Directory!Load, Directory!FindGone, Directory!Draw, Directory!Abort
<1>2. link # Directory!NoPod => link \in Pod /\ pod[link].phase = "serving"
  BY DEF TickInvariant, Linked, Directory!Serving
<1>3. Directory!Takes(h, Directory!Free) => TickInvariant' BY <1>1, HandlerTakes
<1>4. ASSUME NEW rt \in Directory!Runtime, Directory!BeginCreate(h, rt) PROVE TickInvariant'
  <2> DEFINE j == [step |-> "draw", pod |-> link, runtime |-> rt, tries |-> 0, game |-> made + 1]
  <2>1. Directory!Takes(h, j) /\ link # Directory!NoPod
    BY <1>4 DEF Directory!BeginCreate, Directory!Called
  <2>2. j.step = "draw" /\ j.pod = link /\ j.runtime = rt OBVIOUS
  <2> HIDE DEF j
  <2>3. Held(j) BY <1>2, <2>1, <2>2 DEF Held
  <2> QED BY <1>1, <2>1, <2>3, HandlerTakes
<1>5. ASSUME NEW r \in Directory!Room, Directory!Load(h, r) PROVE TickInvariant'
  <2>1. PICK step \in {"save", "delete"} :
          Directory!Takes(h, [step |-> step, pod |-> link, room |-> r,
                              game |-> Directory!Get(r), saw |-> Directory!Get(r)])
    BY <1>5 DEF Directory!Load
  <2> DEFINE j == [step |-> step, pod |-> link, room |-> r,
                   game |-> Directory!Get(r), saw |-> Directory!Get(r)]
  <2>2. Directory!Takes(h, j) /\ link # Directory!NoPod
    BY <1>5, <2>1 DEF Directory!Load, Directory!Called
  <2>3. j.step \in {"save", "delete"} /\ j.pod = link /\ j.room = r OBVIOUS
  <2> HIDE DEF j
  <2>4. Held(j) BY <1>2, <2>2, <2>3 DEF Held
  <2> QED BY <1>1, <2>2, <2>4, HandlerTakes
<1>6. ASSUME NEW r \in Directory!Room, Directory!FindGone(h, r) PROVE TickInvariant'
  <2> DEFINE j == [step |-> "untrack", pod |-> link, room |-> r]
  <2>1. Directory!Takes(h, j) /\ link # Directory!NoPod /\ Directory!Get(r) = Directory!NoGame
    BY <1>6 DEF Directory!FindGone, Directory!Called
  <2>2. j.step = "untrack" /\ j.pod = link /\ j.room = r OBVIOUS
  <2> HIDE DEF j
  <2>3. r \notin steady[link]
    BY <1>2, <2>1 DEF TickInvariant, SteadyStored, Directory!Stored
  <2>4. Held(j) BY <1>2, <2>1, <2>2, <2>3 DEF Held
  <2> QED BY <1>1, <2>1, <2>4, HandlerTakes
<1>7. CASE Directory!Draw(h)
  <2>1. Held(job[h]) /\ job[h].step = "draw"
    BY <1>7 DEF Directory!Draw, Directory!Step, Directory!Busy, TickInvariant, HandlersRun
  <2>2. PICK c \in Code : LET r == <<job[h].runtime, c>> IN
          IF Directory!Get(r) = Directory!NoGame
          THEN Directory!SaveAs(h, r, job[h].game, Directory!NoGame)
          ELSE IF job[h].tries + 1 < MaxAttempts
               THEN Directory!Takes(h, [job[h] EXCEPT !.tries = @ + 1])
          ELSE Directory!Ends(h)
    BY <1>7 DEF Directory!Draw
  <2>3. CASE Directory!SaveAs(h, <<job[h].runtime, c>>, job[h].game, Directory!NoGame)
    <3> DEFINE j == [step |-> "save", pod |-> job[h].pod, room |-> <<job[h].runtime, c>>,
                     game |-> job[h].game, saw |-> Directory!NoGame]
    <3>1. Directory!Takes(h, j) BY <2>3 DEF Directory!SaveAs
    <3>2. <<job[h].runtime, c>> \in Directory!Room BY <2>1 DEF Held, Directory!Room
    <3>3. j.step = "save" /\ j.pod = job[h].pod /\ j.room = <<job[h].runtime, c>> OBVIOUS
    <3> HIDE DEF j
    <3>4. Held(j) BY <2>1, <3>2, <3>3 DEF Held
    <3> QED BY <1>1, <3>1, <3>4, HandlerTakes
  <2>4. CASE Directory!Takes(h, [job[h] EXCEPT !.tries = @ + 1])
    <3> DEFINE j == [job[h] EXCEPT !.tries = @ + 1]
    <3>1. /\ j.step = job[h].step /\ j.pod = job[h].pod /\ j.room = job[h].room
          /\ j.runtime = job[h].runtime
      OBVIOUS
    <3>2. Directory!Takes(h, j) BY <2>4
    <3> HIDE DEF j
    <3>3. Held(j) BY <2>1, <3>1 DEF Held
    <3> QED BY <1>1, <3>2, <3>3, HandlerTakes
  <2>5. CASE Directory!Ends(h) BY <1>3, <2>5 DEF Directory!Ends
  <2> QED BY <2>2, <2>3, <2>4, <2>5
<1>8. CASE Directory!Abort(h) BY <1>3, <1>8 DEF Directory!Abort, Directory!Ends
<1> QED BY <1>4, <1>5, <1>6, <1>7, <1>8

\* A room's record expires, is saved or is deleted, and the list is brought up to date.
LEMMA RoomsKept ==
  ASSUME TickInvariant, DirectoryInvariant,
         \/ \E r \in Directory!Room : Directory!Expire(r)
         \/ \E h \in Maker : Directory!SaveRoom(h) \/ Directory!DeleteRoom(h) \/ Directory!Note(h)
  PROVE  TickInvariant'
<1>1. ASSUME NEW r \in Directory!Room, Directory!Expire(r) PROVE TickInvariant'
  <2>1. /\ redis' = [k \in DOMAIN redis \ {r} |-> redis[k]] /\ Directory!Forget({r})
        /\ UNCHANGED <<pod, active, link, job>>
    BY <1>1 DEF Directory!Expire, Directory!RoomKey
  <2>2. \A s \in Directory!Stored : s \notin {r} => s \in Directory!Stored'
    BY <2>1 DEF Directory!Stored, Directory!Get, Directory!RoomKey
  <2>3. \A p \in Pod : steady'[p] = steady[p] \ {r} BY <2>1 DEF Directory!Forget
  <2>4. PodTypes' BY <2>1, <2>3 DEF TickInvariant, PodTypes, Directory!Forget
  <2>5. Linked' BY <2>1 DEF TickInvariant, Linked, Directory!Serving
  <2>6. SteadyStored' BY <2>2, <2>3 DEF TickInvariant, SteadyStored
  <2>7. HandlersRun' BY <2>1, <2>3 DEF TickInvariant, HandlersRun, Held
  <2>8. \A p \in Pod : Ticking(p)' BY <2>1, <2>3 DEF TickInvariant, Ticking, Scanned
  <2> QED BY <2>4, <2>5, <2>6, <2>7, <2>8 DEF TickInvariant
<1>2. ASSUME NEW h \in Maker, Directory!SaveRoom(h) \/ Directory!DeleteRoom(h) \/ Directory!Note(h)
      PROVE  /\ Held(job[h]) /\ job[h].step # "draw" /\ job[h].room \in Directory!Room
             /\ job[h].pod \in Pod
  BY <1>2 DEF Directory!SaveRoom, Directory!DeleteRoom, Directory!Note, Directory!Step,
              Directory!Busy, TickInvariant, HandlersRun, Held
<1>3. ASSUME NEW h \in Maker, Directory!SaveRoom(h) PROVE TickInvariant'
  <2> DEFINE j == [step |-> "track", pod |-> job[h].pod, room |-> job[h].room]
  <2>1. /\ redis' = [k \in DOMAIN redis \cup {job[h].room} |->
                       IF k = job[h].room THEN [room |-> job[h].room, game |-> job[h].game]
                       ELSE redis[k]]
        /\ Directory!Takes(h, j) /\ UNCHANGED <<pod, active, steady, link>>
    BY <1>3 DEF Directory!SaveRoom, Directory!RoomKey, Directory!NoteAs
  <2>2. job[h].game # Directory!NoGame
    BY <1>3 DEF Directory!SaveRoom, Directory!Step, DirectoryInvariant, SaversLoadedOrDrew
  <2>3. \A s \in Directory!Stored : s \in Directory!Stored'
    BY <2>1, <2>2 DEF Directory!Stored, Directory!Get, Directory!RoomKey
  <2>4. j.step = "track" /\ j.pod = job[h].pod /\ j.room = job[h].room OBVIOUS
  <2> HIDE DEF j
  <2>5. DOMAIN job' = Maker /\ job'[h] = j /\ \A g \in Maker \ {h} : job'[g] = job[g]
    BY <2>1 DEF Directory!Takes, TickInvariant, PodTypes
  <2>6. Held(job[h])' BY <1>2, <1>3, <2>1, <2>4, <2>5 DEF Held
  <2>7. Directory!Forget({})
    <3>1. steady = [p \in Pod |-> steady[p]] BY DEF TickInvariant, PodTypes
    <3>2. \A p \in Pod : steady[p] \ {} = steady[p] OBVIOUS
    <3> QED BY <2>1, <3>1, <3>2 DEF Directory!Forget
  <2> QED BY <2>1, <2>3, <2>5, <2>6, <2>7, RoomsChange
<1>4. ASSUME NEW h \in Maker, Directory!DeleteRoom(h) PROVE TickInvariant'
  <2> DEFINE j == [step |-> "untrack", pod |-> job[h].pod, room |-> job[h].room]
  <2>1. /\ redis' = [k \in DOMAIN redis \ {job[h].room} |-> redis[k]]
        /\ Directory!Forget({job[h].room})
        /\ Directory!Takes(h, j) /\ UNCHANGED <<pod, active, link>>
    BY <1>4 DEF Directory!DeleteRoom, Directory!RoomKey, Directory!NoteAs
  <2>2. \A s \in Directory!Stored : s \notin {job[h].room} => s \in Directory!Stored'
    BY <2>1 DEF Directory!Stored, Directory!Get, Directory!RoomKey
  <2>3. \A p \in Pod : steady'[p] = steady[p] \ {job[h].room} BY <2>1 DEF Directory!Forget
  <2>4. j.step = "untrack" /\ j.pod = job[h].pod /\ j.room = job[h].room OBVIOUS
  <2> HIDE DEF j
  <2>5. DOMAIN job' = Maker /\ job'[h] = j /\ \A g \in Maker \ {h} : job'[g] = job[g]
    BY <2>1 DEF Directory!Takes, TickInvariant, PodTypes
  <2>6. Held(job[h])' BY <1>2, <1>4, <2>1, <2>3, <2>4, <2>5 DEF Held
  <2> QED BY <1>2, <1>4, <2>1, <2>2, <2>5, <2>6, RoomsChange
<1>5. ASSUME NEW h \in Maker, Directory!Note(h) PROVE TickInvariant'
  <2> DEFINE p == job[h].pod
             r == job[h].room
             l == IF job[h].step = "track" THEN active[p] \cup {r} ELSE active[p] \ {r}
  <2>1. /\ job[h].step \in {"track", "untrack"} /\ active' = [active EXCEPT ![p] = l]
        /\ Directory!Takes(h, Directory!Free) /\ UNCHANGED <<redis, pod, steady, link>>
    BY <1>5 DEF Directory!Note, Directory!Ends
  <2>2. p \in Pod /\ r \in Directory!Room /\ pod[p].phase \in {"serving", "stopping"}
        /\ (job[h].step = "untrack" => r \notin steady[p])
    BY <1>2, <1>5 DEF Held
  <2>3. l \in SUBSET Directory!Room /\ (steady[p] \subseteq active[p] => steady[p] \subseteq l)
    BY <2>1, <2>2 DEF TickInvariant, PodTypes
  <2> HIDE DEF p, l, r
  <2>4. /\ active'[p] = l /\ \A o \in Pod \ {p} : active'[o] = active[o]
        /\ DOMAIN job' = Maker /\ job'[h] = Directory!Free /\ \A g \in Maker \ {h} : job'[g] = job[g]
    BY <2>1, <2>2 DEF Directory!Takes, TickInvariant, PodTypes
  <2>5. PodTypes' BY <2>1, <2>3, <2>4 DEF TickInvariant, PodTypes
  <2>6. Linked' BY <2>1 DEF TickInvariant, Linked, Directory!Serving
  <2>7. SteadyStored' BY <2>1 DEF TickInvariant, SteadyStored, Directory!Stored, Directory!Get
  <2>8. HandlersRun'
    <3> SUFFICES ASSUME NEW g \in Maker, g # h, job'[g] # Directory!Free PROVE Held(job[g])'
      BY <2>4 DEF HandlersRun
    <3>1. Held(job[g]) /\ job'[g] = job[g] BY <2>4 DEF TickInvariant, HandlersRun
    <3> QED BY <2>1, <3>1 DEF Held
  <2>9. \A o \in Pod : Ticking(o)'
    BY <2>1, <2>2, <2>3, <2>4 DEF TickInvariant, Ticking, Scanned
  <2> QED BY <2>5, <2>6, <2>7, <2>8, <2>9 DEF TickInvariant
<1> QED BY <1>1, <1>3, <1>4, <1>5

LEMMA TickKept ==
  TickInvariant /\ DirectoryInvariant /\ [Directory!Next]_Directory!directoryVars => TickInvariant'
<1> SUFFICES ASSUME TickInvariant, DirectoryInvariant, [Directory!Next]_Directory!directoryVars
             PROVE  TickInvariant'
  OBVIOUS
<1>1. CASE UNCHANGED Directory!directoryVars
  <2>1. UNCHANGED <<redis, pod, active, steady, link, job>> BY <1>1 DEF Directory!directoryVars
  <2>2. PodTypes' /\ Linked' BY <2>1 DEF TickInvariant, PodTypes, Linked, Directory!Serving
  <2>3. SteadyStored' BY <2>1 DEF TickInvariant, SteadyStored, Directory!Stored, Directory!Get
  <2>4. HandlersRun' BY <2>1 DEF TickInvariant, HandlersRun, Held
  <2>5. \A p \in Pod : Ticking(p)' BY <2>1 DEF TickInvariant, Ticking, Scanned
  <2> QED BY <2>2, <2>3, <2>4, <2>5 DEF TickInvariant
<1>2. CASE Directory!Next
  <2>1. ASSUME NEW p \in Pod, \/ Directory!StartPod(p) \/ Directory!ScanPage(p)
                              \/ Directory!PrimeMetrics(p) \/ Directory!PrimeFails(p)
        PROVE TickInvariant'
    BY <2>1, ScanKept
  <2>2. ASSUME NEW p \in Pod, Directory!StopPod(p) \/ Directory!EndPod(p) \/ Directory!Connect(p)
        PROVE TickInvariant'
    BY <2>2, PodsKept
  <2>3. ASSUME NEW h \in Maker,
               \/ \E rt \in Directory!Runtime : Directory!BeginCreate(h, rt)
               \/ \E r \in Directory!Room : Directory!Load(h, r) \/ Directory!FindGone(h, r)
               \/ Directory!Draw(h) \/ Directory!Abort(h)
        PROVE TickInvariant'
    BY <2>3, CallsKept
  <2>4. ASSUME \/ \E r \in Directory!Room : Directory!Expire(r)
               \/ \E h \in Maker : Directory!SaveRoom(h) \/ Directory!DeleteRoom(h) \/ Directory!Note(h)
        PROVE TickInvariant'
    BY <2>4, RoomsKept
  <2> QED BY <1>2, <2>1, <2>2, <2>3, <2>4 DEF Directory!Next
<1> QED BY <1>1, <1>2

\* A match-core whose scans succeeded ticks every room stored without a gap since
\* it started: for any rooms, pods and handlers, whatever was created, deleted,
\* expired, stopped or crashed while the pages of the scan were read
\* (PrimeMetrics 53, ListRooms 72).
THEOREM PrimedRoomsAreTicked == Spec => []PrimedRoomsTicked
<1>1. Directory!Init => DirectoryInvariant /\ TickInvariant BY DirectoryInitially, TickInitially
<1>2. DirectoryInvariant /\ [Directory!Next]_Directory!directoryVars => DirectoryInvariant' BY DirectoryKept
<1>3. TickInvariant /\ DirectoryInvariant /\ [Directory!Next]_Directory!directoryVars => TickInvariant'
  BY TickKept
<1>4. TickInvariant => PrimedRoomsTicked
  BY DEF TickInvariant, Ticking, PrimedRoomsTicked, Directory!PrimedRoomsTicked, Directory!Serving
<1> QED BY <1>1, <1>2, <1>3, <1>4, DirectoryBehaves, PTL DEF Directory!Spec

-----------------------------------------------------------------------------
(* A room's record is loaded with its times in order.                       *)

StampedRecord ==
  [status : {"waiting", "active", "finished"},
   created : Nat, started : Nat, first : Nat, last : Nat, finished : Nat, updated : Nat,
   timed : BOOLEAN, running : SUBSET Record!Running]

\* The times that are set are in order, and those the status calls for are set.
InOrder(r) ==
  /\ Record!Nil < r.created /\ r.created <= r.updated
  /\ r.status = "waiting" => r.started = Record!Nil /\ r.first = Record!Nil
  /\ r.status = "active" => r.created <= r.started
  /\ r.status = "finished" => r.created <= r.started \/ Record!ResignedWaiting(r)
  /\ r.first # Record!Nil => r.started <= r.first /\ r.first <= r.last
  /\ r.first = Record!Nil => r.last = Record!Nil
  /\ r.status = "finished" => /\ r.finished # Record!Nil /\ r.created <= r.finished
                              /\ r.started <= r.finished /\ r.last <= r.finished
  /\ r.status # "finished" => r.finished = Record!Nil
  /\ r.running # {} => r.timed

\* Nothing in the record is later than t.
NothingAfter(r, t) ==
  /\ r.created <= t /\ r.started <= t /\ r.first <= t /\ r.last <= t
  /\ r.finished <= t /\ r.updated <= t

\* A record as SaveRoom left it, some time up to t.
SavedBy(r, t) ==
  r \in StampedRecord /\ InOrder(r) /\ NothingAfter(r, t) /\ r.finished <= r.updated

\* What a handler holds: the record as it was at its timestamp, and the record it
\* made of it, which may end now.
CopyHeld(w) ==
  \/ copies[w] = Record!Resting
  \/ /\ copies[w].step = "loaded" /\ copies[w].ts \in Nat
     /\ Record!Nil < copies[w].ts /\ copies[w].ts <= time
     /\ SavedBy(copies[w].room, copies[w].ts)
  \/ /\ copies[w].step = "save" /\ copies[w].room \in StampedRecord
     /\ InOrder(copies[w].room) /\ NothingAfter(copies[w].room, time)

RecordInvariant ==
  /\ time \in Nat /\ Record!Nil < time
  /\ DOMAIN copies = Writer /\ \A w \in Writer : CopyHeld(w)
  /\ record # Record!NoRecord => SavedBy(record, time)

\* A record that knows when its game began has its times in order.
LEMMA SavedInOrder ==
  ASSUME NEW r, NEW t, SavedBy(r, t), r.status # "waiting" => r.created <= r.started
  PROVE  Record!TimesInOrder(r)
  BY DEF SavedBy, InOrder, StampedRecord, Record!TimesInOrder, Record!Finished, Record!Nil

\* What loading fills in is the start of a game that was resigned before it began.
LEMMA LoadFillsIn ==
  ASSUME NEW r, NEW t \in Nat, SavedBy(r, t)
  PROVE  LET f == Record!NormalizeStateDefaults(r) IN
         /\ f = IF Record!ResignedWaiting(r) THEN [r EXCEPT !.started = r.created] ELSE r
         /\ SavedBy(f, t) /\ Record!TimesInOrder(f)
<1> DEFINE f == Record!NormalizeStateDefaults(r)
<1>1. CASE Record!ResignedWaiting(r)
  <2>1. Record!StartedDefault(r) = r.created
    BY <1>1 DEF Record!ResignedWaiting, Record!Finished, Record!StartedDefault, Record!FirstOf, Record!Nil
  <2>2. Record!FinishedDefault(r) = r.finished
    BY <1>1 DEF SavedBy, InOrder, Record!ResignedWaiting, Record!FinishedDefault, Record!FirstOf, Record!Finished
  <2>3. (r.timed \/ r.running # {}) = r.timed
    BY Zenon DEF SavedBy, InOrder, StampedRecord
  <2>4. f = [r EXCEPT !.started = r.created, !.finished = r.finished, !.timed = r.timed]
    BY <2>1, <2>2, <2>3 DEF Record!NormalizeStateDefaults
  <2>5. r \in StampedRecord BY DEF SavedBy
  <2>6. f = [r EXCEPT !.started = r.created] BY <2>4, <2>5 DEF StampedRecord
  <2> HIDE DEF f
  <2>7. /\ f \in StampedRecord /\ f.status = r.status /\ f.created = r.created
        /\ f.started = r.created /\ f.first = r.first /\ f.last = r.last
        /\ f.finished = r.finished /\ f.updated = r.updated
        /\ f.timed = r.timed /\ f.running = r.running
    BY <2>5, <2>6 DEF StampedRecord
  <2>8. r.created <= r.finished
    BY <1>1, <2>5 DEF SavedBy, InOrder, StampedRecord, Record!ResignedWaiting, Record!Finished
  <2>9. SavedBy(f, t) /\ f.created <= f.started
    BY <1>1, <2>5, <2>7, <2>8 DEF SavedBy, InOrder, NothingAfter, StampedRecord, Record!ResignedWaiting,
                                   Record!Finished, Record!Nil
  <2>10. Record!TimesInOrder(f) BY <2>9, SavedInOrder
  <2> QED BY <1>1, <2>6, <2>9, <2>10 DEF f
<1>2. CASE ~Record!ResignedWaiting(r)
  <2>1. r.started # Record!Nil \/ (r.first = Record!Nil /\ r.status = "waiting")
    BY <1>2 DEF SavedBy, InOrder, StampedRecord, Record!ResignedWaiting, Record!Finished, Record!Nil
  <2>2. Record!StartedDefault(r) = r.started
    BY <2>1 DEF Record!StartedDefault, Record!FirstOf, Record!Nil
  <2>3. Record!FinishedDefault(r) = r.finished
    BY DEF SavedBy, InOrder, Record!FinishedDefault, Record!FirstOf, Record!Finished
  <2>4. (r.timed \/ r.running # {}) = r.timed
    BY Zenon DEF SavedBy, InOrder, StampedRecord
  <2>5. [r EXCEPT !.started = r.started, !.finished = r.finished, !.timed = r.timed] = r
    BY DEF SavedBy, StampedRecord
  <2>6. f = r
    BY <2>2, <2>3, <2>4, <2>5 DEF Record!NormalizeStateDefaults
  <2>7. r.status # "waiting" => r.created <= r.started
    BY <1>2 DEF SavedBy, InOrder, StampedRecord
  <2>8. Record!TimesInOrder(r) BY <2>7, SavedInOrder
  <2> HIDE DEF f
  <2> QED BY <1>2, <2>6, <2>8 DEF f
<1> QED BY <1>1, <1>2

\* A new record is in order at its timestamp.
LEMMA NewRecordInOrder ==
  ASSUME NEW t \in Nat, Record!Nil < t, NEW timed \in BOOLEAN, NEW machine \in BOOLEAN
  PROVE  LET r == Record!NewRecord(t, timed, machine)
         IN  r \in StampedRecord /\ InOrder(r) /\ NothingAfter(r, t)
<1>1. CASE machine
  <2> DEFINE r == Record!NewRecord(t, timed, machine)
  <2>1. r = [status |-> "active", created |-> t, started |-> t, first |-> 0, last |-> 0,
             finished |-> 0, updated |-> t, timed |-> timed,
             running |-> IF timed THEN Record!Running ELSE {}]
    BY <1>1 DEF Record!NewRecord, Record!StartGame, Record!FirstOf, Record!Nil
  <2> QED BY <2>1 DEF StampedRecord, InOrder, NothingAfter, Record!Nil, Record!Running
<1>2. CASE ~machine
  BY <1>2 DEF Record!NewRecord, Record!Nil, Record!Running, StampedRecord, InOrder, NothingAfter
<1> QED BY <1>1, <1>2

\* Whatever a handler does to a record it loaded at t, until now, leaves it in order.
LEMMA ChangedInOrder ==
  ASSUME time \in Nat, NEW t \in Nat, Record!Nil < t, t <= time,
         NEW r, SavedBy(r, t), NEW s \in Record!Changed(r, t)
  PROVE  s \in StampedRecord /\ InOrder(s) /\ NothingAfter(s, time)
<1> USE DEF Record!ResignedWaiting, Record!Finished
<1>1. PICK c \in Record!AdvanceClock(r) :
        \/ s = c
        \/ c.status = "waiting" /\ s = Record!StartGame(c, t)
        \/ c.status = "waiting" /\ s = Record!FinishGame(c, time)
        \/ c.status = "active" /\ s \in {Record!AppliedMove(c, t),
             Record!FinishGame(Record!AppliedMove(c, t), time),
             Record!FinishGame(c, time)}
  BY DEF Record!Changed
<1>2. SavedBy(c, t)
  BY <1>1 DEF Record!AdvanceClock, SavedBy, StampedRecord, InOrder, NothingAfter
<1>3. c \in StampedRecord /\ InOrder(c) /\ NothingAfter(c, t) BY <1>2 DEF SavedBy
<1>4. CASE s = c BY <1>3, <1>4 DEF StampedRecord, NothingAfter
<1>5. CASE c.status = "waiting" /\ s = Record!StartGame(c, t)
  <2>1. s = [c EXCEPT !.status = "active", !.started = t, !.finished = Record!Nil]
    BY <1>3, <1>5 DEF Record!StartGame, Record!FirstOf, StampedRecord, InOrder
  <2>2. /\ s \in StampedRecord /\ s.status = "active" /\ s.created = c.created
        /\ s.started = t /\ s.first = c.first /\ s.last = c.last
        /\ s.finished = Record!Nil /\ s.updated = c.updated
        /\ s.timed = c.timed /\ s.running = c.running
    BY <1>3, <2>1 DEF StampedRecord, Record!Nil
  <2>3. c.created <= t /\ c.updated <= t /\ c.first = Record!Nil /\ c.last = Record!Nil
    BY <1>3, <1>5 DEF InOrder, NothingAfter
  <2> QED BY <1>3, <2>2, <2>3 DEF StampedRecord, InOrder, NothingAfter, Record!Nil
<1>6. ASSUME c.status = "active"
      PROVE  LET m == Record!AppliedMove(c, t)
             IN  /\ m \in StampedRecord /\ InOrder(m) /\ NothingAfter(m, t)
                 /\ m.status = "active"
  <2> DEFINE m == Record!AppliedMove(c, t)
             f == IF c.first # Record!Nil THEN c.first ELSE t
  <2>1. m = [c EXCEPT !.first = f, !.last = t]
    BY <1>3 DEF Record!AppliedMove, Record!FirstOf, StampedRecord
  <2>2. f \in Nat /\ f # Record!Nil /\ f <= t /\ c.started <= f
    BY <1>3, <1>6 DEF StampedRecord, InOrder, NothingAfter, Record!Nil
  <2> HIDE DEF m, f
  <2>3. /\ m \in StampedRecord /\ m.status = "active" /\ m.created = c.created
        /\ m.started = c.started /\ m.first = f /\ m.last = t
        /\ m.finished = c.finished /\ m.updated = c.updated
        /\ m.timed = c.timed /\ m.running = c.running
    BY <1>3, <1>6, <2>1, <2>2 DEF StampedRecord
  <2>4. InOrder(m) BY <1>3, <1>6, <2>2, <2>3 DEF StampedRecord, InOrder, Record!Nil
  <2>5. NothingAfter(m, t) BY <1>3, <2>2, <2>3 DEF StampedRecord, NothingAfter
  <2> QED BY <2>3, <2>4, <2>5 DEF m
<1>7. ASSUME NEW m \in StampedRecord, InOrder(m), NothingAfter(m, t), m.status # "finished",
             NEW u \in Nat, t <= u, u <= time
      PROVE  LET f == Record!FinishGame(m, u)
             IN  f \in StampedRecord /\ InOrder(f) /\ NothingAfter(f, time)
  <2> DEFINE f == Record!FinishGame(m, u)
  <2>1. f = [m EXCEPT !.status = "finished", !.finished = u]
    BY <1>7 DEF Record!FinishGame, Record!FirstOf, StampedRecord, InOrder
  <2> HIDE DEF f
  <2>2. /\ f \in StampedRecord /\ f.status = "finished" /\ f.created = m.created
        /\ f.started = m.started /\ f.first = m.first /\ f.last = m.last
        /\ f.finished = u /\ f.updated = m.updated
        /\ f.timed = m.timed /\ f.running = m.running
    BY <1>7, <2>1 DEF StampedRecord
  <2>3. m.created <= u /\ m.started <= u /\ m.last <= u BY <1>7 DEF StampedRecord, NothingAfter
  <2>4. InOrder(f) BY <1>7, <2>2, <2>3 DEF StampedRecord, InOrder, Record!Nil
  <2>5. NothingAfter(f, time) BY <1>7, <2>2 DEF StampedRecord, NothingAfter
  <2> QED BY <2>2, <2>4, <2>5 DEF f
<1>8. CASE c.status = "active" /\ s = Record!AppliedMove(c, t)
  BY <1>6, <1>8 DEF StampedRecord, NothingAfter
<1>9. CASE c.status = "active" /\ s = Record!FinishGame(Record!AppliedMove(c, t), time)
  BY <1>6, <1>7, <1>9
<1>10. CASE c.status = "active" /\ s = Record!FinishGame(c, time)
  BY <1>3, <1>7, <1>10
<1>11. CASE c.status = "waiting" /\ s = Record!FinishGame(c, time)
  BY <1>3, <1>7, <1>11
<1> QED BY <1>1, <1>4, <1>5, <1>8, <1>9, <1>10, <1>11

\* A handler takes up something else; the record and the time stay.
LEMMA WriterTakes ==
  ASSUME RecordInvariant, NEW w \in Writer, NEW c,
         copies' = [copies EXCEPT ![w] = c],
         CopyHeld(w)',
         UNCHANGED time
  PROVE  DOMAIN copies' = Writer /\ \A v \in Writer : CopyHeld(v)'
<1>1. DOMAIN copies' = Writer BY DEF RecordInvariant
<1>2. ASSUME NEW v \in Writer, v # w PROVE CopyHeld(v)'
  BY <1>2 DEF RecordInvariant, CopyHeld
<1> QED BY <1>1, <1>2

LEMMA RecordKept ==
  ASSUME RecordInvariant, [Record!Next]_Record!recordVars
  PROVE  RecordInvariant'
<1>1. CASE UNCHANGED Record!recordVars
  BY <1>1 DEF Record!recordVars, RecordInvariant, CopyHeld
<1>2. ASSUME NEW w \in Writer, Record!Create(w) PROVE RecordInvariant'
  <2>1. PICK timed \in BOOLEAN, machine \in BOOLEAN :
          Record!Takes(w, "save", Record!NewRecord(time, timed, machine), time)
    BY <1>2 DEF Record!Create
  <2> DEFINE r == Record!NewRecord(time, timed, machine)
             c == [step |-> "save", room |-> r, ts |-> time]
  <2>2. copies' = [copies EXCEPT ![w] = c] BY <2>1 DEF Record!Takes
  <2>3. c.step = "save" /\ c.room = r OBVIOUS
  <2>4. r \in StampedRecord /\ InOrder(r) /\ NothingAfter(r, time)
    BY NewRecordInOrder DEF RecordInvariant
  <2>5. UNCHANGED <<record, time>> BY <1>2 DEF Record!Create
  <2> HIDE DEF r, c
  <2>6. copies'[w] = c BY <2>2 DEF RecordInvariant
  <2>7. CopyHeld(w)' BY <2>3, <2>4, <2>5, <2>6 DEF CopyHeld
  <2> QED BY <2>2, <2>5, <2>7, WriterTakes DEF RecordInvariant
<1>3. ASSUME NEW w \in Writer, Record!Load(w) PROVE RecordInvariant'
  <2> DEFINE f == Record!NormalizeStateDefaults(record)
             c == [step |-> "loaded", room |-> f, ts |-> time]
  <2>1. SavedBy(f, time) BY <1>3, LoadFillsIn DEF Record!Load, RecordInvariant
  <2>2. copies' = [copies EXCEPT ![w] = c] BY <1>3 DEF Record!Load, Record!Takes
  <2>3. c.step = "loaded" /\ c.room = f /\ c.ts = time OBVIOUS
  <2>4. UNCHANGED <<record, time>> BY <1>3 DEF Record!Load
  <2> HIDE DEF c, f
  <2>5. copies'[w] = c BY <2>2 DEF RecordInvariant
  <2>6. CopyHeld(w)' BY <2>1, <2>3, <2>4, <2>5 DEF CopyHeld, RecordInvariant
  <2> QED BY <2>2, <2>4, <2>6, WriterTakes DEF RecordInvariant
<1>4. ASSUME NEW w \in Writer, Record!Change(w) PROVE RecordInvariant'
  <2>1. PICK s \in Record!Changed(copies[w].room, copies[w].ts) :
          Record!Takes(w, "save", s, copies[w].ts)
    BY <1>4 DEF Record!Change
  <2> DEFINE c == [step |-> "save", room |-> s, ts |-> copies[w].ts]
  <2>2. copies' = [copies EXCEPT ![w] = c] BY <2>1 DEF Record!Takes
  <2>3. c.step = "save" /\ c.room = s OBVIOUS
  <2>4. /\ copies[w].ts \in Nat /\ Record!Nil < copies[w].ts /\ copies[w].ts <= time
        /\ SavedBy(copies[w].room, copies[w].ts)
    BY <1>4 DEF Record!Change, RecordInvariant, CopyHeld, Record!Resting
  <2>5. s \in StampedRecord /\ InOrder(s) /\ NothingAfter(s, time)
    BY <2>4, ChangedInOrder DEF RecordInvariant
  <2>6. UNCHANGED <<record, time>> BY <1>4 DEF Record!Change
  <2> HIDE DEF c
  <2>7. copies'[w] = c BY <2>2 DEF RecordInvariant
  <2>8. CopyHeld(w)' BY <2>3, <2>5, <2>6, <2>7 DEF CopyHeld
  <2> QED BY <2>2, <2>6, <2>8, WriterTakes DEF RecordInvariant
<1>5. ASSUME NEW w \in Writer, Record!SaveRoom(w) PROVE RecordInvariant'
  <2> DEFINE s == copies[w].room
  <2>1. /\ record' = [s EXCEPT !.updated = time]
        /\ copies' = [copies EXCEPT ![w] = Record!Resting] /\ UNCHANGED time
    BY <1>5 DEF Record!SaveRoom
  <2>2. s \in StampedRecord /\ InOrder(s) /\ NothingAfter(s, time)
    BY <1>5 DEF Record!SaveRoom, RecordInvariant, CopyHeld, Record!Resting
  <2> HIDE DEF s
  <2>3. SavedBy(record, time)'
    BY <2>1, <2>2 DEF SavedBy, StampedRecord, InOrder, NothingAfter, RecordInvariant,
                      Record!ResignedWaiting, Record!Finished
  <2>4. CopyHeld(w)' BY <2>1 DEF CopyHeld, RecordInvariant
  <2> QED BY <2>1, <2>3, <2>4, WriterTakes DEF RecordInvariant
<1>6. ASSUME NEW w \in Writer, Record!GiveUp(w) PROVE RecordInvariant'
  <2>1. copies' = [copies EXCEPT ![w] = Record!Resting] /\ UNCHANGED <<record, time>>
    BY <1>6 DEF Record!GiveUp
  <2>2. CopyHeld(w)' BY <2>1 DEF CopyHeld, RecordInvariant
  <2> QED BY <2>1, <2>2, WriterTakes DEF RecordInvariant
<1>7. CASE Record!Vanish
  BY <1>7 DEF Record!Vanish, RecordInvariant, CopyHeld
<1>8. CASE Record!Pass
  <2>1. time' = time + 1 /\ UNCHANGED <<record, copies>> BY <1>8 DEF Record!Pass
  <2>2. ASSUME NEW r \in StampedRecord, NothingAfter(r, time) PROVE NothingAfter(r, time')
    BY <2>1, <2>2 DEF NothingAfter, StampedRecord, RecordInvariant
  <2>3. \A w \in Writer : CopyHeld(w)' BY <2>1, <2>2 DEF CopyHeld, RecordInvariant
  <2>4. record # Record!NoRecord => SavedBy(record', time')
    BY <2>1, <2>2 DEF RecordInvariant, SavedBy
  <2>5. time' \in Nat /\ Record!Nil < time' BY <2>1 DEF RecordInvariant, Record!Nil
  <2> QED BY <2>1, <2>3, <2>4, <2>5 DEF RecordInvariant
<1> QED BY <1>1, <1>2, <1>3, <1>4, <1>5, <1>6, <1>7, <1>8 DEF Record!Next

\* Every record is loaded with its times in order, and those its status calls for,
\* however many handlers overlap and however long the wall clock runs, resignations
\* in a waiting room included: loading fills in the start of such a game, and the other
\* defaults are for records of other versions only (service.go 1167-1201).
THEOREM TimesAreInOrder == Spec => []LoadedTimesInOrder
<1>1. Record!Init => RecordInvariant
  BY DEF Record!Init, RecordInvariant, CopyHeld, Record!Nil
<1>2. RecordInvariant /\ [Record!Next]_Record!recordVars => RecordInvariant' BY RecordKept
<1>3. RecordInvariant => LoadedTimesInOrder
  BY LoadFillsIn DEF RecordInvariant, LoadedTimesInOrder, Record!LoadedTimesInOrder
<1> QED BY <1>1, <1>2, <1>3, RecordBehaves, PTL DEF Record!Spec

-----------------------------------------------------------------------------
(* The answers to a command, and what is counted of a creation.            *)

SentRequest ==
  [command : {"create_room"}, game : Requests!GameText, nickname : Requests!Length,
   mode : Requests!ModeText, clock : Requests!ClockText]
  \cup [command : Requests!Command \ {"create_room"}, game : Requests!GameText]

\* The kind of room that is asked for.
KindAsked == Requests!CreateOptions(request.mode, request.clock)

\* What match-core may have answered, and the room it made for it.
AnswerGiven ==
  \/ rooms = {} /\ answer.shape \in {"error", "refused"}
  \/ /\ answer.shape = "ok" /\ ~Requests!Lacks(answer)
     /\ IF request.command = "create_room"
        THEN rooms = {KindAsked} /\ "refused" \notin {KindAsked.mode, KindAsked.clock}
        ELSE rooms = {}

Unanswered == answer = Requests!NoAnswer /\ rooms = {}

\* What the page is told, given the answer and what is counted.
PageIsTold ==
  \/ told = Requests!Fail("BAD_REQUEST") /\ Unanswered /\ labels = {}
  \/ told = Requests!Fail("INTERNAL_ERROR") /\ (Unanswered \/ AnswerGiven) /\ labels = {}
  \/ /\ AnswerGiven /\ told = Requests!Parsed
     /\ labels = IF told.ok /\ request.command = "create_room" THEN {Requests!Label} ELSE {}

RequestInvariant ==
  /\ stage \in {"page", "gateway", "core", "late", "answered", "done"}
  /\ stage # "page" => request \in SentRequest
  /\ stage \in {"page", "gateway", "core", "late"} => Unanswered
  /\ stage = "answered" => AnswerGiven
  /\ stage # "done" => labels = {}
  /\ stage = "late" => told = Requests!Fail("INTERNAL_ERROR")
  /\ stage = "done" => PageIsTold

\* Game types that are normalised are texts still.
LEMMA NormalizedIsText ==
  ASSUME NEW t \in Requests!GameText
  PROVE  Requests!NormalizeGameType(t) \in Requests!GameText
  BY DEF Requests!GameText, Requests!Text, Requests!NormalizeGameType, Requests!Plain,
         Requests!Trim, Requests!Lower, Requests!Runtime

\* A mode or a clock that CreateRoom does not refuse is labelled as the room is made,
\* unless the mode carries the clock.
LEMMA LabelsAgree ==
  ASSUME request.clock \in Requests!ClockText,
         "refused" \notin {KindAsked.mode, KindAsked.clock},
         Requests!Trim(request.mode) \notin Requests!Plains({"pvp_untimed", "bot_easy_untimed"})
  PROVE  Requests!Label = KindAsked
<1> DEFINE t == request.clock
           m == Requests!Trim(request.mode)
<1>1. /\ DOMAIN KindAsked = {"mode", "clock"} /\ KindAsked = [mode |-> KindAsked.mode, clock |-> KindAsked.clock]
      /\ KindAsked.clock = Requests!ClockControl(t)
  BY DEF KindAsked, Requests!CreateOptions
<1>2. Requests!Trim(t) \in {Requests!Plain(""), Requests!Plain("timed"), Requests!Plain("untimed")}
  BY <1>1 DEF Requests!ClockControl, Requests!Plains
<1>3. Requests!Lower(Requests!Trim(t)) = Requests!Trim(t)
  <2>1. /\ Requests!Plain("").look = "plain" /\ Requests!Plain("timed").look = "plain"
        /\ Requests!Plain("untimed").look = "plain"
    BY DEF Requests!Plain
  <2>2. Requests!Trim(t).look = "plain" BY <1>2, <2>1
  <2> QED BY <2>2 DEF Requests!Lower
<1>4. KindAsked.clock = IF Requests!Lower(Requests!Trim(t)) = Requests!Plain("untimed")
                        THEN "untimed" ELSE "timed"
  <2>1. /\ Requests!Plain("").word = "" /\ Requests!Plain("timed").word = "timed"
        /\ Requests!Plain("untimed").word = "untimed"
    BY DEF Requests!Plain
  <2>2. Requests!Plain("untimed") \notin {Requests!Plain(""), Requests!Plain("timed")} BY <2>1
  <2>3. Requests!Plains({"", "timed"}) = {Requests!Plain(""), Requests!Plain("timed")}
    BY DEF Requests!Plains
  <2> QED BY <1>1, <1>2, <1>3, <2>2, <2>3 DEF Requests!ClockControl
<1> QED BY <1>1, <1>4 DEF Requests!Label, KindAsked

LEMMA RequestInitially ==
  ASSUME Requests!Init
  PROVE  RequestInvariant
  BY DEF Requests!Init, RequestInvariant, Unanswered

\* CreateRoom and the other commands answer what the gateway needs.
LEMMA AnswersGiven ==
  ASSUME RequestInvariant, Requests!Process
  PROVE  /\ AnswerGiven' /\ UNCHANGED <<request, labels, told>>
         /\ stage \in {"core", "late"}
         /\ stage' = IF stage = "late" THEN "done" ELSE "answered"
<1>0. /\ stage \in {"core", "late"} /\ rooms = {} /\ request \in SentRequest
      /\ UNCHANGED <<request, labels, told>>
  BY DEF Requests!Process, RequestInvariant, Unanswered
<1>1. ASSUME NEW a, Requests!Replies(a), UNCHANGED rooms,
             a.shape \in {"error", "refused"}
      PROVE  AnswerGiven' /\ stage' = IF stage = "late" THEN "done" ELSE "answered"
  BY <1>0, <1>1 DEF Requests!Replies, AnswerGiven
<1>2. CASE Requests!RuntimeFor(request.game) = "none"
  <2>1. Requests!Replies(Requests!Refused("UNSUPPORTED_GAME_TYPE")) /\ UNCHANGED rooms
    BY <1>2 DEF Requests!Process
  <2> QED BY <1>0, <1>1, <2>1 DEF Requests!Refused
<1>3. CASE Requests!RuntimeFor(request.game) # "none" /\ request.command = "create_room"
  <2>1. Requests!CreateRoom BY <1>3 DEF Requests!Process
  <2>2. \/ /\ UNCHANGED rooms
           /\ \E a : Requests!Replies(a) /\ a.shape \in {"error", "refused"}
        \/ /\ Requests!Replies(Requests!Accepted(TRUE, TRUE)) /\ rooms' = {KindAsked}
           /\ KindAsked.mode # "refused" /\ KindAsked.clock # "refused"
    <3> DEFINE refusal(code) == Requests!Refused(code)
    <3>1. (\A code : refusal(code).shape = "refused") /\ Requests!CallError.shape = "error"
      BY DEF Requests!Refused, Requests!CallError
    <3>2. \/ /\ UNCHANGED rooms
             /\ \/ Requests!Replies(refusal("INVALID_NICKNAME"))
                \/ Requests!Replies(refusal("INVALID_MODE"))
                \/ Requests!Replies(refusal("INVALID_CLOCK_CONTROL"))
                \/ Requests!Replies(refusal("ROOM_GENERATION_FAILED"))
                \/ Requests!Replies(Requests!CallError)
          \/ /\ Requests!Replies(Requests!Accepted(TRUE, TRUE)) /\ rooms' = {KindAsked}
             /\ KindAsked.mode # "refused" /\ KindAsked.clock # "refused"
      BY <2>1 DEF Requests!CreateRoom, KindAsked
    <3> HIDE DEF refusal
    <3> QED BY <3>1, <3>2
  <2>3. CASE /\ Requests!Replies(Requests!Accepted(TRUE, TRUE)) /\ rooms' = {KindAsked}
             /\ KindAsked.mode # "refused" /\ KindAsked.clock # "refused"
    <3>1. /\ answer' = Requests!Accepted(TRUE, TRUE)
          /\ stage' = IF stage = "late" THEN "done" ELSE "answered"
      BY <2>3 DEF Requests!Replies
    <3>2. KindAsked' = KindAsked BY <1>0 DEF KindAsked
    <3>3. answer'.shape = "ok" /\ ~Requests!Lacks(answer)'
      BY <3>1 DEF Requests!Accepted, Requests!Lacks
    <3> QED BY <1>0, <1>3, <2>3, <3>1, <3>2, <3>3 DEF AnswerGiven
  <2> QED BY <1>0, <1>1, <2>2, <2>3
<1>4. CASE Requests!RuntimeFor(request.game) # "none" /\ request.command # "create_room"
  <2>1. UNCHANGED rooms
        /\ \E a \in Requests!Shapes(request.command) \cup {Requests!CallError, Requests!Refused("COMMAND")} :
             Requests!Replies(a)
    BY <1>4 DEF Requests!Process
  <2>2. PICK a \in Requests!Shapes(request.command) \cup {Requests!CallError, Requests!Refused("COMMAND")} :
          Requests!Replies(a)
    BY <2>1
  <2>3. CASE a \in {Requests!CallError, Requests!Refused("COMMAND")}
    <3>1. a.shape \in {"error", "refused"} BY <2>3 DEF Requests!CallError, Requests!Refused
    <3> QED BY <1>0, <1>1, <2>1, <2>2, <3>1
  <2>4. CASE a \in Requests!Shapes(request.command)
    <3>1. /\ a.shape = "ok"
          /\ (request.command \notin {"leave_room", "disconnect"} => a.snapshot)
          /\ (request.command = "join_room" => a.session)
      BY <2>4 DEF Requests!Shapes, Requests!Accepted
    <3>2. answer' = a /\ stage' = IF stage = "late" THEN "done" ELSE "answered"
      BY <2>2 DEF Requests!Replies
    <3>3. ~Requests!Lacks(answer)' BY <1>0, <1>4, <3>1, <3>2 DEF Requests!Lacks, Requests!Needs
    <3> QED BY <1>0, <1>4, <2>1, <3>1, <3>2, <3>3 DEF AnswerGiven
  <2> QED BY <2>2, <2>3, <2>4
<1> QED BY <1>0, <1>2, <1>3, <1>4

LEMMA RequestKept ==
  ASSUME RequestInvariant, [Requests!Next]_Requests!requestVars
  PROVE  RequestInvariant'
<1>1. CASE UNCHANGED Requests!requestVars
  BY <1>1 DEF Requests!requestVars, RequestInvariant, PageIsTold, AnswerGiven, Unanswered, KindAsked,
              Requests!Lacks, Requests!Parsed, Requests!Label
<1>2. CASE Requests!Send
  <2>1. Requests!Creation \cup Requests!Other \subseteq SentRequest
    <3>1. Requests!Plains(Requests!Runtime) \subseteq Requests!GameText
      <4>1. ASSUME NEW w \in Requests!Runtime PROVE Requests!Plain(w) \in Requests!GameText
        BY DEF Requests!GameText, Requests!Text, Requests!Plain
      <4> QED BY <4>1 DEF Requests!Plains
    <3>2. Requests!Command \ {"create_room", "disconnect"} \subseteq Requests!Command \ {"create_room"}
          /\ {"disconnect"} \subseteq Requests!Command \ {"create_room"}
      BY DEF Requests!Command
    <3> QED BY <3>1, <3>2 DEF Requests!Creation, Requests!Other, SentRequest
  <2> QED BY <1>2, <2>1 DEF Requests!Send, RequestInvariant, Unanswered
<1>3. CASE Requests!Decode
  <2>1. CASE stage' = "done"
    BY <1>3, <2>1 DEF Requests!Decode, RequestInvariant, PageIsTold, Unanswered
  <2>2. CASE stage' # "done"
    <3>1. request' \in SentRequest
      <4>1. request' = request
            \/ request' = [request EXCEPT !.game = Requests!NormalizeGameType(request.game)]
        BY <1>3, <2>2 DEF Requests!Decode
      <4>2. request \in SentRequest BY <1>3 DEF Requests!Decode, RequestInvariant
      <4>3. Requests!NormalizeGameType(request.game) \in Requests!GameText
        BY <4>2, NormalizedIsText DEF SentRequest
      <4> QED BY <4>1, <4>2, <4>3 DEF SentRequest
    <3>2. stage = "gateway" /\ stage' = "core" /\ UNCHANGED <<answer, rooms, labels>>
      BY <1>3, <2>2 DEF Requests!Decode
    <3> QED BY <3>1, <3>2 DEF RequestInvariant, Unanswered
  <2> QED BY <2>1, <2>2
<1>4. CASE Requests!Process
  BY <1>4, AnswersGiven DEF RequestInvariant, PageIsTold
<1>5. CASE Requests!GiveUp
  <2>1. /\ stage \in {"core", "answered"} /\ UNCHANGED <<request, answer, rooms, labels>>
        /\ stage' = IF stage = "core" THEN "late" ELSE "done"
        /\ told' = Requests!Fail("INTERNAL_ERROR")
    BY <1>5 DEF Requests!GiveUp
  <2>2. (Unanswered => Unanswered') /\ (AnswerGiven => AnswerGiven')
    BY <2>1 DEF Unanswered, AnswerGiven, KindAsked, Requests!Lacks
  <2> QED BY <2>1, <2>2 DEF RequestInvariant, PageIsTold
<1>6. CASE Requests!Lose
  BY <1>6 DEF Requests!Lose, RequestInvariant, PageIsTold, Unanswered
<1>7. CASE Requests!Receive
  <2>1. /\ stage = "answered" /\ stage' = "done" /\ told' = Requests!Parsed
        /\ labels' = IF Requests!Parsed.ok /\ request.command = "create_room"
                     THEN {Requests!Label} ELSE labels
        /\ UNCHANGED <<request, answer, rooms>>
    BY <1>7 DEF Requests!Receive
  <2>2. AnswerGiven /\ labels = {} /\ request \in SentRequest BY <2>1 DEF RequestInvariant
  <2>3. AnswerGiven' BY <2>1, <2>2 DEF AnswerGiven, KindAsked, Requests!Lacks
  <2>4. Requests!Parsed' = Requests!Parsed BY <2>1 DEF Requests!Parsed, Requests!Lacks
  <2>5. Requests!Label' = Requests!Label BY <2>1 DEF Requests!Label
  <2> QED BY <2>1, <2>2, <2>3, <2>4, <2>5 DEF RequestInvariant, PageIsTold
<1> QED BY <1>1, <1>2, <1>3, <1>4, <1>5, <1>6, <1>7 DEF Requests!Next

\* What the page is told of an answer is what match-core answered.
LEMMA ToldAsAnswered ==
  ASSUME AnswerGiven
  PROVE  \/ Requests!Parsed = Requests!Fail("INTERNAL_ERROR") /\ rooms = {}
         \/ answer.shape = "refused" /\ Requests!Parsed = Requests!Fail(answer.code) /\ rooms = {}
         \/ /\ answer.shape = "ok" /\ Requests!Parsed = Requests!Ok
            /\ (request.command = "create_room" =>
                  rooms = {KindAsked} /\ "refused" \notin {KindAsked.mode, KindAsked.clock})
  BY DEF AnswerGiven, Requests!Parsed, Requests!CallError, Requests!Refused

LEMMA UnderstoodAndTruthful ==
  ASSUME RequestInvariant
  PROVE  Requests!AnswersUnderstood /\ Requests!CreationsTruthful
<1> SUFFICES ASSUME stage = "done" PROVE Requests!AnswersUnderstood /\ Requests!CreationsTruthful
  BY DEF Requests!AnswersUnderstood, Requests!CreationsTruthful
<1>1. PageIsTold /\ request \in SentRequest BY DEF RequestInvariant
<1>2. /\ ~Requests!Fail("BAD_REQUEST").ok /\ Requests!Fail("BAD_REQUEST").code = "BAD_REQUEST"
      /\ ~Requests!Fail("INTERNAL_ERROR").ok /\ Requests!Fail("INTERNAL_ERROR").code = "INTERNAL_ERROR"
      /\ Requests!Ok.ok
  BY DEF Requests!Fail, Requests!Ok
<1>3. CASE told = Requests!Fail("BAD_REQUEST") /\ Unanswered /\ labels = {}
  BY <1>2, <1>3 DEF Requests!AnswersUnderstood, Requests!CreationsTruthful, Unanswered
<1>4. CASE told = Requests!Fail("INTERNAL_ERROR") /\ labels = {}
  BY <1>2, <1>4 DEF Requests!AnswersUnderstood, Requests!CreationsTruthful
<1>5. CASE /\ AnswerGiven /\ told = Requests!Parsed
           /\ labels = IF told.ok /\ request.command = "create_room" THEN {Requests!Label} ELSE {}
  <2>1. CASE Requests!Parsed = Requests!Fail("INTERNAL_ERROR") /\ rooms = {}
    BY <1>2, <1>5, <2>1 DEF Requests!AnswersUnderstood, Requests!CreationsTruthful
  <2>2. CASE answer.shape = "refused" /\ Requests!Parsed = Requests!Fail(answer.code) /\ rooms = {}
    <3>1. ~told.ok BY <1>5, <2>2 DEF Requests!Fail
    <3> QED BY <1>5, <2>2, <3>1 DEF Requests!AnswersUnderstood, Requests!CreationsTruthful
  <2>3. CASE /\ answer.shape = "ok" /\ Requests!Parsed = Requests!Ok
             /\ (request.command = "create_room" =>
                   rooms = {KindAsked} /\ "refused" \notin {KindAsked.mode, KindAsked.clock})
    <3>1. told.ok BY <1>2, <1>5, <2>3
    <3>2. request.command = "create_room" => request.clock \in Requests!ClockText
      BY <1>1 DEF SentRequest
    <3> QED BY <1>5, <2>3, <3>1, <3>2, LabelsAgree
            DEF Requests!AnswersUnderstood, Requests!CreationsTruthful
  <2> QED BY <1>5, <2>1, <2>2, <2>3, ToldAsAnswered
<1> QED BY <1>1, <1>3, <1>4, <1>5 DEF PageIsTold

\* The gateway can read whatever match-core answers a command, and the page is told
\* of success and of the code of a refusal as match-core gave them
\* (matchcore_client.go 270-359 against the answers of service.go 966-992).
THEOREM AnswersAreUnderstood == Spec => []AnswersUnderstood
<1>1. Requests!Init => RequestInvariant BY RequestInitially
<1>2. RequestInvariant /\ [Requests!Next]_Requests!requestVars => RequestInvariant' BY RequestKept
<1>3. RequestInvariant => AnswersUnderstood BY UnderstoodAndTruthful DEF AnswersUnderstood
<1> QED BY <1>1, <1>2, <1>3, RequestsBehave, PTL DEF Requests!Spec

\* A room that is counted was made, and made as it is labelled; a refusal leaves no
\* room behind, and only INTERNAL_ERROR may hide one (metrics.go of the gateway 46).
THEOREM CreationsAreTruthful == Spec => []CreationsTruthful
<1>1. Requests!Init => RequestInvariant BY RequestInitially
<1>2. RequestInvariant /\ [Requests!Next]_Requests!requestVars => RequestInvariant' BY RequestKept
<1>3. RequestInvariant => CreationsTruthful BY UnderstoodAndTruthful DEF CreationsTruthful
<1> QED BY <1>1, <1>2, <1>3, RequestsBehave, PTL DEF Requests!Spec

-----------------------------------------------------------------------------
(* The series of a room code, and what is counted of its games.            *)

Doings == {"nothing", "create", "play", "end", "forget"}
Job == [step : Metrics!Step \cup {"idle"}, room : Metrics!Room \cup {Metrics!None}, does : Doings]

\* Rooms are of games that were created, and who is to report a room holds one.
MetricsTypes ==
  /\ stored \in Metrics!Room \cup {Metrics!None} /\ tracked \in BOOLEAN
  /\ work \in [Handler -> Job]
  /\ roomState \in Metrics!Room \cup {Metrics!None} /\ archived \in Metrics!Room \cup {Metrics!None}
  /\ DOMAIN open \subseteq Metrics!Mode
  /\ counted \in [Game -> Nat] /\ failures \in [Game -> Nat]
  /\ ended \subseteq used /\ unreported \subseteq used /\ used \subseteq Game
  /\ stored # Metrics!None => stored.game \in used
  /\ \A h \in Handler :
       /\ work[h].room # Metrics!None => work[h].room.game \in used
       /\ work[h].step \in {"save", "track", "report", "close", "drop"} => work[h].room # Metrics!None

\* The code is current or archived, and its series say which.
OneSeries ==
  /\ info = {roomState, archived} \ {Metrics!None}
  /\ roomState = Metrics!None \/ archived = Metrics!None
  /\ Metrics!OpenSeriesTruthful

-----------------------------------------------------------------------------

Over(s) == s \in FinishedStatus

\* Redis failed on a room of the game in a way that the metrics show.
Marred(g) == failures[g] > 0 \/ g \in unreported

\* A tracked code is in the gauge, and one in the gauge is tracked or was not deleted.
Synced ==
  /\ tracked => roomState # Metrics!None
  /\ roomState # Metrics!None /\ ~tracked => failures[roomState.game] > 0

\* A report that may still count this room, or one of its game to come, is made up for
\* by a failed deletion.
Slack(r) == ~Over(r.status) \/ Metrics!Counts(r) => counted[r.game] <= failures[r.game]

\* The room is reported as it is stored.
StoredReported ==
  stored # Metrics!None =>
    /\ ~Marred(stored.game) => /\ roomState \in {Metrics!None, stored}
                               /\ (stored.game \in ended => Over(stored.status))
    /\ Slack(stored)

\* The games that ended are counted, except for those that are yet to be reported.
Settled(owed) ==
  \A g \in Game : ~Marred(g) => counted[g] = IF g \in ended \ owed THEN 1 ELSE 0

\* A game is counted once, and once more at most for each failed deletion.
Bounded ==
  /\ \A g \in Game : counted[g] <= 1 + failures[g]
  /\ \A g \in Game \ used : counted[g] = 0

\* The room that is about to be saved or closed: its report will count when the
\* handler ended its game, and a game that has ended stays so.
Holds(h) ==
  LET r == work[h].room IN
  /\ Slack(r)
  /\ ~Marred(r.game) =>
       /\ work[h].does = "end" => /\ Over(r.status) /\ r.game \notin ended
                                  /\ (roomState # Metrics!None => roomState.status # r.status)
       /\ work[h].does # "end" => ~Metrics!Counts(r)
       /\ r.game \in ended => Over(r.status)

\* The room that was saved: its report counts the game it ended.
Owes(h) ==
  LET r == work[h].room IN
  /\ stored \in {Metrics!None, r}
  /\ Slack(r)
  /\ ~Marred(r.game) => /\ Metrics!Counts(r) => r.game \in ended
                        /\ r.game \in ended => Over(r.status)
  /\ Settled(IF Metrics!Counts(r) THEN {r.game} ELSE {})

\* The room that is to be deleted is the one stored, if any.
Closes(h) == stored # Metrics!None => stored.game = work[h].room.game

\* What holds while h alone is at work, at each of its steps.
Working(h) ==
  CASE work[h].step = "save"    -> Synced /\ StoredReported /\ Holds(h) /\ Settled({})
    [] work[h].step = "track"   -> Owes(h)
    [] work[h].step = "report"  -> tracked /\ Owes(h)
    [] work[h].step = "close"   -> Holds(h) /\ Closes(h) /\ Settled({})
    [] work[h].step = "drop"    -> roomState = work[h].room /\ Closes(h) /\ Settled({})
    [] work[h].step = "untrack" -> stored = Metrics!None /\ Settled({})
    [] work[h].step = "forget"  -> stored = Metrics!None /\ ~tracked /\ Settled({})
    [] OTHER -> FALSE

Orderly ==
  /\ Bounded
  /\ Metrics!Rest => Synced /\ StoredReported /\ Settled({})
  /\ \A h \in Handler : work[h] # Metrics!Idle =>
       /\ \A g \in Handler \ {h} : work[g] = Metrics!Idle
       /\ Working(h)

MetricsInvariant == MetricsTypes /\ OneSeries /\ (~overlap => Orderly)

LEMMA NoneIsNoRoom == Metrics!None \notin Metrics!Room
<1>1. DOMAIN Metrics!None = {"game"} BY DEF Metrics!None
<1>2. \A r \in Metrics!Room : "mode" \in DOMAIN r BY DEF Metrics!Room
<1> QED BY <1>1, <1>2

LEMMA MetricsInitially ==
  ASSUME Metrics!Init
  PROVE  MetricsInvariant
<1>1. Metrics!Idle \in Job /\ Metrics!Idle.step = "idle" /\ Metrics!Idle.room = Metrics!None
  BY DEF Metrics!Idle, Job, Doings
<1>2. /\ stored = Metrics!None /\ tracked = FALSE /\ work = [h \in Handler |-> Metrics!Idle]
      /\ roomState = Metrics!None /\ archived = Metrics!None /\ info = {}
      /\ open = <<>> /\ counted = [g \in Game |-> 0] /\ used = {} /\ ended = {}
      /\ failures = [g \in Game |-> 0] /\ unreported = {}
  BY DEF Metrics!Init, Metrics!NoSeries
<1> HIDE DEF Metrics!Init
<1>3. MetricsTypes
  <2>1. DOMAIN open \subseteq Metrics!Mode BY <1>2
  <2>2. work \in [Handler -> Job]
        /\ \A h \in Handler : work[h].step = "idle" /\ work[h].room = Metrics!None
    BY <1>1, <1>2
  <2>3. counted \in [Game -> Nat] /\ failures \in [Game -> Nat] BY <1>2
  <2> QED BY <1>2, <2>1, <2>2, <2>3 DEF MetricsTypes
<1>4. OneSeries BY <1>2 DEF OneSeries, Metrics!OpenSeriesTruthful
<1>5. Orderly BY <1>1, <1>2 DEF Orderly, Bounded, Synced, StoredReported, Settled
<1> QED BY <1>3, <1>4, <1>5 DEF MetricsInvariant

\* A handler takes up another step; the others stay where they are.
LEMMA JobMoves ==
  ASSUME work \in [Handler -> Job], NEW h \in Handler, NEW w \in Job,
         work' = [work EXCEPT ![h] = w]
  PROVE  /\ work' \in [Handler -> Job] /\ work'[h] = w
         /\ \A g \in Handler \ {h} : work'[g] = work[g]
  OBVIOUS

\* What a handler goes on to is the same room.
LEMMA JobGoesOn ==
  ASSUME work \in [Handler -> Job], NEW h \in Handler, NEW s \in Metrics!Step, Metrics!GoOn(h, s)
  PROVE  /\ work' \in [Handler -> Job]
         /\ work'[h].step = s /\ work'[h].room = work[h].room /\ work'[h].does = work[h].does
         /\ work'[h] # Metrics!Idle
         /\ \A g \in Handler \ {h} : work'[g] = work[g]
<1> DEFINE w == [work[h] EXCEPT !.step = s]
<1>1. w \in Job /\ w.step = s /\ w.room = work[h].room /\ w.does = work[h].does BY DEF Job
<1>2. work' = [work EXCEPT ![h] = w] BY DEF Metrics!GoOn
<1>3. w # Metrics!Idle BY <1>1 DEF Metrics!Idle, Metrics!Step
<1> HIDE DEF w
<1>4. work' \in [Handler -> Job] /\ work'[h] = w /\ \A g \in Handler \ {h} : work'[g] = work[g]
  BY <1>1, <1>2
<1> QED BY <1>1, <1>3, <1>4

\* What a handler begins with.
LEMMA JobBegins ==
  ASSUME work \in [Handler -> Job], NEW h \in Handler, NEW s \in Metrics!Step,
         NEW r \in Metrics!Room \cup {Metrics!None}, NEW d \in Doings, Metrics!Begin(h, s, r, d)
  PROVE  /\ work' \in [Handler -> Job]
         /\ work'[h].step = s /\ work'[h].room = r /\ work'[h].does = d
         /\ work'[h] # Metrics!Idle
         /\ \A g \in Handler \ {h} : work'[g] = work[g]
<1> DEFINE w == [step |-> s, room |-> r, does |-> d]
<1>1. w \in Job /\ w.step = s /\ w.room = r /\ w.does = d BY DEF Job
<1>2. work' = [work EXCEPT ![h] = w] BY DEF Metrics!Begin
<1>3. w # Metrics!Idle BY <1>1 DEF Metrics!Idle, Metrics!Step
<1> HIDE DEF w
<1>4. work' \in [Handler -> Job] /\ work'[h] = w /\ \A g \in Handler \ {h} : work'[g] = work[g]
  BY <1>1, <1>2
<1> QED BY <1>1, <1>3, <1>4

\* A handler that is through is idle again.
LEMMA JobEnds ==
  ASSUME work \in [Handler -> Job], NEW h \in Handler, Metrics!Over(h)
  PROVE  /\ work' \in [Handler -> Job] /\ work'[h] = Metrics!Idle
         /\ work'[h].step = "idle" /\ work'[h].room = Metrics!None
         /\ \A g \in Handler \ {h} : work'[g] = work[g]
<1>1. Metrics!Idle \in Job /\ Metrics!Idle.step = "idle" /\ Metrics!Idle.room = Metrics!None
  BY DEF Metrics!Idle, Job, Doings
<1> QED BY <1>1 DEF Metrics!Over

\* A report shows the room as it was reported, and nothing else for its code.
LEMMA ReportShows ==
  ASSUME MetricsTypes, OneSeries, NEW r \in Metrics!Room, Metrics!UpdateRoom(r)
  PROVE  /\ OneSeries' /\ roomState' = r /\ archived' = Metrics!None
         /\ DOMAIN open' \subseteq Metrics!Mode /\ counted' \in [Game -> Nat]
         /\ counted' = IF Metrics!Counts(r) THEN [counted EXCEPT ![r.game] = @ + 1] ELSE counted
<1>1. /\ info' = (info \ Metrics!LeftFromBefore) \cup {r}
      /\ open' = [x \in DOMAIN open \cup {r.mode} |-> IF x = r.mode THEN 1 ELSE open[x]]
      /\ counted' = IF Metrics!Counts(r) THEN [counted EXCEPT ![r.game] = @ + 1] ELSE counted
      /\ roomState' = r /\ archived' = Metrics!None
  BY DEF Metrics!UpdateRoom, Metrics!SetSeries
<1>2. info' = {r} BY <1>1 DEF OneSeries, Metrics!LeftFromBefore
<1>3. OneSeries' BY <1>1, <1>2, NoneIsNoRoom DEF OneSeries, Metrics!OpenSeriesTruthful
<1>4. r.mode \in Metrics!Mode /\ r.game \in Game BY DEF Metrics!Room
<1>5. DOMAIN open' \subseteq Metrics!Mode BY <1>1, <1>4 DEF MetricsTypes
<1>6. counted' \in [Game -> Nat] BY <1>1, <1>4 DEF MetricsTypes
<1> QED BY <1>1, <1>3, <1>5, <1>6

\* A removal leaves the series, as one of a closed room.
LEMMA RemovalArchives ==
  ASSUME MetricsTypes, OneSeries, Metrics!DeleteRoom
  PROVE  /\ OneSeries' /\ roomState' = Metrics!None
         /\ archived' \in Metrics!Room \cup {Metrics!None}
         /\ DOMAIN open' \subseteq Metrics!Mode /\ UNCHANGED counted
<1>1. CASE roomState = Metrics!None
  BY <1>1 DEF Metrics!DeleteRoom, Metrics!metrics, MetricsTypes, OneSeries, Metrics!OpenSeriesTruthful
<1>2. CASE roomState # Metrics!None
  <2>1. /\ info' = info \cup {roomState}
        /\ open' = [x \in DOMAIN open \cup {roomState.mode} |->
                      IF x = roomState.mode THEN 0 ELSE open[x]]
        /\ archived' = roomState /\ roomState' = Metrics!None /\ UNCHANGED counted
    BY <1>2 DEF Metrics!DeleteRoom, Metrics!SetSeries
  <2>2. info' = {roomState} BY <1>2, <2>1 DEF OneSeries
  <2>3. OneSeries' BY <1>2, <2>1, <2>2 DEF OneSeries, Metrics!OpenSeriesTruthful
  <2>4. roomState \in Metrics!Room /\ roomState.mode \in Metrics!Mode
    BY <1>2 DEF MetricsTypes, Metrics!Room
  <2> QED BY <2>1, <2>3, <2>4 DEF MetricsTypes
<1> QED BY <1>1, <1>2

\* Nothing is said of the series that was not said before.
LEMMA SeriesStay ==
  ASSUME OneSeries, UNCHANGED Metrics!metrics
  PROVE  OneSeries'
  BY DEF OneSeries, Metrics!OpenSeriesTruthful, Metrics!metrics

\* The types once the handler h has moved.
LEMMA TypesAfterMove ==
  ASSUME MetricsTypes, NEW h \in Handler,
         work' \in [Handler -> Job], \A g \in Handler \ {h} : work'[g] = work[g],
         work'[h].room # Metrics!None => work'[h].room.game \in used',
         work'[h].step \in {"save", "track", "report", "close", "drop"} => work'[h].room # Metrics!None,
         stored' \in Metrics!Room \cup {Metrics!None}, tracked' \in BOOLEAN,
         stored' # Metrics!None => stored'.game \in used',
         roomState' \in Metrics!Room \cup {Metrics!None}, archived' \in Metrics!Room \cup {Metrics!None},
         DOMAIN open' \subseteq Metrics!Mode, counted' \in [Game -> Nat],
         failures' \in [Game -> Nat], unreported' \subseteq used',
         used \subseteq used', used' \subseteq Game, ended' \subseteq used'
  PROVE  MetricsTypes'
<1>1. ASSUME NEW g \in Handler
      PROVE  /\ work'[g].room # Metrics!None => work'[g].room.game \in used'
             /\ work'[g].step \in {"save", "track", "report", "close", "drop"} => work'[g].room # Metrics!None
  <2>1. CASE g = h BY <2>1
  <2>2. CASE g # h BY <2>2 DEF MetricsTypes
  <2> QED BY <2>1, <2>2
<1> QED BY <1>1 DEF MetricsTypes

\* A handler that reads the room holds what it makes of it.
LEMMA ChangeBegins ==
  ASSUME MetricsTypes, NEW h \in Handler, stored # Metrics!None,
         NEW s \in Metrics!Status, NEW step \in {"save", "close"},
         Metrics!Begin(h, step, [stored EXCEPT !.status = s], Metrics!Doing(s))
  PROVE  LET r == [stored EXCEPT !.status = s] IN
         /\ work' \in [Handler -> Job]
         /\ work'[h].step = step /\ work'[h].room = r /\ work'[h].does = Metrics!Doing(s)
         /\ work'[h] # Metrics!Idle
         /\ \A g \in Handler \ {h} : work'[g] = work[g]
         /\ r \in Metrics!Room /\ r.game = stored.game /\ r.status = s
<1> DEFINE r == [stored EXCEPT !.status = s]
<1>1. r \in Metrics!Room /\ r.game = stored.game /\ r.status = s
  BY DEF MetricsTypes, Metrics!Room
<1>2. Metrics!Doing(s) \in Doings BY DEF Metrics!Doing, Doings
<1>3. step \in Metrics!Step BY DEF Metrics!Step
<1>4. Metrics!Begin(h, step, r, Metrics!Doing(s)) OBVIOUS
<1> HIDE DEF r
<1>5. /\ work' \in [Handler -> Job]
      /\ work'[h].step = step /\ work'[h].room = r /\ work'[h].does = Metrics!Doing(s)
      /\ work'[h] # Metrics!Idle
      /\ \A g \in Handler \ {h} : work'[g] = work[g]
  BY <1>1, <1>2, <1>3, <1>4, JobBegins DEF MetricsTypes
<1> QED BY <1>1, <1>5 DEF r

\* What Leave makes of the room's status.
LeftAs == IF stored.status = "active" THEN "resigned" ELSE stored.status

LEMMA LeaveBegins ==
  ASSUME MetricsTypes, NEW h \in Handler, Metrics!Leave(h)
  PROVE  /\ stored # Metrics!None /\ LeftAs \in Metrics!Status /\ Metrics!MayStart(h)
         /\ Metrics!Begin(h, "close", [stored EXCEPT !.status = LeftAs], Metrics!Doing(LeftAs))
         /\ UNCHANGED <<Metrics!store, Metrics!metrics, used, ended, Metrics!faults, restarts, overlap>>
<1>1. stored # Metrics!None BY DEF Metrics!Leave
<1>2. "resigned" \in Metrics!Status /\ stored.status \in Metrics!Status
  BY <1>1, BoundsAssumption DEF MetricsTypes, Metrics!Room, Metrics!Status
<1> QED BY <1>1, <1>2 DEF Metrics!Leave, LeftAs

LEMMA MetricsTypesKept ==
  ASSUME MetricsTypes, OneSeries, [Metrics!Next]_Metrics!metricsVars
  PROVE  MetricsTypes' /\ OneSeries'
<1> USE DEF Metrics!store, Metrics!metrics, Metrics!faults
<1>1. CASE UNCHANGED Metrics!metricsVars
  BY <1>1, SeriesStay DEF Metrics!metricsVars, MetricsTypes
<1>2. ASSUME NEW h \in Handler, Metrics!CreateRoom(h) PROVE MetricsTypes' /\ OneSeries'
  <2>1. PICK g \in Game \ used, m \in Metrics!Mode, s \in {"waiting", "active"} :
          /\ used' = used \cup {g}
          /\ Metrics!Begin(h, "save", [game |-> g, mode |-> m, status |-> s], "create")
    BY <1>2 DEF Metrics!CreateRoom, Metrics!Mode
  <2> DEFINE r == [game |-> g, mode |-> m, status |-> s]
  <2>2. r \in Metrics!Room /\ r.game = g BY DEF Metrics!Room, Metrics!Status
  <2>3. Metrics!Begin(h, "save", r, "create") BY <2>1
  <2> HIDE DEF r
  <2>4. /\ work' \in [Handler -> Job] /\ work'[h].room = r
        /\ \A f \in Handler \ {h} : work'[f] = work[f]
    BY <2>2, <2>3, JobBegins DEF MetricsTypes, Metrics!Step, Doings
  <2>5. UNCHANGED <<Metrics!store, Metrics!metrics, ended, Metrics!faults>> BY <1>2 DEF Metrics!CreateRoom
  <2>6. MetricsTypes'
    BY <2>1, <2>2, <2>4, <2>5, TypesAfterMove, NoneIsNoRoom DEF MetricsTypes
  <2> QED BY <2>5, <2>6, SeriesStay
<1>3. ASSUME NEW h \in Handler, NEW s \in Metrics!Status, NEW step \in {"save", "close"},
             stored # Metrics!None,
             Metrics!Begin(h, step, [stored EXCEPT !.status = s], Metrics!Doing(s)),
             UNCHANGED <<Metrics!store, Metrics!metrics, used, ended, Metrics!faults>>
      PROVE  MetricsTypes' /\ OneSeries'
  <2> DEFINE r == [stored EXCEPT !.status = s]
  <2>1. /\ work' \in [Handler -> Job] /\ work'[h].room = r
        /\ \A f \in Handler \ {h} : work'[f] = work[f]
        /\ r \in Metrics!Room /\ r.game = stored.game
    BY <1>3, ChangeBegins
  <2> HIDE DEF r
  <2>2. MetricsTypes' BY <1>3, <2>1, TypesAfterMove, NoneIsNoRoom DEF MetricsTypes
  <2> QED BY <1>3, <2>2, SeriesStay
<1>4. ASSUME NEW h \in Handler, Metrics!Change(h) PROVE MetricsTypes' /\ OneSeries'
  BY <1>3, <1>4 DEF Metrics!Change
<1>5. ASSUME NEW h \in Handler, Metrics!Leave(h) PROVE MetricsTypes' /\ OneSeries'
  BY <1>3, <1>5, LeaveBegins
<1>6. ASSUME NEW h \in Handler, Metrics!FindGone(h) PROVE MetricsTypes' /\ OneSeries'
  <2>1. Metrics!Begin(h, "untrack", Metrics!None, "forget")
        /\ UNCHANGED <<Metrics!store, Metrics!metrics, used, ended, Metrics!faults>>
    BY <1>6 DEF Metrics!FindGone
  <2>2. /\ work' \in [Handler -> Job] /\ work'[h].room = Metrics!None /\ work'[h].step = "untrack"
        /\ \A f \in Handler \ {h} : work'[f] = work[f]
    BY <2>1, JobBegins DEF MetricsTypes, Metrics!Step, Doings
  <2>3. MetricsTypes' BY <2>1, <2>2, TypesAfterMove DEF MetricsTypes
  <2> QED BY <2>1, <2>3, SeriesStay
<1>7. ASSUME NEW h \in Handler, Metrics!SaveRoom(h) PROVE MetricsTypes' /\ OneSeries'
  <2>1. /\ work[h].step = "save" /\ stored' = work[h].room /\ Metrics!Ends(h)
        /\ Metrics!GoOn(h, "track") /\ UNCHANGED <<tracked, Metrics!metrics, used, Metrics!faults>>
    BY <1>7 DEF Metrics!SaveRoom
  <2>2. work[h].room \in Metrics!Room /\ work[h].room.game \in used
    BY <2>1 DEF MetricsTypes, Job
  <2>3. ended' \subseteq used BY <2>1, <2>2 DEF Metrics!Ends, MetricsTypes
  <2>4. /\ work' \in [Handler -> Job] /\ work'[h].room = work[h].room
        /\ \A f \in Handler \ {h} : work'[f] = work[f]
    BY <2>1, JobGoesOn DEF MetricsTypes, Metrics!Step
  <2>5. MetricsTypes' BY <2>1, <2>2, <2>3, <2>4, TypesAfterMove, NoneIsNoRoom DEF MetricsTypes
  <2> QED BY <2>1, <2>5, SeriesStay
<1>8. ASSUME NEW h \in Handler, Metrics!SaveFails(h) PROVE MetricsTypes' /\ OneSeries'
  <2>1. /\ work[h].step = "save" /\ Metrics!Over(h)
        /\ stored' \in {stored, work[h].room} /\ (Metrics!Ends(h) \/ UNCHANGED ended)
        /\ unreported' \subseteq unreported \cup {work[h].room.game}
        /\ UNCHANGED <<tracked, Metrics!metrics, used, failures>>
    BY <1>8 DEF Metrics!SaveFails
  <2>2. work[h].room \in Metrics!Room /\ work[h].room.game \in used
    BY <2>1 DEF MetricsTypes, Job
  <2>3. ended' \subseteq used BY <2>1, <2>2 DEF Metrics!Ends, MetricsTypes
  <2>4. unreported' \subseteq used BY <2>1, <2>2 DEF MetricsTypes
  <2>5. /\ work' \in [Handler -> Job] /\ work'[h].room = Metrics!None /\ work'[h].step = "idle"
        /\ \A f \in Handler \ {h} : work'[f] = work[f]
    BY <2>1, JobEnds DEF MetricsTypes
  <2>6. MetricsTypes' BY <2>1, <2>2, <2>3, <2>4, <2>5, TypesAfterMove DEF MetricsTypes
  <2> QED BY <2>1, <2>6, SeriesStay
<1>9. ASSUME NEW h \in Handler, Metrics!TrackRoom(h) \/ Metrics!Drop(h) \/ Metrics!UntrackRoom(h)
      PROVE  MetricsTypes' /\ OneSeries'
  <2>1. PICK s \in Metrics!Step : Metrics!GoOn(h, s) /\ (s = "report" => work[h].step = "track")
                                  /\ s \in {"report", "untrack", "forget"}
    BY <1>9 DEF Metrics!TrackRoom, Metrics!Drop, Metrics!UntrackRoom, Metrics!Step
  <2>2. /\ UNCHANGED <<Metrics!metrics, used, ended, Metrics!faults>> /\ stored' \in {stored, Metrics!None}
        /\ tracked' \in {tracked, TRUE, FALSE}
    BY <1>9 DEF Metrics!TrackRoom, Metrics!Drop, Metrics!UntrackRoom
  <2>3. /\ work' \in [Handler -> Job] /\ work'[h].room = work[h].room /\ work'[h].step = s
        /\ \A f \in Handler \ {h} : work'[f] = work[f]
    BY <2>1, JobGoesOn DEF MetricsTypes
  <2>4. tracked' \in BOOLEAN BY <2>2 DEF MetricsTypes
  <2>5. MetricsTypes' BY <2>1, <2>2, <2>3, <2>4, TypesAfterMove DEF MetricsTypes
  <2> QED BY <2>2, <2>5, SeriesStay
<1>10. ASSUME NEW h \in Handler, Metrics!Report(h) PROVE MetricsTypes' /\ OneSeries'
  <2>1. /\ work[h].step = "report" /\ Metrics!UpdateRoom(work[h].room) /\ Metrics!Over(h)
        /\ UNCHANGED <<stored, tracked, used, ended, Metrics!faults>>
    BY <1>10 DEF Metrics!Report
  <2>2. work[h].room \in Metrics!Room BY <2>1 DEF MetricsTypes, Job
  <2>3. /\ OneSeries' /\ roomState' = work[h].room /\ archived' = Metrics!None
        /\ DOMAIN open' \subseteq Metrics!Mode /\ counted' \in [Game -> Nat]
    BY <2>1, <2>2, ReportShows
  <2>4. /\ work' \in [Handler -> Job] /\ work'[h].room = Metrics!None /\ work'[h].step = "idle"
        /\ \A f \in Handler \ {h} : work'[f] = work[f]
    BY <2>1, JobEnds DEF MetricsTypes
  <2> QED BY <2>1, <2>2, <2>3, <2>4, TypesAfterMove DEF MetricsTypes
<1>11. ASSUME NEW h \in Handler, Metrics!ReportLast(h) PROVE MetricsTypes' /\ OneSeries'
  <2>1. /\ work[h].step = "close" /\ Metrics!UpdateRoom(work[h].room) /\ Metrics!Ends(h)
        /\ Metrics!GoOn(h, "drop") /\ UNCHANGED <<stored, tracked, used, Metrics!faults>>
    BY <1>11 DEF Metrics!ReportLast
  <2>2. work[h].room \in Metrics!Room /\ work[h].room.game \in used
    BY <2>1 DEF MetricsTypes, Job
  <2>3. /\ OneSeries' /\ roomState' = work[h].room /\ archived' = Metrics!None
        /\ DOMAIN open' \subseteq Metrics!Mode /\ counted' \in [Game -> Nat]
    BY <2>1, <2>2, ReportShows
  <2>4. ended' \subseteq used BY <2>1, <2>2 DEF Metrics!Ends, MetricsTypes
  <2>5. /\ work' \in [Handler -> Job] /\ work'[h].room = work[h].room
        /\ \A f \in Handler \ {h} : work'[f] = work[f]
    BY <2>1, JobGoesOn DEF MetricsTypes, Metrics!Step
  <2> QED BY <2>1, <2>2, <2>3, <2>4, <2>5, TypesAfterMove, NoneIsNoRoom DEF MetricsTypes
<1>12. ASSUME NEW h \in Handler, Metrics!Forget(h) PROVE MetricsTypes' /\ OneSeries'
  <2>1. Metrics!DeleteRoom /\ Metrics!Over(h) /\ UNCHANGED <<stored, tracked, used, ended, Metrics!faults>>
    BY <1>12 DEF Metrics!Forget
  <2>2. /\ OneSeries' /\ roomState' = Metrics!None
        /\ archived' \in Metrics!Room \cup {Metrics!None}
        /\ DOMAIN open' \subseteq Metrics!Mode /\ UNCHANGED counted
    BY <2>1, RemovalArchives
  <2>3. /\ work' \in [Handler -> Job] /\ work'[h].room = Metrics!None /\ work'[h].step = "idle"
        /\ \A f \in Handler \ {h} : work'[f] = work[f]
    BY <2>1, JobEnds DEF MetricsTypes
  <2> QED BY <2>1, <2>2, <2>3, TypesAfterMove DEF MetricsTypes
<1>13. CASE Metrics!Expire
  BY <1>13, SeriesStay DEF Metrics!Expire, MetricsTypes
<1>14. CASE Metrics!Restart
  <2>1. /\ work' = [h \in Handler |-> Metrics!Idle] /\ ended' = {}
        /\ counted' = [g \in Game |-> 0] /\ archived' = Metrics!None /\ UNCHANGED <<stored, used>>
        /\ failures' = [g \in Game |-> 0] /\ unreported' = {}
        /\ \/ /\ stored # Metrics!None /\ tracked' = TRUE /\ roomState' = stored
              /\ info' = {stored} /\ open' = [x \in {stored.mode} |-> 1]
           \/ tracked' = FALSE /\ roomState' = Metrics!None /\ info' = {} /\ open' = <<>>
    BY <1>14 DEF Metrics!Restart
  <2>2. Metrics!Idle \in Job /\ Metrics!Idle.step = "idle" /\ Metrics!Idle.room = Metrics!None
    BY DEF Metrics!Idle, Job, Doings
  <2>3. work' \in [Handler -> Job]
        /\ \A h \in Handler : work'[h].step = "idle" /\ work'[h].room = Metrics!None
    BY <2>1, <2>2
  <2>4. stored # Metrics!None => stored.mode \in Metrics!Mode BY DEF MetricsTypes, Metrics!Room
  <2>5. DOMAIN open' \subseteq Metrics!Mode BY <2>1, <2>4
  <2>6. counted' \in [Game -> Nat] /\ failures' \in [Game -> Nat] BY <2>1
  <2>7. MetricsTypes' BY <2>1, <2>3, <2>5, <2>6 DEF MetricsTypes
  <2>8. OneSeries' BY <2>1 DEF OneSeries, Metrics!OpenSeriesTruthful
  <2> QED BY <2>7, <2>8
<1>15. ASSUME NEW h \in Handler, Metrics!DropFails(h) PROVE MetricsTypes' /\ OneSeries'
  <2> DEFINE g == work[h].room.game
  <2>1. /\ work[h].step = "drop" /\ stored' \in {stored, Metrics!None} /\ Metrics!Over(h)
        /\ failures' \in {failures, [failures EXCEPT ![g] = @ + 1]}
        /\ UNCHANGED <<tracked, Metrics!metrics, used, ended, unreported>>
    BY <1>15 DEF Metrics!DropFails
  <2>2. g \in Game BY <2>1 DEF MetricsTypes
  <2> HIDE DEF g
  <2>3. failures' \in [Game -> Nat] BY <2>1, <2>2 DEF MetricsTypes
  <2>4. /\ work' \in [Handler -> Job] /\ work'[h].room = Metrics!None /\ work'[h].step = "idle"
        /\ \A f \in Handler \ {h} : work'[f] = work[f]
    BY <2>1, JobEnds DEF MetricsTypes
  <2>5. MetricsTypes' BY <2>1, <2>3, <2>4, TypesAfterMove DEF MetricsTypes
  <2> QED BY <2>1, <2>5, SeriesStay
<1> QED BY <1>1, <1>2, <1>4, <1>5, <1>6, <1>7, <1>8, <1>9, <1>10, <1>11, <1>12, <1>13, <1>14, <1>15
        DEF Metrics!Next

\* However reports, removals and returns of one code overlap, one room_info series is
\* exported for it, that of its last report; the code is current or archived, never
\* both, and the room_open series says which (metrics.go 118-201).
THEOREM SeriesAreTruthful == Spec => []SeriesTruthful
<1> DEFINE I == MetricsTypes /\ OneSeries
<1>1. Metrics!Init => I BY MetricsInitially DEF MetricsInvariant
<1>2. I /\ [Metrics!Next]_Metrics!metricsVars => I' BY MetricsTypesKept
<1>3. I => SeriesTruthful
  <2> SUFFICES ASSUME I PROVE SeriesTruthful OBVIOUS
  <2>1. \A h \in Handler : work[h] \in Job BY DEF MetricsTypes
  <2>2. info \subseteq Metrics!Room BY DEF OneSeries, MetricsTypes
  <2>3. Metrics!TypeOK BY <2>1, <2>2 DEF Metrics!TypeOK, MetricsTypes, Job, Doings
  <2>4. info = {} \/ \E r : info = {r} BY DEF OneSeries
  <2>5. Cardinality(info) <= 1
    <3>1. CASE info = {} BY <3>1, FS_EmptySet
    <3>2. CASE \E r : info = {r} BY <3>2, FS_Singleton
    <3> QED BY <2>4, <3>1, <3>2
  <2>6. Metrics!Cardinality(info) = Cardinality(info) BY DEF Cardinality, Metrics!Cardinality
  <2>7. Metrics!InfoSeriesExact BY <2>5, <2>6 DEF Metrics!InfoSeriesExact, OneSeries
  <2> QED BY <2>3, <2>7 DEF SeriesTruthful, Metrics!SeriesTruthful, OneSeries
<1> QED BY <1>1, <1>2, <1>3, MetricsBehave, PTL DEF Metrics!Spec

-----------------------------------------------------------------------------
(* While handlers do not overlap, the gauge and the counter follow the store. *)

\* Only h is at work, and once it has moved all is as its step says, or at rest.
LEMMA OrderAfterMove ==
  ASSUME NEW h \in Handler, \A g \in Handler \ {h} : work'[g] = Metrics!Idle, Bounded',
         work'[h] # Metrics!Idle => Working(h)',
         work'[h] = Metrics!Idle => Synced' /\ StoredReported' /\ Settled({})'
  PROVE  Orderly'
<1>1. Metrics!Rest' => work'[h] = Metrics!Idle BY DEF Metrics!Rest
<1>2. ASSUME NEW g \in Handler, work'[g] # Metrics!Idle
      PROVE  g = h
  BY <1>2
<1> QED BY <1>1, <1>2 DEF Orderly

\* Who may start finds all at rest.
LEMMA StartsAtRest ==
  ASSUME Orderly, ~overlap, NEW h \in Handler, Metrics!MayStart(h)
  PROVE  /\ Bounded /\ Synced /\ StoredReported /\ Settled({})
         /\ \A g \in Handler : work[g] = Metrics!Idle
  BY DEF Orderly, Metrics!MayStart, Metrics!Rest

\* Who is at work is alone.
LEMMA WorksAlone ==
  ASSUME Orderly, NEW h \in Handler, work[h].step # "idle"
  PROVE  Bounded /\ Working(h) /\ \A g \in Handler \ {h} : work[g] = Metrics!Idle
<1>1. work[h] # Metrics!Idle BY DEF Metrics!Idle
<1> QED BY <1>1 DEF Orderly

\* What is said of the store, the gauge and the counter stays, while these do.
LEMMA BooksStay ==
  ASSUME UNCHANGED <<stored, tracked, roomState, counted, ended, failures, unreported>>
  PROVE  /\ (Synced => Synced') /\ (StoredReported => StoredReported')
         /\ \A owed : Settled(owed) => Settled(owed)'
  BY DEF Synced, StoredReported, Settled, Marred, Slack, Metrics!Counts

LEMMA BoundStays ==
  ASSUME Bounded, used \subseteq used', UNCHANGED <<counted, failures>>
  PROVE  Bounded'
  BY DEF Bounded

\* A handler that changes its copy of the stored room ends it, or reports nothing new.
LEMMA ChangeHolds ==
  ASSUME MetricsTypes, StoredReported, stored # Metrics!None, NEW h \in Handler,
         NEW s \in Metrics!Status, s # stored.status => ~Over(stored.status),
         work'[h].room.game = stored.game, work'[h].room.status = s,
         work'[h].does = Metrics!Doing(s),
         UNCHANGED <<roomState, ended, counted, failures, unreported>>
  PROVE  Holds(h)'
<1>1. Slack(work[h].room)'
  <2>1. Over(stored.status) => s = stored.status OBVIOUS
  <2>2. Over(stored.status) /\ Metrics!Counts(work[h].room)' => Metrics!Counts(stored)
    BY <2>1 DEF Metrics!Counts, Over
  <2>3. ~Over(stored.status) \/ Metrics!Counts(stored) => counted[stored.game] <= failures[stored.game]
    BY DEF StoredReported, Slack
  <2> QED BY <2>1, <2>2, <2>3 DEF Slack, Over
<1>2. Marred(work[h].room.game)' <=> Marred(stored.game) BY DEF Marred
<1>3. CASE Marred(stored.game) BY <1>1, <1>2, <1>3 DEF Holds
<1>4. CASE ~Marred(stored.game)
  <2>1. roomState \in {Metrics!None, stored} /\ (stored.game \in ended => Over(stored.status))
    BY <1>4 DEF StoredReported
  <2>2. CASE Over(s) /\ ~Over(stored.status)
    <3>1. work'[h].does = "end" BY <2>2 DEF Metrics!Doing, Over
    <3> QED BY <1>1, <2>1, <2>2, <3>1 DEF Holds
  <2>3. CASE ~(Over(s) /\ ~Over(stored.status))
    <3>1. work'[h].does # "end" BY <2>3 DEF Metrics!Doing, Over
    <3>2. ~Over(s) \/ s = stored.status BY <2>3
    <3>3. ~Metrics!Counts(work[h].room)' BY <2>1, <3>2 DEF Metrics!Counts, Over
    <3>4. stored.game \in ended => Over(s) BY <2>1, <3>2
    <3> QED BY <1>1, <3>1, <3>3, <3>4 DEF Holds
  <2> QED BY <2>2, <2>3
<1> QED BY <1>3, <1>4

\* The report of a room counts when its handler ended the game that was reported.
LEMMA CountsWhatEnds ==
  ASSUME NEW h \in Handler, Holds(h), ~Marred(work[h].room.game)
  PROVE  Metrics!Counts(work[h].room) <=> work[h].does = "end" /\ roomState # Metrics!None
  BY DEF Holds, Metrics!Counts, Over

\* What a handler ends is not among the games that ended before, and is now.
LEMMA EndsOnce ==
  ASSUME NEW h \in Handler, Holds(h), Metrics!Ends(h), ~overlap
  PROVE  LET r == work[h].room IN
         /\ \A g \in Game \ {r.game} : g \in ended' <=> g \in ended
         /\ ~Marred(r.game) => IF Metrics!Counts(r)
                               THEN r.game \notin ended /\ ended' = ended \cup {r.game}
                               ELSE ended' = ended
  BY CountsWhatEnds DEF Holds, Metrics!Ends

\* The report of a room counts it within its bound, and leaves nothing to be counted.
LEMMA ReportSettles ==
  ASSUME MetricsTypes, Bounded, NEW r \in Metrics!Room, Slack(r), UNCHANGED <<used, failures>>,
         r.game \in used, roomState' = r,
         counted' = IF Metrics!Counts(r) THEN [counted EXCEPT ![r.game] = @ + 1] ELSE counted
  PROVE  Bounded' /\ Slack(r)'
<1>1. r.game \in Game BY DEF Metrics!Room
<1>2. \A g \in Game : counted[g] \in Nat /\ failures[g] \in Nat BY DEF MetricsTypes
<1>3. \A g \in Game \ {r.game} : counted'[g] = counted[g] BY <1>1 DEF MetricsTypes
<1>4. counted'[r.game] = IF Metrics!Counts(r) THEN counted[r.game] + 1 ELSE counted[r.game]
  BY <1>1 DEF MetricsTypes
<1>5. Metrics!Counts(r) => counted[r.game] <= failures[r.game] BY DEF Slack
<1>6. Bounded'
  BY <1>1, <1>2, <1>3, <1>4, <1>5 DEF Bounded
<1>7. ~Over(r.status) => ~Metrics!Counts(r) /\ counted[r.game] <= failures[r.game]
  BY DEF Slack, Over, Metrics!Counts
<1>8. ~Metrics!Counts(r)' BY DEF Metrics!Counts
<1> QED BY <1>4, <1>6, <1>7, <1>8 DEF Slack

LEMMA OrderlyKept ==
  ASSUME MetricsTypes, MetricsTypes', OneSeries, Orderly, ~overlap, Metrics!Next
  PROVE  Orderly'
<1> USE DEF Metrics!store, Metrics!metrics, Metrics!faults
<1>1. ASSUME NEW h \in Handler, Metrics!CreateRoom(h) PROVE Orderly'
  <2>1. PICK g \in Game \ used, m \in Metrics!Mode, s \in {"waiting", "active"} :
          /\ used' = used \cup {g}
          /\ Metrics!Begin(h, "save", [game |-> g, mode |-> m, status |-> s], "create")
    BY <1>1 DEF Metrics!CreateRoom, Metrics!Mode
  <2>2. /\ Metrics!MayStart(h)
        /\ UNCHANGED <<stored, tracked, roomState, counted, ended, failures, unreported>>
    BY <1>1 DEF Metrics!CreateRoom
  <2> DEFINE r == [game |-> g, mode |-> m, status |-> s]
  <2>3. r \in Metrics!Room /\ r.game = g /\ r.status = s BY DEF Metrics!Room, Metrics!Status
  <2>4. Metrics!Begin(h, "save", r, "create") BY <2>1
  <2> HIDE DEF r
  <2>5. /\ work'[h].step = "save" /\ work'[h].room = r /\ work'[h].does = "create"
        /\ work'[h] # Metrics!Idle
        /\ \A f \in Handler \ {h} : work'[f] = work[f]
    BY <2>3, <2>4, JobBegins DEF MetricsTypes, Metrics!Step, Doings
  <2>6. s \notin FinishedStatus BY BoundsAssumption
  <2>7. r.game \notin ended BY <2>3 DEF MetricsTypes
  <2>8. ~Metrics!Counts(work[h].room)' BY <2>3, <2>5, <2>6 DEF Metrics!Counts
  <2>9. Slack(work[h].room)'
    <3>1. counted[g] = 0 /\ failures[g] \in Nat
      BY <2>1, <2>2, StartsAtRest DEF Bounded, MetricsTypes
    <3> QED BY <2>2, <2>3, <2>5, <3>1 DEF Slack
  <2>10. Holds(h)' BY <2>2, <2>5, <2>7, <2>8, <2>9 DEF Holds
  <2>11. Working(h)' BY <2>2, <2>5, <2>10, StartsAtRest, BooksStay DEF Working
  <2>12. Bounded' BY <2>1, <2>2, StartsAtRest, BoundStays
  <2> QED BY <2>2, <2>5, <2>11, <2>12, StartsAtRest, OrderAfterMove
<1>2. ASSUME NEW h \in Handler, NEW s \in Metrics!Status, NEW step \in {"save", "close"},
             Metrics!MayStart(h), stored # Metrics!None,
             s # stored.status => ~Over(stored.status),
             Metrics!Begin(h, step, [stored EXCEPT !.status = s], Metrics!Doing(s)),
             UNCHANGED <<Metrics!store, Metrics!metrics, used, ended, Metrics!faults>>
      PROVE  Orderly'
  <2> DEFINE r == [stored EXCEPT !.status = s]
  <2>1. /\ work'[h].step = step /\ work'[h].room = r /\ work'[h].does = Metrics!Doing(s)
        /\ work'[h] # Metrics!Idle
        /\ \A f \in Handler \ {h} : work'[f] = work[f]
        /\ r.game = stored.game /\ r.status = s
    BY <1>2, ChangeBegins
  <2> HIDE DEF r
  <2>2. /\ Bounded /\ Synced /\ StoredReported /\ Settled({})
        /\ \A g \in Handler : work[g] = Metrics!Idle
    BY <1>2, StartsAtRest
  <2>3. Holds(h)' BY <1>2, <2>1, <2>2, ChangeHolds
  <2>4. Synced' /\ StoredReported' /\ Settled({})' /\ Bounded'
    BY <1>2, <2>2, BooksStay, BoundStays
  <2>5. Closes(h)' BY <1>2, <2>1 DEF Closes
  <2>6. Working(h)' BY <1>2, <2>1, <2>3, <2>4, <2>5 DEF Working
  <2> QED BY <2>1, <2>2, <2>4, <2>6, OrderAfterMove
<1>3. ASSUME NEW h \in Handler, Metrics!Change(h) PROVE Orderly'
  BY <1>2, <1>3 DEF Metrics!Change, Over
<1>4. ASSUME NEW h \in Handler, Metrics!Leave(h) PROVE Orderly'
  <2>1. LeftAs # stored.status => ~Over(stored.status)
    BY BoundsAssumption DEF LeftAs, Over
  <2> QED BY <1>2, <1>4, <2>1, LeaveBegins
<1>5. ASSUME NEW h \in Handler, Metrics!FindGone(h) PROVE Orderly'
  <2>1. /\ Metrics!MayStart(h) /\ stored = Metrics!None
        /\ Metrics!Begin(h, "untrack", Metrics!None, "forget")
        /\ UNCHANGED <<stored, tracked, roomState, counted, used, ended, failures, unreported>>
    BY <1>5 DEF Metrics!FindGone
  <2>2. /\ work'[h].step = "untrack" /\ work'[h] # Metrics!Idle
        /\ \A f \in Handler \ {h} : work'[f] = work[f]
    BY <2>1, JobBegins DEF MetricsTypes, Metrics!Step, Doings
  <2>3. Working(h)' BY <2>1, <2>2, StartsAtRest, BooksStay DEF Working
  <2>4. Bounded' BY <2>1, StartsAtRest, BoundStays
  <2> QED BY <2>1, <2>2, <2>3, <2>4, StartsAtRest, OrderAfterMove
<1>6. ASSUME NEW h \in Handler, Metrics!SaveRoom(h) PROVE Orderly'
  <2> DEFINE r == work[h].room
  <2>1. /\ work[h].step = "save" /\ stored' = r /\ Metrics!Ends(h) /\ Metrics!GoOn(h, "track")
        /\ UNCHANGED <<tracked, roomState, counted, used, failures, unreported>>
    BY <1>6 DEF Metrics!SaveRoom
  <2>2. /\ Bounded /\ Holds(h) /\ Settled({})
        /\ \A g \in Handler \ {h} : work[g] = Metrics!Idle
    BY <2>1, WorksAlone DEF Working
  <2>3. /\ work'[h].step = "track" /\ work'[h].room = r /\ work'[h] # Metrics!Idle
        /\ \A f \in Handler \ {h} : work'[f] = work[f]
    BY <2>1, JobGoesOn DEF MetricsTypes, Metrics!Step
  <2>4. /\ \A g \in Game \ {r.game} : g \in ended' <=> g \in ended
        /\ ~Marred(r.game) => IF Metrics!Counts(r)
                              THEN r.game \notin ended /\ ended' = ended \cup {r.game}
                              ELSE ended' = ended
    BY <2>1, <2>2, EndsOnce
  <2>5. /\ Slack(r)
        /\ ~Marred(r.game) => (r.game \in ended \/ Metrics!Counts(r) => Over(r.status))
    BY <2>2 DEF Holds, Metrics!Counts, Over
  <2> HIDE DEF r
  <2>6. Metrics!Counts(work[h].room)' <=> Metrics!Counts(r) BY <2>1, <2>3 DEF Metrics!Counts
  <2>7. \A g : Marred(g)' <=> Marred(g) BY <2>1 DEF Marred
  <2>8. Settled(IF Metrics!Counts(work[h].room) THEN {work[h].room.game} ELSE {})'
    <3>1. UNCHANGED counted
          /\ \A g \in Game : ~Marred(g) => counted[g] = IF g \in ended THEN 1 ELSE 0
      BY <2>1, <2>2 DEF Settled
    <3>2. CASE Metrics!Counts(r) BY <2>3, <2>4, <2>6, <2>7, <3>1, <3>2 DEF Settled
    <3>3. CASE ~Metrics!Counts(r) BY <2>3, <2>4, <2>6, <2>7, <3>1, <3>3 DEF Settled
    <3> QED BY <3>2, <3>3
  <2>9. Slack(work[h].room)' BY <2>1, <2>3, <2>5, <2>6 DEF Slack
  <2>10. ~Marred(work[h].room.game)' =>
           /\ Metrics!Counts(work[h].room)' => work'[h].room.game \in ended'
           /\ work'[h].room.game \in ended' => Over(work'[h].room.status)
    BY <2>3, <2>4, <2>5, <2>6, <2>7
  <2>11. Owes(h)' BY <2>1, <2>3, <2>8, <2>9, <2>10 DEF Owes
  <2>12. Working(h)' BY <2>3, <2>11 DEF Working
  <2>13. Bounded' BY <2>1, <2>2, BoundStays
  <2> QED BY <2>2, <2>3, <2>12, <2>13, OrderAfterMove
<1>7. ASSUME NEW h \in Handler, Metrics!SaveFails(h) PROVE Orderly'
  <2> PICK r : r = work[h].room OBVIOUS
  <2>1. /\ work[h].step = "save" /\ Metrics!Over(h)
        /\ UNCHANGED <<tracked, roomState, counted, used, failures>>
    BY <1>7 DEF Metrics!SaveFails
  <2>2. /\ Bounded /\ Synced /\ StoredReported /\ Holds(h) /\ Settled({})
        /\ \A g \in Handler \ {h} : work[g] = Metrics!Idle
    BY <2>1, WorksAlone DEF Working
  <2>3. work'[h] = Metrics!Idle /\ \A f \in Handler \ {h} : work'[f] = work[f]
    BY <2>1, JobEnds DEF MetricsTypes
  <2>4. Bounded' BY <2>1, <2>2, BoundStays
  <2>5. CASE UNCHANGED <<stored, ended, unreported>>
    BY <2>1, <2>2, <2>3, <2>4, <2>5, BooksStay, OrderAfterMove
  <2>6. CASE stored' = r /\ Metrics!Ends(h) /\ unreported' = unreported \cup {r.game}
    <3>1. \A g \in Game \ {r.game} : g \in ended' <=> g \in ended
      BY <2>2, <2>6, EndsOnce
    <3>2. Slack(r) BY <2>2 DEF Holds
    <3>3. Marred(r.game)' /\ \A g : Marred(g) => Marred(g)' BY <2>1, <2>6 DEF Marred
    <3>4. Slack(stored)' BY <2>1, <2>6, <3>2 DEF Slack, Metrics!Counts
    <3>5. StoredReported' BY <2>6, <3>3, <3>4 DEF StoredReported
    <3>6. Settled({})' BY <2>1, <2>2, <3>1, <3>3 DEF Settled
    <3>7. Synced' BY <2>1, <2>2 DEF Synced
    <3> QED BY <2>2, <2>3, <2>4, <3>5, <3>6, <3>7, OrderAfterMove
  <2> QED BY <1>7, <2>5, <2>6 DEF Metrics!SaveFails
<1>8. ASSUME NEW h \in Handler, Metrics!TrackRoom(h) PROVE Orderly'
  <2>1. /\ work[h].step = "track" /\ tracked' = TRUE /\ Metrics!GoOn(h, "report")
        /\ UNCHANGED <<stored, roomState, counted, used, ended, failures, unreported>>
    BY <1>8 DEF Metrics!TrackRoom
  <2>2. Bounded /\ Owes(h) /\ \A g \in Handler \ {h} : work[g] = Metrics!Idle
    BY <2>1, WorksAlone DEF Working
  <2>3. /\ work'[h].step = "report" /\ work'[h].room = work[h].room /\ work'[h] # Metrics!Idle
        /\ \A f \in Handler \ {h} : work'[f] = work[f]
    BY <2>1, JobGoesOn DEF MetricsTypes, Metrics!Step
  <2>4. Owes(h)' BY <2>1, <2>2, <2>3 DEF Owes, Settled, Marred, Slack, Metrics!Counts
  <2>5. Working(h)' BY <2>1, <2>3, <2>4 DEF Working
  <2>6. Bounded' BY <2>1, <2>2, BoundStays
  <2> QED BY <2>2, <2>3, <2>5, <2>6, OrderAfterMove
<1>9. ASSUME NEW h \in Handler, Metrics!Report(h) PROVE Orderly'
  <2> PICK r : r = work[h].room OBVIOUS
  <2>1. /\ work[h].step = "report" /\ Metrics!UpdateRoom(r) /\ Metrics!Over(h)
        /\ UNCHANGED <<stored, tracked, used, ended, failures, unreported>>
    BY <1>9 DEF Metrics!Report
  <2>2. Bounded /\ tracked /\ Owes(h) /\ \A g \in Handler \ {h} : work[g] = Metrics!Idle
    BY <2>1, WorksAlone DEF Working
  <2>3. r \in Metrics!Room /\ r.game \in used BY <2>1 DEF MetricsTypes, Job
  <2>4. /\ roomState' = r
        /\ counted' = IF Metrics!Counts(r) THEN [counted EXCEPT ![r.game] = @ + 1] ELSE counted
    BY <2>1, <2>3, ReportShows
  <2>5. work'[h] = Metrics!Idle /\ \A f \in Handler \ {h} : work'[f] = work[f]
    BY <2>1, JobEnds DEF MetricsTypes
  <2>6. Synced' BY <2>1, <2>2, <2>3, <2>4, NoneIsNoRoom DEF Synced
  <2>7. StoredReported'
    <3>1. /\ stored \in {Metrics!None, r} /\ Slack(r)
          /\ ~Marred(r.game) => (r.game \in ended => Over(r.status))
      BY <2>2 DEF Owes
    <3>2. Slack(r)' /\ (Marred(r.game)' <=> Marred(r.game))
      BY <2>1, <2>2, <2>3, <2>4, <3>1, ReportSettles DEF Marred
    <3> QED BY <2>1, <2>4, <3>1, <3>2 DEF StoredReported, Slack
  <2>8. Settled({})'
    <3>1. /\ Settled(IF Metrics!Counts(r) THEN {r.game} ELSE {})
          /\ ~Marred(r.game) => (Metrics!Counts(r) => r.game \in ended)
      BY <2>2 DEF Owes
    <3>2. r.game \in Game BY <2>3 DEF Metrics!Room
    <3>3. \A g : Marred(g)' <=> Marred(g) BY <2>1 DEF Marred
    <3>4. CASE Metrics!Counts(r) BY <2>1, <2>4, <3>1, <3>2, <3>3, <3>4 DEF Settled, MetricsTypes
    <3>5. CASE ~Metrics!Counts(r) BY <2>1, <2>4, <3>1, <3>3, <3>5 DEF Settled
    <3> QED BY <3>4, <3>5
  <2>9. Bounded'
    <3>1. Slack(r) BY <2>2 DEF Owes
    <3> QED BY <2>1, <2>2, <2>3, <2>4, <3>1, ReportSettles
  <2> QED BY <2>2, <2>5, <2>6, <2>7, <2>8, <2>9, OrderAfterMove
<1>10. ASSUME NEW h \in Handler, Metrics!ReportLast(h) PROVE Orderly'
  <2> DEFINE r == work[h].room
  <2>1. /\ work[h].step = "close" /\ Metrics!UpdateRoom(r) /\ Metrics!Ends(h)
        /\ Metrics!GoOn(h, "drop") /\ UNCHANGED <<stored, used, failures, unreported>>
    BY <1>10 DEF Metrics!ReportLast
  <2>2. /\ Bounded /\ Holds(h) /\ Closes(h) /\ Settled({})
        /\ \A g \in Handler \ {h} : work[g] = Metrics!Idle
    BY <2>1, WorksAlone DEF Working
  <2>3. r \in Metrics!Room /\ r.game \in Game /\ r.game \in used
    BY <2>1 DEF MetricsTypes, Job, Metrics!Room
  <2>4. /\ roomState' = r
        /\ counted' = IF Metrics!Counts(r) THEN [counted EXCEPT ![r.game] = @ + 1] ELSE counted
    BY <2>1, <2>3, ReportShows
  <2>5. /\ \A g \in Game \ {r.game} : g \in ended' <=> g \in ended
        /\ ~Marred(r.game) => IF Metrics!Counts(r)
                              THEN r.game \notin ended /\ ended' = ended \cup {r.game}
                              ELSE ended' = ended
    BY <2>1, <2>2, EndsOnce
  <2>6. /\ work'[h].step = "drop" /\ work'[h].room = r /\ work'[h] # Metrics!Idle
        /\ \A f \in Handler \ {h} : work'[f] = work[f]
    BY <2>1, JobGoesOn DEF MetricsTypes, Metrics!Step
  <2>7. Slack(r) /\ (stored # Metrics!None => stored.game = r.game)
    BY <2>2 DEF Holds, Closes
  <2> HIDE DEF r
  <2>8. \A g : Marred(g)' <=> Marred(g) BY <2>1 DEF Marred
  <2>9. Settled({})'
    <3>1. CASE Metrics!Counts(r)
      BY <2>2, <2>3, <2>4, <2>5, <2>8, <3>1 DEF Settled, MetricsTypes
    <3>2. CASE ~Metrics!Counts(r)
      BY <2>2, <2>4, <2>5, <2>8, <3>2 DEF Settled
    <3> QED BY <3>1, <3>2
  <2>10. Bounded' BY <2>1, <2>2, <2>3, <2>4, <2>7, ReportSettles
  <2>11. Closes(h)' BY <2>1, <2>6, <2>7 DEF Closes
  <2>12. Working(h)' BY <2>4, <2>6, <2>9, <2>11 DEF Working
  <2> QED BY <2>2, <2>6, <2>10, <2>12, OrderAfterMove
<1>11. ASSUME NEW h \in Handler, Metrics!Drop(h) PROVE Orderly'
  <2>1. /\ work[h].step = "drop" /\ stored' = Metrics!None /\ Metrics!GoOn(h, "untrack")
        /\ UNCHANGED <<tracked, counted, used, ended, failures, unreported>>
    BY <1>11 DEF Metrics!Drop
  <2>2. Bounded /\ Settled({}) /\ \A g \in Handler \ {h} : work[g] = Metrics!Idle
    BY <2>1, WorksAlone DEF Working
  <2>3. /\ work'[h].step = "untrack" /\ work'[h] # Metrics!Idle
        /\ \A f \in Handler \ {h} : work'[f] = work[f]
    BY <2>1, JobGoesOn DEF MetricsTypes, Metrics!Step
  <2>4. Settled({})' /\ Bounded' BY <2>1, <2>2, BoundStays DEF Settled, Marred
  <2>5. Working(h)' BY <2>1, <2>3, <2>4 DEF Working
  <2> QED BY <2>2, <2>3, <2>4, <2>5, OrderAfterMove
<1>16. ASSUME NEW h \in Handler, Metrics!DropFails(h) PROVE Orderly'
  <2> PICK g : g = work[h].room.game OBVIOUS
  <2>1. /\ work[h].step = "drop" /\ stored' \in {stored, Metrics!None} /\ Metrics!Over(h)
        /\ failures' = [failures EXCEPT ![g] = @ + 1]
        /\ UNCHANGED <<tracked, roomState, counted, used, ended, unreported>>
    BY <1>16 DEF Metrics!DropFails
  <2>2. /\ Bounded /\ roomState = work[h].room /\ Closes(h) /\ Settled({})
        /\ \A f \in Handler \ {h} : work[f] = Metrics!Idle
    BY <2>1, WorksAlone DEF Working
  <2>3. work[h].room # Metrics!None /\ g \in Game BY <2>1 DEF MetricsTypes
  <2>4. work'[h] = Metrics!Idle /\ \A f \in Handler \ {h} : work'[f] = work[f]
    BY <2>1, JobEnds DEF MetricsTypes
  <2>5. roomState' # Metrics!None /\ roomState'.game = g
        /\ (stored' # Metrics!None => stored' = stored /\ stored.game = g)
    BY <2>1, <2>2, <2>3 DEF Closes
  <2>6. /\ failures'[g] = failures[g] + 1 /\ failures[g] \in Nat /\ counted[g] \in Nat
        /\ \A f \in Game \ {g} : failures'[f] = failures[f]
    BY <2>1, <2>3 DEF MetricsTypes
  <2>7. Marred(g)' /\ \A f \in Game : Marred(f) => Marred(f)' BY <2>1, <2>6 DEF Marred
  <2>8. Bounded' BY <2>1, <2>2, <2>6 DEF Bounded, MetricsTypes
  <2>9. counted'[g] <= failures'[g] BY <2>1, <2>2, <2>3, <2>6 DEF Bounded
  <2>10. StoredReported' BY <2>5, <2>7, <2>9 DEF StoredReported, Slack
  <2>11. Synced' BY <2>5, <2>6 DEF Synced
  <2>12. Settled({})' BY <2>1, <2>2, <2>7 DEF Settled
  <2> QED BY <2>2, <2>4, <2>8, <2>10, <2>11, <2>12, OrderAfterMove
<1>12. ASSUME NEW h \in Handler, Metrics!UntrackRoom(h) PROVE Orderly'
  <2>1. /\ work[h].step = "untrack" /\ tracked' = FALSE /\ Metrics!GoOn(h, "forget")
        /\ UNCHANGED <<stored, counted, used, ended, failures, unreported>>
    BY <1>12 DEF Metrics!UntrackRoom
  <2>2. /\ Bounded /\ stored = Metrics!None /\ Settled({})
        /\ \A g \in Handler \ {h} : work[g] = Metrics!Idle
    BY <2>1, WorksAlone DEF Working
  <2>3. /\ work'[h].step = "forget" /\ work'[h] # Metrics!Idle
        /\ \A f \in Handler \ {h} : work'[f] = work[f]
    BY <2>1, JobGoesOn DEF MetricsTypes, Metrics!Step
  <2>4. Settled({})' /\ Bounded' BY <2>1, <2>2, BoundStays DEF Settled, Marred
  <2>5. Working(h)' BY <2>1, <2>2, <2>3, <2>4 DEF Working
  <2> QED BY <2>2, <2>3, <2>4, <2>5, OrderAfterMove
<1>13. ASSUME NEW h \in Handler, Metrics!Forget(h) PROVE Orderly'
  <2>1. /\ work[h].step = "forget" /\ Metrics!DeleteRoom /\ Metrics!Over(h)
        /\ UNCHANGED <<stored, tracked, used, ended, failures, unreported>>
    BY <1>13 DEF Metrics!Forget
  <2>2. /\ Bounded /\ stored = Metrics!None /\ ~tracked /\ Settled({})
        /\ \A g \in Handler \ {h} : work[g] = Metrics!Idle
    BY <2>1, WorksAlone DEF Working
  <2>3. roomState' = Metrics!None /\ UNCHANGED counted BY <2>1, RemovalArchives
  <2>4. work'[h] = Metrics!Idle /\ \A f \in Handler \ {h} : work'[f] = work[f]
    BY <2>1, JobEnds DEF MetricsTypes
  <2>5. Synced' /\ StoredReported' /\ Settled({})'
    BY <2>1, <2>2, <2>3 DEF Synced, StoredReported, Settled, Marred
  <2>6. Bounded' BY <2>1, <2>2, <2>3, BoundStays
  <2> QED BY <2>2, <2>4, <2>5, <2>6, OrderAfterMove
<1>14. CASE Metrics!Expire
  <2>1. stored' = Metrics!None /\ UNCHANGED <<tracked, work, roomState, counted, used, ended, failures, unreported>>
    BY <1>14 DEF Metrics!Expire
  <2>2. (Synced => Synced') /\ StoredReported' /\ \A owed : Settled(owed) => Settled(owed)'
    BY <2>1 DEF Synced, StoredReported, Settled, Marred
  <2>3. ASSUME NEW h \in Handler, Working(h) PROVE Working(h)'
    <3>1. /\ (Holds(h) => Holds(h)') /\ (Owes(h) => Owes(h)') /\ Closes(h)'
      BY <2>1, <2>2 DEF Holds, Owes, Closes, Slack, Marred, Metrics!Counts
    <3> QED BY <2>1, <2>2, <2>3, <3>1 DEF Working
  <2>4. Bounded' BY <2>1, BoundStays DEF Orderly
  <2> QED BY <2>1, <2>2, <2>3, <2>4 DEF Orderly, Metrics!Rest
<1>15. CASE Metrics!Restart
  <2>1. /\ work' = [h \in Handler |-> Metrics!Idle] /\ ended' = {}
        /\ counted' = [g \in Game |-> 0] /\ failures' = [g \in Game |-> 0] /\ unreported' = {}
        /\ UNCHANGED <<stored, used>>
        /\ \/ stored # Metrics!None /\ tracked' = TRUE /\ roomState' = stored
           \/ tracked' = FALSE /\ roomState' = Metrics!None
    BY <1>15 DEF Metrics!Restart
  <2>2. Synced' /\ Settled({})' /\ Bounded'
    BY <2>1 DEF Synced, Settled, Bounded
  <2>3. stored # Metrics!None => stored.game \in Game BY DEF MetricsTypes
  <2>4. StoredReported' BY <2>1, <2>3 DEF StoredReported, Slack
  <2> QED BY <2>1, <2>2, <2>4 DEF Orderly
<1> QED BY <1>1, <1>3, <1>4, <1>5, <1>6, <1>7, <1>8, <1>9, <1>10, <1>11, <1>12, <1>13, <1>14, <1>15, <1>16
        DEF Metrics!Next

LEMMA MetricsKept ==
  ASSUME MetricsInvariant, [Metrics!Next]_Metrics!metricsVars
  PROVE  MetricsInvariant'
<1>1. MetricsTypes' /\ OneSeries' BY MetricsTypesKept DEF MetricsInvariant
<1>2. CASE UNCHANGED Metrics!metricsVars
  <2>1. UNCHANGED <<stored, tracked, work, roomState, counted, used, ended, failures, unreported,
                    overlap>>
    BY <1>2 DEF Metrics!metricsVars, Metrics!store, Metrics!metrics, Metrics!faults
  <2>2. Orderly => Orderly'
    BY <2>1 DEF Orderly, Metrics!Rest, Working, Holds, Owes, Closes, Synced, StoredReported, Settled,
                Bounded, Slack, Marred, Metrics!Counts
  <2> QED BY <1>1, <2>1, <2>2 DEF MetricsInvariant
<1>3. CASE Metrics!Next
  <2>1. UNCHANGED overlap
    BY <1>3 DEF Metrics!Next, Metrics!CreateRoom, Metrics!Change, Metrics!Leave, Metrics!FindGone,
                Metrics!SaveRoom, Metrics!SaveFails, Metrics!TrackRoom, Metrics!Report,
                Metrics!ReportLast, Metrics!Drop, Metrics!DropFails, Metrics!UntrackRoom, Metrics!Forget,
                Metrics!Expire, Metrics!Restart
  <2> QED BY <1>1, <1>3, <2>1, OrderlyKept DEF MetricsInvariant
<1> QED BY <1>2, <1>3

\* While handlers do not overlap, a code in activeRooms is in the gauge of rooms, after a
\* restart or the loss of the record too, and one in the gauge is in activeRooms or a
\* deletion of that room failed (metrics.go 62, 203-226, service.go 672-683).
THEOREM GaugeIsTracked == Spec => []ActiveRoomsAreTracked
<1>1. Metrics!Init => MetricsInvariant BY MetricsInitially
<1>2. MetricsInvariant /\ [Metrics!Next]_Metrics!metricsVars => MetricsInvariant' BY MetricsKept
<1>3. MetricsInvariant => ActiveRoomsAreTracked
  BY DEF MetricsInvariant, Orderly, Synced, ActiveRoomsAreTracked, Metrics!ActiveRoomsAreTracked,
         Metrics!ActiveRooms
<1> QED BY <1>1, <1>2, <1>3, MetricsBehave, PTL DEF Metrics!Spec

\* While handlers do not overlap, a game that ended is in the counter of finished games
\* once and no other game is, except where Redis failed on its room; and no game is
\* counted more often than once and once for each failed deletion (metrics.go 70,
\* 138-140, service.go 672-683).
THEOREM FinishedAreCounted == Spec => []FinishedCountedOnce
<1>1. Metrics!Init => MetricsInvariant BY MetricsInitially
<1>2. MetricsInvariant /\ [Metrics!Next]_Metrics!metricsVars => MetricsInvariant' BY MetricsKept
<1>3. MetricsInvariant => FinishedCountedOnce
  BY DEF MetricsInvariant, MetricsTypes, Orderly, Settled, Bounded, Marred, FinishedCountedOnce,
         Metrics!FinishedCountedOnce
<1> QED BY <1>1, <1>2, <1>3, MetricsBehave, PTL DEF Metrics!Spec

-----------------------------------------------------------------------------
(* The machine plays the move it drew, and draws by weight.                *)

PromotionPieces == {"queen", "rook", "bishop", "knight"}
MoveOf(p) == [pair : {p}, promo : PromotionPieces \cup {Bot!NoPiece}, tags : SUBSET Bot!Tags]

\* Two moves of one pair of squares are promotions, to different pieces.
ToldApart(s) ==
  \A i, j \in DOMAIN s : i # j /\ s[i].pair = s[j].pair =>
    {s[i].promo, s[j].promo} \subseteq PromotionPieces /\ s[i].promo # s[j].promo

LegalShape ==
  /\ Len(legal) \in 1..8 /\ DOMAIN legal = 1..Len(legal)
  /\ \A i \in DOMAIN legal : legal[i].promo \in PromotionPieces \cup {Bot!NoPiece}
  /\ ToldApart(legal)

BotInvariant ==
  /\ LegalShape
  /\ \/ turn = Bot!Asked
     \/ /\ turn.step = "found"
        /\ \E i \in DOMAIN legal : /\ turn.move = legal[i] /\ turn.pair = legal[i].pair
                                   /\ turn.letter = Bot!Letter(legal[i].promo)
     \/ turn.step = "answered" /\ turn.played = [step |-> "played", move |-> turn.drawn]

\* A pair of squares carries no move, one, or the four promotions.
LEMMA MovesOfPair ==
  ASSUME NEW p, NEW s \in Bot!MovesOf(p)
  PROVE  /\ s \in Seq(MoveOf(p)) /\ Len(s) <= 4 /\ ToldApart(s)
<1>1. \/ s = <<>>
      \/ \E tags \in SUBSET Bot!Tags : s = <<Bot!Move(p, Bot!NoPiece, tags)>>
      \/ \E tags \in {{}, {"capture"}}, checking \in {{}, {"queen"}, {"knight"}} :
           s = Bot!Promotions(p, tags, checking)
  BY DEF Bot!MovesOf
<1>2. CASE s = <<>> BY <1>2 DEF ToldApart
<1>3. ASSUME NEW tags \in SUBSET Bot!Tags, s = <<Bot!Move(p, Bot!NoPiece, tags)>>
      PROVE  s \in Seq(MoveOf(p)) /\ Len(s) <= 4 /\ ToldApart(s)
  <2> DEFINE m == Bot!Move(p, Bot!NoPiece, tags)
  <2>1. m \in MoveOf(p) BY DEF Bot!Move, MoveOf
  <2>2. s = <<m>> BY <1>3
  <2> HIDE DEF m
  <2> QED BY <2>1, <2>2 DEF ToldApart
<1>4. ASSUME NEW tags \in {{}, {"capture"}}, NEW checking \in {{}, {"queen"}, {"knight"}},
             s = Bot!Promotions(p, tags, checking)
      PROVE  s \in Seq(MoveOf(p)) /\ Len(s) <= 4 /\ ToldApart(s)
  <2> DEFINE t(i) == tags \cup IF Bot!Pieces[i] \in checking THEN {"check"} ELSE {}
  <2>1. \A i \in 1..4 : t(i) \in SUBSET Bot!Tags BY DEF Bot!Tags
  <2>2. s = [i \in 1..4 |-> Bot!Move(p, Bot!Pieces[i], t(i))] BY <1>4 DEF Bot!Promotions
  <2> HIDE DEF t
  <2>3. /\ Bot!Pieces[1] = "queen" /\ Bot!Pieces[2] = "rook" /\ Bot!Pieces[3] = "bishop"
        /\ Bot!Pieces[4] = "knight"
    BY DEF Bot!Pieces
  <2>4. \A i \in 1..4 : /\ s[i] = [pair |-> p, promo |-> Bot!Pieces[i], tags |-> t(i)]
                        /\ Bot!Pieces[i] \in PromotionPieces
    BY <2>2, <2>3 DEF Bot!Move, PromotionPieces
  <2>5. \A i \in 1..4 : s[i] \in MoveOf(p) /\ s[i].promo = Bot!Pieces[i]
    BY <2>1, <2>4 DEF MoveOf
  <2>6. \A i, j \in 1..4 : i # j => Bot!Pieces[i] # Bot!Pieces[j] BY <2>3
  <2>7. s \in [1..4 -> MoveOf(p)] BY <2>2, <2>5
  <2>8. s \in Seq(MoveOf(p)) /\ Len(s) = 4 /\ DOMAIN s = 1..4
    <3> DEFINE S == MoveOf(p)
    <3>1. s \in [1..4 -> S] BY <2>7
    <3> HIDE DEF S
    <3>2. Seq(S) = UNION {[1..n -> S] : n \in Nat} BY SeqDef
    <3>3. [1..4 -> S] \subseteq Seq(S) BY Zenon, <3>2, 4 \in Nat
    <3>4. s \in Seq(S) BY <3>1, <3>3
    <3>5. Len(s) \in Nat /\ DOMAIN s = 1..Len(s) BY <3>4, LenProperties
    <3>6. DOMAIN s = 1..4 BY <3>1
    <3>7. 4 \in 1..Len(s) /\ (Len(s) # 0 => Len(s) \in 1..4)
      <4>1. 4 \in 1..4 OBVIOUS
      <4>2. Len(s) # 0 => Len(s) \in 1..Len(s) BY <3>5
      <4> QED BY <3>5, <3>6, <4>1, <4>2
    <3>8. Len(s) = 4 BY <3>5, <3>7
    <3> QED BY <3>4, <3>6, <3>8 DEF S
  <2>9. ToldApart(s) BY <2>4, <2>5, <2>6, <2>8 DEF ToldApart
  <2> QED BY <2>8, <2>9
<1> QED BY <1>1, <1>2, <1>3, <1>4

LEMMA LegalAtFirst ==
  ASSUME Bot!Init
  PROVE  LegalShape
<1>1. PICK one \in Bot!MovesOf(OnePair), another \in Bot!MovesOf(AnotherPair) :
        legal = one \o another
  BY DEF Bot!Init
<1>2. /\ one \in Seq(MoveOf(OnePair)) /\ Len(one) <= 4 /\ ToldApart(one)
      /\ another \in Seq(MoveOf(AnotherPair)) /\ Len(another) <= 4 /\ ToldApart(another)
  BY MovesOfPair
<1> DEFINE S == MoveOf(OnePair) \cup MoveOf(AnotherPair)
<1>3. one \in Seq(S) /\ another \in Seq(S) BY <1>2
<1>4. \A m \in S : m.promo \in PromotionPieces \cup {Bot!NoPiece} BY DEF MoveOf
<1>5. (\A m \in MoveOf(OnePair) : m.pair = OnePair) /\ (\A m \in MoveOf(AnotherPair) : m.pair = AnotherPair)
  BY DEF MoveOf
<1> HIDE DEF S
<1>6. /\ legal \in Seq(S) /\ Len(legal) = Len(one) + Len(another)
      /\ \A i \in 1..Len(legal) :
           legal[i] = IF i <= Len(one) THEN one[i] ELSE another[i - Len(one)]
  BY <1>1, <1>3
<1>7. legal # <<>> BY DEF Bot!Init
<1>8. Len(legal) \in 1..8 /\ DOMAIN legal = 1..Len(legal) BY <1>2, <1>6, <1>7
<1>9. \A i \in DOMAIN legal : legal[i].promo \in PromotionPieces \cup {Bot!NoPiece}
  BY <1>4, <1>6, <1>8
<1>10. ToldApart(legal)
  <2> SUFFICES ASSUME NEW i \in DOMAIN legal, NEW j \in DOMAIN legal, i # j,
                      legal[i].pair = legal[j].pair
               PROVE  /\ {legal[i].promo, legal[j].promo} \subseteq PromotionPieces
                      /\ legal[i].promo # legal[j].promo
    BY DEF ToldApart
  <2> DEFINE n == Len(one)
  <2>1. /\ n \in Nat /\ Len(another) \in Nat /\ i \in 1..(n + Len(another))
        /\ j \in 1..(n + Len(another)) /\ DOMAIN one = 1..n /\ DOMAIN another = 1..Len(another)
    BY <1>2, <1>6, <1>8
  <2>2. /\ \A k \in 1..n : one[k].pair = OnePair
        /\ \A k \in 1..Len(another) : another[k].pair = AnotherPair
    BY <1>2, <1>5, <2>1
  <2> HIDE DEF n
  <2>3. CASE i <= n /\ j <= n
    <3>1. i \in DOMAIN one /\ j \in DOMAIN one BY <2>1, <2>3
    <3>2. legal[i] = one[i] /\ legal[j] = one[j] BY <1>6, <1>8, <2>3 DEF n
    <3> QED BY <1>2, <3>1, <3>2 DEF ToldApart
  <2>4. CASE i > n /\ j > n
    <3>1. i - n \in DOMAIN another /\ j - n \in DOMAIN another /\ i - n # j - n BY <2>1, <2>4
    <3>2. legal[i] = another[i - n] /\ legal[j] = another[j - n] BY <1>6, <1>8, <2>1, <2>4 DEF n
    <3> HIDE DEF ToldApart
    <3> QED BY <1>2, <3>1, <3>2 DEF ToldApart
  <2>5. CASE i <= n /\ j > n
    <3>1. legal[i] = one[i] /\ legal[j] = another[j - n] BY <1>6, <1>8, <2>1, <2>5 DEF n
    <3>2. i \in 1..n /\ j - n \in 1..Len(another) BY <2>1, <2>5
    <3> QED BY <2>2, <3>1, <3>2, PairsAssumption
  <2>6. CASE i > n /\ j <= n
    <3>1. legal[i] = another[i - n] /\ legal[j] = one[j] BY <1>6, <1>8, <2>1, <2>6 DEF n
    <3>2. i - n \in 1..Len(another) /\ j \in 1..n BY <2>1, <2>6
    <3> QED BY <2>2, <3>1, <3>2, PairsAssumption
  <2> QED BY <2>1, <2>3, <2>4, <2>5, <2>6
<1> QED BY <1>8, <1>9, <1>10 DEF LegalShape

\* The name of a legal move, its letter read as a queen when there is none, fits that
\* move and no other.
LEMMA NameFitsOne ==
  ASSUME LegalShape, NEW i \in DOMAIN legal, NEW j \in DOMAIN legal
  PROVE  Bot!Fits(legal[j], legal[i].pair, Bot!PromotionOrDefault(Bot!Letter(legal[i].promo)))
         <=> j = i
<1> DEFINE m == legal[i]
           x == legal[j]
           l == Bot!Letter(m.promo)
           k == Bot!Letter(x.promo)
<1>1. m.promo \in PromotionPieces \cup {Bot!NoPiece} /\ x.promo \in PromotionPieces \cup {Bot!NoPiece}
  BY DEF LegalShape
<1>2. \A p \in PromotionPieces \cup {Bot!NoPiece} :
        Bot!Letter(p) = IF p = "queen" THEN "q" ELSE IF p = "rook" THEN "r"
                        ELSE IF p = "bishop" THEN "b" ELSE IF p = "knight" THEN "n" ELSE ""
  BY DEF Bot!Letter, PromotionPieces, Bot!NoPiece
<1>3. i # j /\ x.pair = m.pair =>
        {m.promo, x.promo} \subseteq PromotionPieces /\ m.promo # x.promo
  BY DEF LegalShape, ToldApart
<1>4. Bot!Fits(x, m.pair, Bot!PromotionOrDefault(l))
      <=> x.pair = m.pair /\ (k = (IF l = "" THEN "q" ELSE l) \/ ((l = "" \/ l = "q") /\ k = ""))
  BY DEF Bot!Fits, Bot!PromotionOrDefault
<1>5. CASE i = j BY <1>4, <1>5
<1>6. CASE i # j /\ x.pair # m.pair BY <1>4, <1>6
<1>7. CASE i # j /\ x.pair = m.pair
  <2>1. /\ m.promo \in PromotionPieces /\ x.promo \in PromotionPieces /\ m.promo # x.promo
    BY <1>3, <1>7
  <2>2. l # "" /\ k # "" /\ l # k
    BY <1>2, <2>1 DEF PromotionPieces
  <2> QED BY <1>4, <1>7, <2>2
<1> QED BY <1>5, <1>6, <1>7

\* What is named is played.
LEMMA NamedIsPlayed ==
  ASSUME LegalShape, NEW i \in DOMAIN legal
  PROVE  Bot!SelectMove(legal[i].pair, Bot!PromotionOrDefault(Bot!Letter(legal[i].promo)))
         = [step |-> "played", move |-> legal[i]]
<1> DEFINE l == Bot!PromotionOrDefault(Bot!Letter(legal[i].promo))
           fit == {j \in DOMAIN legal : Bot!Fits(legal[j], legal[i].pair, l)}
<1>1. fit = {i} BY NameFitsOne
<1>2. i \in Nat BY DEF LegalShape
<1>3. (CHOOSE j \in {i} : \A k \in {i} : j <= k) = i BY <1>2
<1>4. Bot!SelectMove(legal[i].pair, l)
      = IF fit = {} THEN [step |-> "invalid"]
        ELSE [step |-> "played", move |-> legal[CHOOSE j \in fit : \A k \in fit : j <= k]]
  BY DEF Bot!SelectMove
<1> HIDE DEF fit, l
<1> QED BY <1>1, <1>3, <1>4 DEF l

\* The weight of a move is above zero, whatever the move.
LEMMA WeightIsPositive ==
  ASSUME NEW m
  PROVE  Bot!Weight(m) \in Nat \ {0}
  BY DEF Bot!Weight

\* The weights of the first n of up to eight moves, added up.
Total(n) ==
    (IF n >= 1 THEN Bot!Weight(legal[1]) ELSE 0)
  + (IF n >= 2 THEN Bot!Weight(legal[2]) ELSE 0)
  + (IF n >= 3 THEN Bot!Weight(legal[3]) ELSE 0)
  + (IF n >= 4 THEN Bot!Weight(legal[4]) ELSE 0)
  + (IF n >= 5 THEN Bot!Weight(legal[5]) ELSE 0)
  + (IF n >= 6 THEN Bot!Weight(legal[6]) ELSE 0)
  + (IF n >= 7 THEN Bot!Weight(legal[7]) ELSE 0)
  + (IF n >= 8 THEN Bot!Weight(legal[8]) ELSE 0)

LEMMA TotalGrows ==
  /\ Total(0) = 0
  /\ \A n \in 1..8 : Total(n) = Total(n - 1) + Bot!Weight(legal[n])
  /\ \A n \in 0..8 : Total(n) \in Nat
  /\ \A m, n \in 0..8 : m <= n => Total(m) <= Total(n)
<1> DEFINE w(k) == Bot!Weight(legal[k])
<1>1. /\ w(1) \in Nat /\ w(2) \in Nat /\ w(3) \in Nat /\ w(4) \in Nat
      /\ w(5) \in Nat /\ w(6) \in Nat /\ w(7) \in Nat /\ w(8) \in Nat
  BY WeightIsPositive
<1>2. \A n : Total(n) = (IF n >= 1 THEN w(1) ELSE 0) + (IF n >= 2 THEN w(2) ELSE 0)
                      + (IF n >= 3 THEN w(3) ELSE 0) + (IF n >= 4 THEN w(4) ELSE 0)
                      + (IF n >= 5 THEN w(5) ELSE 0) + (IF n >= 6 THEN w(6) ELSE 0)
                      + (IF n >= 7 THEN w(7) ELSE 0) + (IF n >= 8 THEN w(8) ELSE 0)
  BY DEF Total
<1> HIDE DEF w
<1>3. /\ Total(0) = 0
      /\ Total(1) = Total(0) + w(1)
      /\ Total(2) = Total(1) + w(2)
      /\ Total(3) = Total(2) + w(3)
      /\ Total(4) = Total(3) + w(4)
      /\ Total(5) = Total(4) + w(5)
      /\ Total(6) = Total(5) + w(6)
      /\ Total(7) = Total(6) + w(7)
      /\ Total(8) = Total(7) + w(8)
      /\ \A n \in 0..8 : Total(n) \in Nat
  <2>1. Total(0) = 0 /\ Total(1) = w(1) /\ Total(2) = w(1) + w(2) BY <1>1, <1>2
  <2>2. Total(3) = Total(2) + w(3) /\ Total(4) = Total(3) + w(4) BY <1>1, <1>2
  <2>3. Total(5) = Total(4) + w(5) /\ Total(6) = Total(5) + w(6) BY <1>1, <1>2
  <2>4. Total(7) = Total(6) + w(7) /\ Total(8) = Total(7) + w(8) BY <1>1, <1>2
  <2>5. Total(1) = Total(0) + w(1) BY <1>1, <2>1
  <2>6. \A n \in 0..8 : Total(n) \in Nat BY <1>1, <1>2
  <2> QED BY <1>1, <2>1, <2>2, <2>3, <2>4, <2>5, <2>6
<1>4. \A n \in 1..8 : Total(n) = Total(n - 1) + w(n) BY <1>3
<1>5. \A m, n \in 0..8 : m <= n => Total(m) <= Total(n) BY <1>1, <1>3
<1> QED BY <1>3, <1>4, <1>5 DEF w

\* UpTo adds up the weights.
LEMMA UpToIsTotal ==
  ASSUME NEW n \in 0..8
  PROVE  Bot!UpTo(n) = Total(n)
<1> DEFINE Adds(f) == f = [i \in 0..n |-> IF i = 0 THEN 0 ELSE f[i - 1] + Bot!Weight(legal[i])]
           g == CHOOSE f : Adds(f)
<1>1. Adds([i \in 0..n |-> Total(i)])
  <2> DEFINE f == [i \in 0..n |-> Total(i)]
  <2>1. \A i \in 0..n : i # 0 => i - 1 \in 0..n /\ i \in 1..8 OBVIOUS
  <2>2. \A i \in 0..n : i # 0 => f[i - 1] = Total(i - 1) BY <2>1
  <2>3. \A i \in 0..n : Total(i) = IF i = 0 THEN 0 ELSE f[i - 1] + Bot!Weight(legal[i])
    BY <2>1, <2>2, TotalGrows
  <2> QED BY <2>3
<1>2. Adds(g) BY <1>1
<1>3. \A i \in 0..n : g[i] = IF i = 0 THEN 0 ELSE g[i - 1] + Bot!Weight(legal[i]) BY <1>2
<1>4. Bot!UpTo(n) = g[n] BY DEF Bot!UpTo
<1> HIDE DEF g, Adds
<1>5. g[0] = Total(0) BY <1>3, TotalGrows
<1>6. \A k \in 1..8 : k <= n /\ g[k - 1] = Total(k - 1) => g[k] = Total(k)
  BY <1>3, TotalGrows
<1>7. 1 <= n => g[1] = Total(1) BY <1>5, <1>6, 1 \in 1..8 /\ 1 - 1 = 0
<1>8. 2 <= n => g[2] = Total(2) BY <1>6, <1>7, 2 \in 1..8 /\ 2 - 1 = 1
<1>9. 3 <= n => g[3] = Total(3) BY <1>6, <1>8, 3 \in 1..8 /\ 3 - 1 = 2
<1>10. 4 <= n => g[4] = Total(4) BY <1>6, <1>9, 4 \in 1..8 /\ 4 - 1 = 3
<1>11. 5 <= n => g[5] = Total(5) BY <1>6, <1>10, 5 \in 1..8 /\ 5 - 1 = 4
<1>12. 6 <= n => g[6] = Total(6) BY <1>6, <1>11, 6 \in 1..8 /\ 6 - 1 = 5
<1>13. 7 <= n => g[7] = Total(7) BY <1>6, <1>12, 7 \in 1..8 /\ 7 - 1 = 6
<1>14. 8 <= n => g[8] = Total(8) BY <1>6, <1>13, 8 \in 1..8 /\ 8 - 1 = 7
<1> QED BY <1>4, <1>5, <1>7, <1>8, <1>9, <1>10, <1>11, <1>12, <1>13, <1>14

\* A roll falls in the share of one move.
LEMMA RollFallsInAShare ==
  ASSUME NEW n \in 1..8, NEW roll \in 0 .. (Total(n) - 1)
  PROVE  \E i \in 1..n : Total(i - 1) <= roll /\ roll < Total(i)
<1> SUFFICES ASSUME \A i \in 1..n : Total(i - 1) <= roll => ~(roll < Total(i))
             PROVE  FALSE
  OBVIOUS
<1>1. roll \in Int /\ 0 <= roll /\ roll < Total(n) /\ Total(0) = 0 /\ \A i \in 0..8 : Total(i) \in Nat
  BY TotalGrows
<1>2. \A k \in 1..n : Total(k - 1) <= roll => Total(k) <= roll
  <2> SUFFICES ASSUME NEW k \in 1..n, Total(k - 1) <= roll PROVE Total(k) <= roll OBVIOUS
  <2>1. ~(roll < Total(k)) /\ Total(k) \in Nat BY <1>1
  <2> QED BY <1>1, <2>1
<1>3. Total(1) <= roll BY <1>1, <1>2, 1 \in 1..n /\ 1 - 1 = 0
<1>4. 2 <= n => Total(2) <= roll BY <1>2, <1>3, 2 <= n => 2 \in 1..n /\ 2 - 1 = 1
<1>5. 3 <= n => Total(3) <= roll BY <1>2, <1>4, 3 <= n => 3 \in 1..n /\ 3 - 1 = 2
<1>6. 4 <= n => Total(4) <= roll BY <1>2, <1>5, 4 <= n => 4 \in 1..n /\ 4 - 1 = 3
<1>7. 5 <= n => Total(5) <= roll BY <1>2, <1>6, 5 <= n => 5 \in 1..n /\ 5 - 1 = 4
<1>8. 6 <= n => Total(6) <= roll BY <1>2, <1>7, 6 <= n => 6 \in 1..n /\ 6 - 1 = 5
<1>9. 7 <= n => Total(7) <= roll BY <1>2, <1>8, 7 <= n => 7 \in 1..n /\ 7 - 1 = 6
<1>10. 8 <= n => Total(8) <= roll BY <1>2, <1>9, 8 <= n => 8 \in 1..n /\ 8 - 1 = 7
<1> QED BY <1>1, <1>3, <1>4, <1>5, <1>6, <1>7, <1>8, <1>9, <1>10

\* A roll draws the move whose share it falls in.
LEMMA DrawnByShare ==
  ASSUME LegalShape, NEW roll \in Bot!Rolls, NEW i \in DOMAIN legal
  PROVE  /\ Bot!Drawn(roll) \in DOMAIN legal
         /\ Bot!Drawn(roll) = i <=> Total(i - 1) <= roll /\ roll < Total(i)
<1> DEFINE n == Len(legal)
           Takes(k) == k \in DOMAIN legal /\ roll < Bot!UpTo(k) /\ \A j \in 1..(k - 1) : roll >= Bot!UpTo(j)
           d == CHOOSE k \in DOMAIN legal : roll < Bot!UpTo(k) /\ \A j \in 1..(k - 1) : roll >= Bot!UpTo(j)
<1>1. n \in 1..8 /\ DOMAIN legal = 1..n BY DEF LegalShape
<1>2. \A k \in 0..8 : Bot!UpTo(k) = Total(k) BY UpToIsTotal
<1>3. roll \in 0 .. (Total(n) - 1) BY <1>1, <1>2 DEF Bot!Rolls
<1>4. roll \in Int /\ 0 <= roll /\ \A k \in 0..8 : Total(k) \in Nat BY <1>1, <1>3, TotalGrows
<1> HIDE DEF n
<1>5. ASSUME NEW k \in 1..n PROVE Takes(k) <=> Total(k - 1) <= roll /\ roll < Total(k)
  <2>1. k \in 1..8 /\ k - 1 \in 0..8 /\ \A j \in 1..(k - 1) : j \in 0..8 BY <1>1
  <2>2. Bot!UpTo(k) = Total(k) /\ \A j \in 1..(k - 1) : Bot!UpTo(j) = Total(j) BY <1>2, <2>1
  <2>3. ASSUME Total(k - 1) <= roll, NEW j \in 1..(k - 1) PROVE roll >= Total(j)
    <3>1. j \in 0..8 /\ k - 1 \in 0..8 /\ j <= k - 1 BY <2>1
    <3>2. Total(j) <= Total(k - 1) BY <3>1, TotalGrows
    <3>3. Total(j) \in Nat /\ Total(k - 1) \in Nat BY <1>4, <3>1
    <3> QED BY <1>4, <2>3, <3>2, <3>3
  <2>4. ASSUME \A j \in 1..(k - 1) : roll >= Total(j) PROVE Total(k - 1) <= roll
    <3>1. CASE k = 1 BY <1>4, <3>1, TotalGrows
    <3>2. CASE k # 1
      <4>1. k - 1 \in 1..(k - 1) BY <2>1, <3>2
      <4>2. roll >= Total(k - 1) BY <2>4, <4>1
      <4> QED BY <1>4, <2>1, <4>2
    <3> QED BY <3>1, <3>2
  <2> QED BY <1>1, <2>2, <2>3, <2>4
<1>6. \E k \in 1..n : Takes(k) BY <1>1, <1>3, <1>5, RollFallsInAShare
<1>7. Takes(d) BY <1>6
<1>8. d \in 1..n /\ Total(d - 1) <= roll /\ roll < Total(d) BY <1>1, <1>5, <1>7
<1>9. Bot!Drawn(roll) = d BY DEF Bot!Drawn
<1> HIDE DEF d, Takes
<1>10. ASSUME Total(i - 1) <= roll, roll < Total(i) PROVE d = i
  <2>1. /\ d \in 1..8 /\ i \in 1..8 /\ d - 1 \in 0..8 /\ i - 1 \in 0..8 BY <1>1, <1>8
  <2>2. CASE d < i
    <3>1. d \in 0..8 /\ i - 1 \in 0..8 /\ d <= i - 1 BY <2>1, <2>2
    <3>2. Total(d) <= Total(i - 1) BY <3>1, TotalGrows
    <3>3. Total(d) \in Nat /\ Total(i - 1) \in Nat BY <1>4, <3>1
    <3> QED BY <1>4, <1>8, <1>10, <3>2, <3>3
  <2>3. CASE i < d
    <3>1. i \in 0..8 /\ d - 1 \in 0..8 /\ i <= d - 1 BY <2>1, <2>3
    <3>2. Total(i) <= Total(d - 1) BY <3>1, TotalGrows
    <3>3. Total(i) \in Nat /\ Total(d - 1) \in Nat BY <1>4, <3>1
    <3> QED BY <1>4, <1>8, <1>10, <3>2, <3>3
  <2> QED BY <2>1, <2>2, <2>3
<1> QED BY <1>1, <1>8, <1>9, <1>10

\* Every legal move is drawn by as many rolls as its weight says.
LEMMA DrawnAsWeighed ==
  ASSUME LegalShape, NEW i \in DOMAIN legal
  PROVE  Cardinality({roll \in Bot!Rolls : Bot!Drawn(roll) = i}) = Bot!Weight(legal[i])
<1> DEFINE n == Len(legal)
           a == Total(i - 1)
           b == Total(i)
<1>1. n \in 1..8 /\ DOMAIN legal = 1..n BY DEF LegalShape
<1>2. i \in 1..8 /\ i - 1 \in 0..8 /\ i \in 0..8 /\ n \in 0..8 /\ i <= n BY <1>1
<1>3. a \in Nat /\ b \in Nat /\ Total(n) \in Nat /\ b <= Total(n) /\ b = a + Bot!Weight(legal[i])
  BY <1>2, TotalGrows
<1>4. Bot!Rolls = 0 .. (Total(n) - 1) BY <1>2, UpToIsTotal DEF Bot!Rolls
<1>5. \A roll \in Bot!Rolls : Bot!Drawn(roll) = i <=> a <= roll /\ roll < b BY DrawnByShare
<1>6. Bot!Weight(legal[i]) \in Nat \ {0} BY WeightIsPositive
<1> HIDE DEF a, b, n
<1>7. {roll \in Bot!Rolls : Bot!Drawn(roll) = i} = a..(b - 1) BY <1>3, <1>4, <1>5
<1>8. Cardinality(a..(b - 1)) = IF a > b - 1 THEN 0 ELSE (b - 1) - a + 1
  <2>1. a \in Int /\ b - 1 \in Int BY <1>3
  <2> QED BY <2>1, FS_Interval
<1>9. a <= b - 1 /\ (b - 1) - a + 1 = Bot!Weight(legal[i]) BY <1>3, <1>6
<1>10. Cardinality(a..(b - 1)) = Bot!Weight(legal[i]) BY <1>3, <1>8, <1>9
<1> QED BY <1>7, <1>10

LEMMA LegalStays ==
  ASSUME LegalShape, UNCHANGED legal
  PROVE  LegalShape'
<1>1. legal' = legal OBVIOUS
<1>2. ToldApart(legal)' BY <1>1 DEF LegalShape, ToldApart
<1>3. \A i \in DOMAIN legal' : legal'[i].promo \in PromotionPieces \cup {Bot!NoPiece}
  BY <1>1 DEF LegalShape
<1>4. Len(legal') \in 1..8 /\ DOMAIN legal' = 1..Len(legal') BY <1>1 DEF LegalShape
<1> QED BY <1>2, <1>3, <1>4 DEF LegalShape

LEMMA BotKept ==
  ASSUME BotInvariant, [Bot!Next]_Bot!turnVars
  PROVE  BotInvariant'
<1>1. CASE UNCHANGED Bot!turnVars
  BY <1>1 DEF Bot!turnVars, BotInvariant, LegalShape, ToldApart
<1>2. CASE Bot!GetAction
  <2>1. PICK roll \in Bot!Rolls :
          turn' = [step |-> "found", roll |-> roll, move |-> legal[Bot!Drawn(roll)],
                   pair |-> legal[Bot!Drawn(roll)].pair,
                   letter |-> Bot!Letter(legal[Bot!Drawn(roll)].promo)]
    BY <1>2 DEF Bot!GetAction
  <2>2. LegalShape /\ UNCHANGED legal BY <1>2 DEF Bot!GetAction, BotInvariant
  <2>3. 1 \in DOMAIN legal BY <2>2 DEF LegalShape
  <2>4. Bot!Drawn(roll) \in DOMAIN legal BY <2>2, <2>3, DrawnByShare
  <2>5. LegalShape' BY <2>2, LegalStays
  <2> QED BY <2>1, <2>2, <2>4, <2>5 DEF BotInvariant
<1>3. CASE Bot!PerformBotMove
  <2>1. /\ turn.step = "found" /\ UNCHANGED legal
        /\ turn' = [step |-> "answered", drawn |-> turn.move, roll |-> turn.roll,
                    played |-> Bot!SelectMove(turn.pair, Bot!PromotionOrDefault(turn.letter))]
    BY <1>3 DEF Bot!PerformBotMove
  <2>2. LegalShape BY DEF BotInvariant
  <2>3. PICK i \in DOMAIN legal : /\ turn.move = legal[i] /\ turn.pair = legal[i].pair
                                  /\ turn.letter = Bot!Letter(legal[i].promo)
    BY <2>1 DEF BotInvariant, Bot!Asked
  <2>4. Bot!SelectMove(turn.pair, Bot!PromotionOrDefault(turn.letter))
        = [step |-> "played", move |-> turn.move]
    BY <2>2, <2>3, NamedIsPlayed
  <2>5. (turn.step = "answered" /\ turn.played = [step |-> "played", move |-> turn.drawn])'
    BY <2>1, <2>4
  <2>6. LegalShape' BY <2>1, <2>2, LegalStays
  <2> QED BY <2>5, <2>6 DEF BotInvariant
<1> QED BY <1>1, <1>2, <1>3 DEF Bot!Next

\* However the move is named between the two services, the move played is the move
\* drawn (selectMove 1072-1093), and over all rolls each legal move is drawn as often as
\* its weight says (easy.go 58-73): none is out of reach.
THEOREM MachinePlaysAsDrawn == Spec => []BotPlaysAsDrawn
<1>1. Bot!Init => BotInvariant BY LegalAtFirst DEF BotInvariant, Bot!Init
<1>2. BotInvariant /\ [Bot!Next]_Bot!turnVars => BotInvariant' BY BotKept
<1>3. BotInvariant => BotPlaysAsDrawn
  <2> SUFFICES ASSUME BotInvariant PROVE BotPlaysAsDrawn OBVIOUS
  <2>1. Bot!DrawnMoveIsPlayed BY DEF BotInvariant, Bot!DrawnMoveIsPlayed, Bot!Asked
  <2>2. Bot!DrawnByWeight
    <3>1. \A S : Bot!Cardinality(S) = Cardinality(S) BY DEF Cardinality, Bot!Cardinality
    <3> QED BY <3>1, DrawnAsWeighed DEF Bot!DrawnByWeight, BotInvariant
  <2> QED BY <2>1, <2>2 DEF BotPlaysAsDrawn, Bot!BotPlaysAsDrawn
<1> QED BY <1>1, <1>2, <1>3, BotBehaves, PTL DEF Bot!Spec
=============================================================================

------------------------------- MODULE SignIn --------------------------------
(***************************************************************************)
(* Entering the portal: the page, Google's answers to it, login-service    *)
(* with its collection of login events and its counter, and the sessions   *)
(* in the browser's storage.  Answers may be lost or late, MongoDB may     *)
(* fail before or after it stores, and login-service may be stopped: its   *)
(* main ends as soon as the listener is closed and does not wait for the   *)
(* handlers that Shutdown waits for.                                       *)
(***************************************************************************)
EXTENDS Naturals, FiniteSets

CONSTANTS User,           \* Google accounts
          Attempt,        \* sign-ins: answers of Google, each with its request
          MaxReloads,     \* bound on reloads of the page
          MaxStops        \* bound on stops of login-service

VARIABLES screen,    \* "home" or "menu"
          auth,      \* authSession of the page: an account, Guest or Nobody
          saved,     \* the one in localStorage
          pending,   \* the page says that it is busy
          popup,     \* accounts with a popup of Google open
          attempt,   \* what has become of each request
          events,    \* events stored: attempt -> how many
          results,   \* login_records_total since the start, result -> attempts
          reloads, stops

pageVars == <<screen, auth, saved, pending, popup>>
serviceVars == <<events, results>>
signInVars == <<pageVars, attempt, serviceVars, reloads, stops>>

Nobody == "nobody"
Guest == "guest"
Results == {"ok", "error", "invalid"}

\* An attempt that is not yet made, and the steps of one that is.
Unmade == [step |-> "unmade"]
At(a) == attempt[a].step
Made == {a \in Attempt : attempt[a] # Unmade}
Moves(a, s) == attempt' = [attempt EXCEPT ![a].step = s]

ResolveInitialScreen(session) == IF session = Nobody THEN "home" ELSE "menu"

NoEvents == [a \in Attempt |-> 0]
NoResults == [r \in Results |-> {}]

Init ==
  /\ screen = "home" /\ auth = Nobody /\ saved = Nobody /\ pending = FALSE /\ popup = {}
  /\ attempt = [a \in Attempt |-> Unmade]
  /\ events = NoEvents /\ results = NoResults
  /\ reloads = 0 /\ stops = 0

-----------------------------------------------------------------------------
(* The page *)

\* The button of Google opens its popup; it cannot be reached while the page is busy.
OpenPopup(u) ==
  /\ screen = "home" /\ ~pending
  /\ popup' = popup \cup {u}
  /\ UNCHANGED <<screen, auth, saved, pending, attempt, serviceVars, reloads, stops>>

\* Google answers, whatever the page shows by then: handleAuthSuccess posts it.
\* An account's profile may be one that login-service refuses.
HandleAuthSuccess(u, a) ==
  /\ u \in popup /\ attempt[a] = Unmade
  /\ popup' = popup \ {u}
  /\ pending' = TRUE
  /\ \E valid \in BOOLEAN :
       attempt' = [attempt EXCEPT ![a] = [step |-> "posted", user |-> u, valid |-> valid, heard |-> TRUE]]
  /\ UNCHANGED <<screen, auth, saved, serviceVars, reloads, stops>>

HandleContinueAsGuest ==
  /\ screen = "home" /\ ~pending
  /\ saved' = Guest /\ auth' = Guest /\ screen' = "menu"
  /\ UNCHANGED <<pending, popup, attempt, serviceVars, reloads, stops>>

\* Its button stays enabled while a sign-in is pending.
HandleLogout ==
  /\ screen = "menu"
  /\ saved' = Nobody /\ auth' = Nobody /\ pending' = FALSE /\ screen' = "home"
  /\ UNCHANGED <<popup, attempt, serviceVars, reloads, stops>>

Enters(u) == saved' = u /\ auth' = u /\ screen' = "menu"

\* (slip) Whatever the service answers, the user is signed in.
SettleAnyway(a) ==
  /\ At(a) \in {"created", "failed", "lost"} /\ attempt[a].heard
  /\ Moves(a, "done") /\ pending' = FALSE
  /\ Enters(attempt[a].user)
  /\ UNCHANGED <<popup, serviceVars, reloads, stops>>

\* persistGoogleLogin returns on 201 and throws on any other answer, or on none.
Settle(a) ==
  /\ At(a) \in {"created", "failed", "lost"} /\ attempt[a].heard
  /\ Moves(a, "done") /\ pending' = FALSE
  /\ IF At(a) = "created" THEN Enters(attempt[a].user) ELSE UNCHANGED <<saved, auth, screen>>
  /\ UNCHANGED <<popup, serviceVars, reloads, stops>>

\* The page is loaded again, also after a game: nobody waits for its requests.
Reload ==
  /\ reloads < MaxReloads /\ reloads' = reloads + 1
  /\ auth' = saved /\ screen' = ResolveInitialScreen(saved) /\ pending' = FALSE /\ popup' = {}
  /\ attempt' = [a \in Attempt |-> IF attempt[a] = Unmade THEN Unmade
                                   ELSE [attempt[a] EXCEPT !.heard = FALSE]]
  /\ UNCHANGED <<saved, serviceVars, stops>>

-----------------------------------------------------------------------------
(* login-service *)

Observe(a, result) == results' = [results EXCEPT ![result] = @ \cup {a}]

\* decodeLoginRequest: a payload it refuses is answered 400.
DecodeLoginRequest(a) ==
  /\ At(a) = "posted"
  /\ IF attempt[a].valid THEN Moves(a, "decoded") /\ UNCHANGED results
     ELSE Observe(a, "invalid") /\ Moves(a, "failed")
  /\ UNCHANGED <<pageVars, events, reloads, stops>>

\* (slip) The error of the insert is dropped.
RecordLoginUnchecked(a) ==
  /\ At(a) = "decoded"
  /\ \E stored \in BOOLEAN :
       events' = IF stored THEN [events EXCEPT ![a] = @ + 1] ELSE events
  /\ Moves(a, "recorded")
  /\ UNCHANGED <<pageVars, results, reloads, stops>>

\* RecordLogin: MongoDB stores the event and says so, or stores it and does not say so
\* in time, or fails.
RecordLogin(a) ==
  /\ At(a) = "decoded"
  /\ \E stored, says \in BOOLEAN :
       /\ says => stored
       /\ events' = IF stored THEN [events EXCEPT ![a] = @ + 1] ELSE events
       /\ Moves(a, IF says THEN "recorded" ELSE "unrecorded")
  /\ UNCHANGED <<pageVars, results, reloads, stops>>

\* The attempt is counted, and answered 201 or 503.
Answer(a) ==
  /\ At(a) \in {"recorded", "unrecorded"}
  /\ IF At(a) = "recorded" THEN Observe(a, "ok") /\ Moves(a, "created")
     ELSE Observe(a, "error") /\ Moves(a, "failed")
  /\ UNCHANGED <<pageVars, events, reloads, stops>>

\* The request or its answer is lost between the page and the service.
Lose(a) ==
  /\ At(a) \in {"posted", "created", "failed"} /\ Moves(a, "lost")
  /\ UNCHANGED <<pageVars, serviceVars, reloads, stops>>

\* SIGTERM: the process ends under its handlers, and the counter begins anew.
Stop ==
  /\ stops < MaxStops /\ stops' = stops + 1
  /\ results' = NoResults
  /\ attempt' = [a \in Attempt |-> IF At(a) \in {"decoded", "recorded", "unrecorded"}
                                   THEN [attempt[a] EXCEPT !.step = "lost"] ELSE attempt[a]]
  /\ UNCHANGED <<pageVars, events, reloads>>

Next ==
  \/ \E u \in User : OpenPopup(u)
  \/ \E u \in User, a \in Attempt : HandleAuthSuccess(u, a)
  \/ HandleContinueAsGuest \/ HandleLogout \/ Reload \/ Stop
  \/ \E a \in Attempt : Settle(a) \/ DecodeLoginRequest(a) \/ RecordLogin(a) \/ Answer(a) \/ Lose(a)

Spec == Init /\ [][Next]_signInVars

-----------------------------------------------------------------------------

\* Whoever is in the portal, or kept in its storage, as a Google account has a login
\* event in the collection (App.tsx 91-105, login-service main.go 115-143), whatever
\* was lost, late, answered to another screen, stopped or reloaded.  The page that
\* was told of a failure may have one too, and a second one when it tries again.
GoogleMeansRecorded ==
  \A u \in User \cap {auth, saved} : \E a \in Made : attempt[a].user = u /\ events[a] > 0

\* "Login persistence attempts grouped by provider and result" (metrics.go 34): since
\* the start each attempt is counted under one result at most, one that is counted ok
\* is stored, once, and one that is counted invalid is not; one that is stored and
\* answered, and was not cut off by a stop, is counted.
AttemptsAccounted ==
  /\ \A r, s \in Results : r # s => results[r] \cap results[s] = {}
  /\ \A a \in results["ok"] : events[a] = 1
  /\ \A a \in results["invalid"] : events[a] = 0
  /\ \A a \in Attempt : events[a] <= 1
  /\ stops = 0 => \A a \in Attempt :
       events[a] > 0 => At(a) \in {"recorded", "unrecorded"} \/ a \in results["ok"] \cup results["error"]
=============================================================================

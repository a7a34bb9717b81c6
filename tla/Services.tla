------------------------------ MODULE Services -------------------------------
(***************************************************************************)
(* The parts of the services that share no state with each other, side by  *)
(* side: which of them moves is chosen at the start, and the others rest   *)
(* in their initial state.  What holds here holds for each of them alone,  *)
(* and for all of them together.                                           *)
(***************************************************************************)
EXTENDS Naturals

CONSTANTS Code, Pod, Maker, MaxGames, MaxAttempts,           \* RoomDirectory
          Game, FinishedStatus, Handler, MaxCounted, MaxFailures,
          MaxRestarts,                                       \* RoomMetrics
          Writer, LastTime,                                  \* RoomRecord
          OnePair, AnotherPair,                              \* BotTurn
          User, Attempt, MaxReloads, MaxStops                \* SignIn

ASSUME BoundsAssumption ==
  /\ {MaxGames, MaxCounted, MaxFailures, MaxRestarts, LastTime, MaxReloads, MaxStops} \subseteq Nat
  /\ MaxAttempts \in Nat \ {0}
  /\ "resigned" \in FinishedStatus /\ {"waiting", "active"} \cap FinishedStatus = {}

ASSUME PairsAssumption == OnePair # AnotherPair

VARIABLES part                                                  \* the part that moves
VARIABLES redis, pod, active, steady, link, job, made           \* RoomDirectory
VARIABLES stored, tracked, work, roomState, archived, info, open, counted,
          used, ended, failures, unreported, restarts, overlap  \* RoomMetrics
VARIABLES record, copies, time                                  \* RoomRecord
VARIABLES request, stage, answer, rooms, labels, told           \* RoomRequests
VARIABLES legal, turn                                           \* BotTurn
VARIABLES screen, auth, saved, pending, popup, attempt, events, results,
          reloads, stops                                        \* SignIn

Directory == INSTANCE RoomDirectory
Metrics == INSTANCE RoomMetrics
Record == INSTANCE RoomRecord
Requests == INSTANCE RoomRequests
Bot == INSTANCE BotTurn
Portal == INSTANCE SignIn

\* The names of the guest's session and of no session are no accounts.
ASSUME AccountsAssumption == {Portal!Guest, Portal!Nobody} \cap User = {}

directory == <<redis, pod, active, steady, link, job, made>>
metrics == <<stored, tracked, work, roomState, archived, info, open, counted,
             used, ended, failures, unreported, restarts, overlap>>
records == <<record, copies, time>>
requests == <<request, stage, answer, rooms, labels, told>>
bot == <<legal, turn>>
portal == <<screen, auth, saved, pending, popup, attempt, events, results, reloads, stops>>

vars == <<part, directory, metrics, records, requests, bot, portal>>

Init ==
  /\ part \in {"directory", "metrics", "record", "requests", "bot", "portal"}
  /\ Directory!Init /\ Record!Init /\ Requests!Init /\ Portal!Init
  /\ Metrics!Init /\ (part # "metrics" => ~overlap)
  /\ Bot!Init /\ (part # "bot" => legal = <<Bot!Move(OnePair, Bot!NoPiece, {})>>)

Next ==
  \/ part = "directory" /\ Directory!Next /\ UNCHANGED <<part, metrics, records, requests, bot, portal>>
  \/ part = "metrics" /\ Metrics!Next /\ UNCHANGED <<part, directory, records, requests, bot, portal>>
  \/ part = "record" /\ Record!Next /\ UNCHANGED <<part, directory, metrics, requests, bot, portal>>
  \/ part = "requests" /\ Requests!Next /\ UNCHANGED <<part, directory, metrics, records, bot, portal>>
  \/ part = "bot" /\ Bot!Next /\ UNCHANGED <<part, directory, metrics, records, requests, portal>>
  \/ part = "portal" /\ Portal!Next /\ UNCHANGED <<part, directory, metrics, records, requests, bot>>

Spec == Init /\ [][Next]_vars

-----------------------------------------------------------------------------
(* The properties of the parts, each stated in its module *)

\* A room is replaced by another with its code only by a handler that looked at the
\* code before the room was saved (RoomDirectory).
ReplacedOnlyUnseen == Directory!ReplacedOnlyUnseen

\* Rooms stored without a gap since match-core's scan began are ticked (RoomDirectory).
PrimedRoomsTicked == Directory!PrimedRoomsTicked

\* One truthful set of series for a code, however reports and removals overlap
\* (RoomMetrics).
SeriesTruthful == Metrics!SeriesTruthful

\* The gauge of rooms is the set of tracked rooms while handlers do not overlap and
\* no deletion fails (RoomMetrics).
ActiveRoomsAreTracked == Metrics!ActiveRoomsAreTracked

\* A game that ends is counted once while handlers do not overlap, or once more for
\* each deletion of its room that failed (RoomMetrics).
FinishedCountedOnce == Metrics!FinishedCountedOnce

\* Records are loaded with their times in order, and loading fills in the start of a
\* game that was resigned before it began, and nothing else (RoomRecord).
LoadedTimesInOrder == Record!LoadedTimesInOrder

\* The gateway understands every answer of match-core (RoomRequests).
AnswersUnderstood == Requests!AnswersUnderstood

\* A room that is counted was made, as it is labelled; a refusal makes none
\* (RoomRequests).
CreationsTruthful == Requests!CreationsTruthful

\* The machine plays the move it drew, and draws by weight (BotTurn).
BotPlaysAsDrawn == Bot!BotPlaysAsDrawn

\* A Google session has its login event (SignIn).
GoogleMeansRecorded == Portal!GoogleMeansRecorded

\* Attempts to sign in are counted as they went (SignIn).
AttemptsAccounted == Portal!AttemptsAccounted
=============================================================================

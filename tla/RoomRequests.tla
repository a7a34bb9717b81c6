---------------------------- MODULE RoomRequests -----------------------------
(***************************************************************************)
(* One command on its way from a page through the gateway to the runtime   *)
(* of its game and back: the payload and its defaults, the options of a    *)
(* new room, the answer in the shape each command gives it, and what the   *)
(* gateway makes of that answer.  What a command does to its room is       *)
(* RoomRules' matter; here it is one of the answers it may give.           *)
(***************************************************************************)
EXTENDS Naturals

VARIABLES request,    \* the command and its texts, as the page or the gateway gives them
          stage,      \* where it is
          answer,     \* RoomResponse, or the error of the call
          rooms,      \* kinds of the rooms saved for it
          labels,     \* labels it was counted under in room_creations_total
          told        \* the acknowledgement

requestVars == <<request, stage, answer, rooms, labels, told>>

Runtime == {"chess", "tictactoe"}
Command == {"create_room", "join_room", "leave_room", "sync_state", "submit_action",
            "resign", "offer_draw", "accept_draw", "decline_draw", "disconnect"}

\* A text of a payload: its word, and how it is written.
Text(words) == [word : words, look : {"plain", "padded", "loud"}]
Plain(w) == [word |-> w, look |-> "plain"]
Plains(words) == {Plain(w) : w \in words}
Trim(t) == IF t.look = "padded" THEN Plain(t.word) ELSE t
Lower(t) == IF t.look = "loud" THEN Plain(t.word) ELSE t

GameText == Text({"", "go"} \cup Runtime)
ModeText == Text({"", "pvp", "pvp_untimed", "bot_easy", "bot_easy_untimed", "blitz"})
ClockText == Text({"", "timed", "untimed", "long"})
Length == {1, 2, 24, 25}     \* bytes of the nickname, its spaces joined

Creation == [command : {"create_room"}, game : GameText, nickname : Length,
             mode : ModeText, clock : ClockText]
Other == [command : Command \ {"create_room", "disconnect"}, game : GameText]
         \cup [command : {"disconnect"}, game : Plains(Runtime)]

\* What match-core and the gateway may answer.
NoAnswer == [shape |-> "none"]
CallError == [shape |-> "error"]
Refused(code) == [shape |-> "refused", code |-> code]
Accepted(snapshot, session) == [shape |-> "ok", snapshot |-> snapshot, session |-> session]
Untold == [ok |-> FALSE, code |-> "none"]
Ok == [ok |-> TRUE, code |-> ""]
Fail(code) == [ok |-> FALSE, code |-> code]

Nothing == [command |-> "none"]
Init ==
  /\ request = Nothing /\ stage = "page" /\ answer = NoAnswer
  /\ rooms = {} /\ labels = {} /\ told = Untold

-----------------------------------------------------------------------------
(* The gateway, before the call *)

\* normalizeGameType, of the gateway
NormalizeGameType(t) == IF t.word = "" THEN Plain("chess") ELSE Lower(Trim(t))

\* The commands whose handler normalises the game type of the payload; the others
\* pass it on as it came, and a disconnect that of the bound session.
Normalised == {"create_room", "join_room", "submit_action"}

Send ==
  /\ stage = "page" /\ stage' = "gateway"
  /\ request' \in Creation \cup Other
  /\ UNCHANGED <<answer, rooms, labels, told>>

\* decodePayload, and the call to match-core; or no payload that can be decoded.
Decode ==
  /\ stage = "gateway"
  /\ \/ /\ stage' = "core"
        /\ request' = IF request.command \in Normalised
                      THEN [request EXCEPT !.game = NormalizeGameType(@)] ELSE request
        /\ UNCHANGED told
     \/ stage' = "done" /\ told' = Fail("BAD_REQUEST") /\ UNCHANGED request
  /\ UNCHANGED <<answer, rooms, labels>>

-----------------------------------------------------------------------------
(* match-core *)

\* runtimeFor: the empty text is chess, any other is looked up as it is.
RuntimeFor(t) == IF t = Plain("") THEN "chess"
                 ELSE IF t \in Plains(Runtime) THEN t.word ELSE "none"

NicknameFits(length) == length \in 2..24

\* parseClockControlDefault: the kind of clock, or "refused".
ClockControl(t) == IF Trim(t) \in Plains({"", "timed"}) THEN "timed"
                   ELSE IF Trim(t) = Plain("untimed") THEN "untimed" ELSE "refused"

\* parseCreateOptions: the kind of room, its clock "refused" for INVALID_CLOCK_CONTROL,
\* its mode for INVALID_MODE.
CreateOptions(mode, clock) ==
  LET m == Trim(mode) IN
  [mode  |-> IF m \in Plains({"", "pvp", "pvp_untimed"}) THEN "pvp"
             ELSE IF m \in Plains({"bot_easy", "bot_easy_untimed"}) THEN "bot_easy"
             ELSE "refused",
   clock |-> IF m \in Plains({"pvp_untimed", "bot_easy_untimed"}) THEN "untimed"
             ELSE ClockControl(clock)]

Replies(a) == answer' = a /\ stage' = IF stage = "late" THEN "done" ELSE "answered"

\* CreateRoom saves the room and then answers; a code is drawn and the room saved,
\* or neither.
CreateRoom ==
  LET kind == CreateOptions(request.mode, request.clock) IN
  IF ~NicknameFits(request.nickname) THEN Replies(Refused("INVALID_NICKNAME")) /\ UNCHANGED rooms
  ELSE IF kind.mode = "refused" THEN Replies(Refused("INVALID_MODE")) /\ UNCHANGED rooms
  ELSE IF kind.clock = "refused" THEN Replies(Refused("INVALID_CLOCK_CONTROL")) /\ UNCHANGED rooms
  ELSE \/ Replies(Refused("ROOM_GENERATION_FAILED")) /\ UNCHANGED rooms
       \/ Replies(CallError) /\ UNCHANGED rooms
       \/ Replies(Accepted(TRUE, TRUE)) /\ rooms' = {kind}

\* The shapes of the answers of the other commands: the room may go with the one who
\* leaves it, a page without a seat may look at it, a disconnect may change nothing.
Shapes(command) ==
  CASE command = "join_room" -> {Accepted(TRUE, TRUE)}
    [] command \in {"leave_room", "disconnect"} -> {Accepted(s, FALSE) : s \in BOOLEAN}
    [] command = "sync_state" -> {Accepted(TRUE, s) : s \in BOOLEAN}
    [] OTHER -> {Accepted(TRUE, FALSE)}

\* withCommand, and the command in the runtime of its game.
Process ==
  /\ stage \in {"core", "late"}
  /\ IF RuntimeFor(request.game) = "none"
     THEN Replies(Refused("UNSUPPORTED_GAME_TYPE")) /\ UNCHANGED rooms
     ELSE IF request.command = "create_room" THEN CreateRoom
     ELSE /\ UNCHANGED rooms
          /\ \E a \in Shapes(request.command) \cup {CallError, Refused("COMMAND")} : Replies(a)
  /\ UNCHANGED <<request, labels, told>>

-----------------------------------------------------------------------------
(* The gateway, after the call *)

\* The deadline of invokeCommand: match-core may still save what it is at.
GiveUp ==
  /\ stage \in {"core", "answered"}
  /\ stage' = IF stage = "core" THEN "late" ELSE "done"
  /\ told' = Fail("INTERNAL_ERROR")
  /\ UNCHANGED <<request, answer, rooms, labels>>

\* Match-core is gone before it saves.
Lose ==
  /\ stage = "late" /\ stage' = "done"
  /\ UNCHANGED <<request, answer, rooms, labels, told>>

\* (slip) Rooms are counted as untimed unless the payload says otherwise.
LabelUntimed ==
  [mode  |-> CreateOptions(request.mode, request.clock).mode,
   clock |-> IF Lower(Trim(request.clock)) = Plain("timed") THEN "timed" ELSE "untimed"]

\* normalizeMode of the session's mode, and normalizeClockControl of the payload's.
Label == [mode  |-> CreateOptions(request.mode, request.clock).mode,
          clock |-> IF Lower(Trim(request.clock)) = Plain("untimed") THEN "untimed" ELSE "timed"]

\* (slip) Whoever leaves is to get the room's snapshot.
NeedsEverywhere(command) ==
  [snapshot |-> TRUE, session |-> command \in {"create_room", "join_room"}]

\* requireSnapshot, parseSnapshot, parseSnapshotAndSession: what the answer must have.
Needs(command) ==
  [snapshot |-> command \notin {"leave_room", "disconnect"},
   session  |-> command \in {"create_room", "join_room"}]

Lacks(a) == \/ Needs(request.command).snapshot /\ ~a.snapshot
            \/ Needs(request.command).session /\ ~a.session

Parsed ==
  CASE answer.shape = "error" -> Fail("INTERNAL_ERROR")
    [] answer.shape = "refused" -> Fail(answer.code)
    [] answer.shape = "ok" -> IF Lacks(answer) THEN Fail("INVALID_MATCH_CORE_RESPONSE") ELSE Ok

Receive ==
  /\ stage = "answered" /\ stage' = "done"
  /\ told' = Parsed
  /\ labels' = IF Parsed.ok /\ request.command = "create_room" THEN {Label} ELSE labels
  /\ UNCHANGED <<request, answer, rooms>>

Next == Send \/ Decode \/ Process \/ GiveUp \/ Lose \/ Receive

Spec == Init /\ [][Next]_requestVars

-----------------------------------------------------------------------------

\* Whatever the command, the gateway can read what match-core answers it, and the
\* page is told of success and of the code of a refusal as match-core gave them
\* (matchcore_client.go 270-359 against the answers of service.go 966-992).
AnswersUnderstood ==
  stage = "done" /\ told.code \notin {"BAD_REQUEST", "INTERNAL_ERROR"} =>
    \/ told.ok /\ answer.shape = "ok"
    \/ answer.shape = "refused" /\ told = Fail(answer.code)

\* "Rooms created grouped by mode, clock control and client profile" (metrics.go of
\* the gateway 46): the gateway labels a room by its own reading of the texts, and
\* match-core makes it by another; both agree, however game, mode and clock are
\* written, except for the mode words that carry the clock, which no page sends.
\* A refusal leaves no room behind; only INTERNAL_ERROR may hide one.
CreationsTruthful ==
  stage = "done" /\ request.command = "create_room" =>
    /\ told.ok => /\ rooms # {}
                  /\ Trim(request.mode) \notin Plains({"pvp_untimed", "bot_easy_untimed"}) => labels = rooms
    /\ ~told.ok => labels = {} /\ (told.code # "INTERNAL_ERROR" => rooms = {})
=============================================================================

# geek-hub in TLA+

geek-hub is a small game portal: people open a room, play chess or tic-tac-toe
against each other or against a simple machine, watch, chat and talk over
WebRTC. This directory models its services, and the pages where they take part in
a protocol, in TLA+, checks them with TLC on small instances and proves with TLAPS,
for every value of the constants, the safety of the rooms of both games, of the
gateway, of the chat and of the services beside them.

## 1. The system

```
browser (games-web) --Socket.IO--> realtime-gateway --gRPC--> match-core --> Redis
                                        |  every second: TickActiveRooms   |
                                        |                                  +--gRPC--> bot-engine
browser (portal-web) --HTTP--> login-service --> MongoDB
```

| Component | State it keeps | Operations | Hard behaviour |
|---|---|---|---|
| match-core, chess (`services/match-core/internal/games/chess`) | one JSON record per room in Redis; in memory the set `activeRooms` of the codes the tick looks at | CreateRoom, JoinRoom, LeaveRoom, SyncState, SubmitAction, Resign, OfferDraw, AcceptDraw, DeclineDraw, MarkDisconnected, TickActiveRooms, PrimeMetrics | handlers load, change and save the record with no lock; the tick waits for the bot engine between load and save; clocks are charged by whoever comes by; restart and Redis loss |
| match-core, tic-tac-toe (`.../tictactoe`) | the same, with a board of nine cells | the same | the same; the turn stays with the player who ended the game, the ninth mark may win or draw |
| match-core, metrics (`.../metrics.go`) | gauges and counters per room | UpdateRoom, DeleteRoom, PrimeRooms | derived from successive saves, so stale saves count |
| match-core, process (`cmd/match-core`, `internal/platform`) | the runtimes by game, `activeRooms` of each | start with a scan of Redis, readiness, commands, graceful stop | two pods in a rolling update; a scan that fails is only logged |
| realtime-gateway (`services/realtime-gateway/internal/gateway`) | session per socket, Socket.IO channels, chat history and last bot move per room | one handler per client event, the ticker, disconnect | acknowledgements race broadcasts; a late disconnect of an old socket; leave followed by an implicit re-join; chat history cap; bot comments; a deadline over the whole tick |
| bot-engine (`services/bot-engine`) | none | GetAction | may time out (1.5 s), answer nothing or answer an illegal move |
| games-web (`apps/games-web`) | session, last snapshot, chat, peer connection | applies acks, broadcasts, heartbeats; WebRTC offer, answer, candidates | messages in any order, everything replaces the whole state; its own signals come back |
| portal-web (`apps/portal-web`) | who is signed in, in the page and in its storage | Google's answer, guest, logout, reload | answers to a screen that is no longer there |
| login-service (`services/login-service`) | login events in MongoDB, a counter | one POST | stored and not answered; stopped under its handlers |
| observability, deployment | | | one replica of each service, rolling updates, Redis without persistence |

What makes each part correct:

- **Room**: two seats that fit the status; a verdict that agrees with the
  position, the winner and the clocks; a verdict that is final; an offer that
  does not outlive the game; exactly one running clock, the mover's, and no
  time lost or charged twice; a machine that is always asked again; a room that
  goes away with its last player.
- **Record under concurrency**: whatever overlaps, the stored record stays
  consistent; only a copy older than a verdict can undo it; a stored room comes
  back under the ticker.
- **Tic-tac-toe**: the same, and a verdict that is the one on the board.
- **Bot engine**: wins when it can, else blocks, else prefers centre, corners, sides.
- **Directory of rooms**: a code belongs to one room; what is stored is ticked.
- **Gateway**: a page hears the room it is in, and others only where the code
  says so; who is shown as connected is connected, or accounted for; the chat
  loses and repeats nothing; every room is looked after by the tick.
- **Pages**: they show what was saved, and the same thing in the end; a page
  talks to other pages, not to itself.
- **Metrics**: series and gauges say what is so, counters count once.
- **Signing in**: a Google session has its login event; attempts are counted as
  they went.

The list of hazards, each at its source line with the properties that watch it,
is in `PROJECT.json`.

## 2. Modules

| Module | Models | Based on |
|---|---|---|
| `RoomRules` | the chess room as a record and every command as a function from the loaded record to the records it may save | `chess/service.go`, `chess/types.go`, `chess/bot_client.go` |
| `RoomSafety` | what makes one record sound, in named parts | |
| `Room` | one room, each handler one atomic step, the wall clock | `chess/service.go` |
| `RoomLive` | `Room` with the fairness of the ticker and of time | `socket_server.go` StartTicker |
| `AbstractMatch` | the promise to players: opened, started, played, decided once, closed | |
| `RoomRefinement` | `Room` implements `AbstractMatch` | |
| `RoomStore` | the same room with load, save and bookkeeping as separate steps of overlapping handlers; the active-room set; restart; loss | `requireRoom`, `saveRoom`, `deleteRoom`, `trackRoom`, `PrimeMetrics`, `store.go` |
| `RoomStoreLive` | `RoomStore` with the ticker's and the heartbeats' fairness | |
| `TicTacToeRules` | the tic-tac-toe commands that touch the board, the easy strategy; everything else is `RoomRules` | `tictactoe/service.go`, `bot-engine/.../tictactoe/easy.go` |
| `TicTacToeRoom` | one tic-tac-toe room, each handler one step; implements `AbstractMatch` as well | `tictactoe/service.go` |
| `RoomRecord` | the times and the clock of a record under overlapping handlers, and the defaults of each load | `normalizeStateDefaults`, `startGame`, `finishGame`, `SaveRoom` |
| `RoomDirectory` | several codes of both games: codes drawn, saved, expired; pods that scan, serve, stop and crash | `generateUniqueRoomCode`, `store.go`, `PrimeMetrics`, both `main.go` |
| `RoomMetrics` | gauges and counters of one code that goes from game to game | both `metrics.go` and their callers |
| `RoomRequests` | one command from the payload to the acknowledgement: defaults, options, shapes of answers | `matchcore_client.go`, `withCommand`, `parseCreateOptions` |
| `BotTurn` | one move of the chess machine, drawn in bot-engine and played in match-core | `chess/easy.go`, `performBotMove`, `selectMove` |
| `Gateway` | one browser's page, sockets, sessions, channels and presence, in front of an abstract match-core | `socket_server.go`, `ChessGame.tsx` |
| `GatewayLive` | the same with heartbeats that are served some time | |
| `RoomChat` | the chat of one room, handler by handler in single steps | `socket_server.go` 535-608, 712-814 |
| `Broadcast` | which record each page of a room shows | `withAck`, `StartTicker`, `applyAckState` |
| `Sweep` | one tick after another over all rooms of both games, within its deadline | both `TickActiveRooms`, `StartTicker` |
| `PeerChat` | offers and answers of a room's pages for their WebRTC channel | `ChessGame.tsx` 140-374, `webrtc_signal` |
| `SignIn` | the portal's page, login-service and MongoDB | `App.tsx`, `login-service` |
| `Services` | `RoomDirectory`, `RoomMetrics`, `RoomRecord`, `RoomRequests`, `BotTurn` and `SignIn` side by side | |
| `RoomRulesProofs` | lemmas on the helpers and one lemma per command | |
| `RoomProofs` | the theorems on `Room`: soundness, final verdicts, seats, flags, the refinement of `AbstractMatch` | |
| `TicTacToeProofs` | the theorems on `TicTacToeRoom`, by a refinement of `Room` | |
| `RoomStoreProofs`, `GatewayProofs`, `BroadcastProofs`, `RoomChatProofs` | the theorems on the modules they are named after | |
| `ServicesProofs` | the theorems on the six parts of `Services`, each from its own steps | |
| `MC*` | instances for TLC | |

How the state corresponds. `Room` (the record set in `RoomRules`) is
`RoomState` (`types.go` 74-99) without names, wording and bookkeeping
timestamps. The position is abstracted to its outcome (`open`, `checkmate`,
`stalemate`, `draw`), the history to its length and the time of its first move,
and the `Connected` flags of seats and spectators to one set of tokens. Pointers
that may be nil are explicit values (`Nobody`, `NoColor`, `NoTime`). `XResults(r,
...)` is the set of records that handler X may save after it has loaded `r`:
empty when it answers an error, `{Absent}` when it deletes the room, several
when the outcome of the move or the answer of the bot engine is open. `Room`
takes these sets as atomic steps, `RoomStore` keeps the load and the save apart;
so both speak of the same handlers, and both use the same predicates
(`RoomSafety`) on records.

The other modules cut the system along its shared state. `RoomStore`,
`RoomRecord` and `RoomDirectory` are three views of the record in Redis: what it
says of the game, when it was stamped, and under which key it is found and
ticked. `Gateway` and `RoomChat` take a request for one call to match-core that
may fail before or after it has its effect; `Gateway` adds the copies of a room that
other calls, the tick's above all, have loaded and save later (`LoadCopy`, `SaveCopy`),
because they bring back the presence that `MarkDisconnected` has just ended; `Broadcast` and `Sweep` take match-core's
side of the same calls. `Services` instantiates six modules that share no variable
with each other and lets one of them move, the one chosen in the initial state;
its invariants are theirs, and hold for each as if it were alone.

Where a function exists twice, once for each game, the map names now the one and
now the other copy: both were read, and the differences that matter (the board, the
turn after the end, the key's prefix) are in the modules. The cluster builds the
services from `src/k8s/overlays/talos-runtime/source`, whose Go sources are byte
for byte those of `src/services`. The maps of `Room`, `TicTacToeRoom`, `RoomStore`,
`RoomDirectory`, `Sweep` and `Gateway` name the lines of that copy; the line
numbers are the same in both, and what a module says holds for both.

Two points in the code are worth knowing, because the model has them as they
are. `performBotMove` (line 720) returns the nil `*AppError` of
`applyMoveToState` as an `error`, which is then not nil; so `TickActiveRooms`
handles every successful bot move like a failed one and sets `BotMoveDueAt`
again, even on a room that the move has finished (`PerformBotMove`). It is
harmless because `shouldPlayBotMove` asks for an active game and the bot's turn.
And `Resign` is accepted in a waiting room, where Black wins without being there
(`ResignResults`).

Definitions marked `(slip)` are variants of the definition below them with a
plausible mistake. No specification uses them; they exist to show that the
properties notice.

## 3. Runs

| Run | Question | Size |
|---|---|---|
| `room` | With handlers one at a time: is the record always sound, is a verdict final, are seats kept, is no move accepted after the flag, and does the room implement `AbstractMatch`? | 32,896 states |
| `room_live` | Does a timed game end and the machine reply when the ticker is fair? | 27,312 |
| `room_store` | Two handlers and the ticker overlap, match-core restarts, Redis forgets: is every record and copy sound, and who can undo a verdict? | 778,050 |
| `room_store_live` | Does a room that the ticker has lost come back, and does every running clock stop, although verdicts may be overwritten? | 144,120 |
| `tictactoe` | With the real board and the easy machine: does every game end with the verdict on the board, keep its table in order and implement `AbstractMatch`, and does the machine keep its priorities? | 1,152,470 |
| `gateway` | Which broadcasts does a page hear, and who is shown as connected, when answers are lost or late, connections break, match-core refuses or saves an old copy, and the gateway restarts? | 2,566,750 |
| `gateway_live` | Does presence follow the page in the end? | 197,810 |
| `room_chat` | Does the chat forget, miss or repeat anything while pages enter, talk, leave and close the room? | 2.4 million |
| `broadcast` | What do pages show when answers, broadcasts and heartbeats overtake each other or fail? | 49,347 |
| `sweep` | Is every room looked after although an engine hangs and a record cannot be read? | 9,184 |
| `services` | The six parts of `Services`: codes and scans, metrics with failing saves and deletions, times of the record, commands and answers, the machine's chess move, signing in | 2,766,655 |
| `webrtc` | Does a page negotiate with itself? It does: the run is expected to find a violation (section 6). | |

Every property of every passing run has a mutant in `PROJECT.json`: a plausible mistake
in a mapped definition that makes TLC find the property violated.

Bounds, all constants of the specifications:

- *Tokens.* Three in `room`: two players and a spectator, or a
  player who loses the session and joins again. Two in the other runs: two
  players, or a player, the machine and a spectator. The proofs hold for any set.
- *Clock.* `InitialMs` 1 or 2 and a delay of 1 let a flag fall before, at and
  after a move, with both players' time used up inside `MaxTime`.
- *MaxMoves* 2 or 3: enough for a first move, which starts the clocks, a reply,
  and a last move that must end the game; chess is finite, so some such bound
  exists.
- *TicTacToeRoom*: the whole board and all nine moves; a clock of one unit, so that
  the flag falls or does not, and no delay of the machine. `WonOnBoard` is the name
  of the verdict by which the games differ (`checkmate`, `won`).
- *RoomStore*: two handlers and the ticker, three requests besides heartbeats,
  which are unlimited, and one restart. Three requests reach create, join and
  resign, or create, resign and join, while heartbeats and ticks overlap them.
- *Gateway*: two rooms, two tokens and two connections of one browser, three
  requests besides those the page makes by itself, two under way at a time, and one
  other call of match-core that holds a copy: enough to enter a second room, lose the
  connection with requests queued, return with one that was emitted meanwhile, and be
  saved from an old copy. `gateway_live` has one room, one token and two requests:
  whether a presence is repaired is a question about one session on two sockets, so
  what another token does cannot show there. Of what the page emits without a
  connection one request is kept (`Buffered`); Socket.IO keeps them all.
- *RoomChat*: two pages and the ticker, a cap of three messages instead of 120,
  five messages and two moves of the machine, so that the cap is passed.
- *Broadcast*: three records by two pages and the ticker besides the heartbeats.
- *Sweep*: two chess rooms and one of tic-tac-toe, in half seconds, with the
  deadlines of the configuration: 2.5 s for the sweep, 1.5 s for the engine. One
  room of each game is in training, so that an engine that hangs ends the sweep at the
  second of them, and another room may be unreadable.
- *RoomDirectory*: two codes, two games created, two pods and two handlers; two
  attempts for a code instead of ten.
- *RoomMetrics*: two games under one code, two handlers, one restart, one status
  for all ways to end. Of each game's room one deletion fails (`MaxFailures`), saves
  fail as they like. A game that was over and changes again is counted at most twice. *RoomRecord*: two handlers and three instants. *SignIn*: two accounts, two
  sign-ins, one reload and one stop. *BotTurn*: two pairs of squares with every
  combination of captures, checks, centre and promotions.
- `CHECK_DEADLOCK FALSE`: a room may be gone for good with the clock at its bound,
  and the requests, games or attempts of the other modules may be used up.

## 4. Fairness

- `RoomLive`: time passes; the tick happens when it would save something. The
  gateway runs `TickActiveRooms` every second for as long as it lives
  (`socket_server.go` 73-98). The bot engine may fail arbitrarily often before
  `EngineUpAt` and answers from then on: the retry is unconditional in the code,
  the answer is not ours to promise. That assumption (`EngineUp`) binds only a tick
  that asks the engine for a move; time and the commands of players go on whatever
  the engine does.
- `RoomStoreLive`: the ticker loads (weak fairness); somebody keeps a page open,
  so a `sync_state` (the heartbeat of the client, 15 s) is loaded again and
  again; a save that is tried again and again succeeds once (strong fairness on
  `Write`: Redis does not refuse for ever); a handler that has written ends. No
  fairness is assumed of commands, restarts, losses or aborts.

- `GatewayLive`: a connected page with a session sends its heartbeat (15 s), the
  gateway handles what has arrived and notices a lost connection (weak fairness); a
  heartbeat that is sent again and again is served some time (strong fairness).
- `Broadcast`: handlers end, and a page's heartbeat, sent again and again, is
  loaded, saved and answered some time. No command and no tick need ever succeed. The
  heartbeats of two pages do not overlap in the model: the code would let them, but
  they are 15 s apart and last milliseconds, and only if they overlapped for ever, each
  saving its copy over the other's, could the pages be kept apart.
- `Sweep`: the ticker begins sweep after sweep and a sweep goes on. Go iterates
  maps from a random place, so a room that could be the first of sweep after sweep
  is so some time (strong fairness on `First(r)`), and so is each runtime.

`ClockStops` says that a running clock stops at some time, not that it stays
stopped. Two heartbeats that overlap for ever could in principle hand an old copy
to each other and undo each verdict of the tick.

## 5. Proofs

All proofs are checked by `tlapm`; the constants are arbitrary under named assumptions,
which TLC evaluates in the runs: `ParametersAssumption` and `MaxTimeAssumption` of the
rooms, `StoreAssumption`, `GatewayAssumption`, `BroadcastAssumption`,
`RoomChatAssumption`, and `BoundsAssumption` (bounds are numbers, the statuses of a
game that is over include `resigned` and neither `waiting` nor `active`),
`PairsAssumption` (the two pairs of squares differ) and `AccountsAssumption` (a guest and nobody are not
accounts) of `Services`. `TicTacToeAssumption` fixes what makes the game tic-tac-toe:
nine moves, the verdict `won`. It and `NoRoomChatAssumption` also say that the values
for "no room" and "no chat" are not records.

| Theorem | Statement |
|---|---|
| `RoomProofs!RoomIsSound` | `Spec => []RoomSound` |
| `RoomProofs!VerdictIsFinal` | `Spec => FinishedIsFinal` |
| `RoomProofs!NobodyIsUnseated` | `Spec => SeatsKept` |
| `RoomProofs!MovesAreInTime` | `Spec => NoMoveAfterFlag` |
| `RoomProofs!RoomImplementsMatch` | `Spec => ImplementsMatch`: the room refines `AbstractMatch` |
| `RoomStoreProofs!EveryCopyIsSound` | `Spec => []AllSound` for any number of overlapping handlers |
| `RoomStoreProofs!VerdictLostOnlyToStaleCopy` | `Spec => UndoneOnlyByStaleCopy` |
| `TicTacToeProofs!BoardIsSound` | `Spec => []BoardInvariant` |
| `TicTacToeProofs!TicTacToeIsAChessRoom` | `Spec => Chess!Spec`: the room refines `Room` |
| `TicTacToeProofs!TicTacToeTables` | `Spec => []TablesAlike` |
| `TicTacToeProofs!VerdictIsOnBoard` | `Spec => []VerdictOnBoard` |
| `TicTacToeProofs!MarksTakeTurns` | `Spec => []MarksAlternate` |
| `TicTacToeProofs!TicTacToeImplementsMatch` | `Spec => ImplementsMatch` |
| `TicTacToeProofs!MachineHasPriorities` | `Spec => EasyPriorities` |
| `GatewayProofs!GatewayTypes` | `Spec => []TypeOK` |
| `GatewayProofs!NoStrangeRoomIsHeard` | `Spec => []HearsOnlyItsRoomOrOnesLeft` |
| `GatewayProofs!AnsweredPageHears` | `Spec => []ConfirmedPageHears` |
| `GatewayProofs!EverybodyPresentIsAccounted` | `Spec => []PresenceAccounted` |
| `RoomChatProofs!ChatIsSound` | `Spec => []ChatInvariant` |
| `RoomChatProofs!HistoryIsSound` | `Spec => []HistorySound` |
| `RoomChatProofs!NothingIsMissed` | `Spec => []NoMessageMissed` |
| `RoomChatProofs!CommentsDiffer` | `Spec => []NoCommentTwiceInARow` |
| `BroadcastProofs!PagesShowSavedRecords` | `Spec => []ShownWasSaved` |
| `ServicesProofs!ReplacedByUnseenOnly` | `Spec => ReplacedOnlyUnseen` for any codes, pods and handlers |
| `ServicesProofs!PrimedRoomsAreTicked` | `Spec => []PrimedRoomsTicked` |
| `ServicesProofs!SeriesAreTruthful` | `Spec => []SeriesTruthful` |
| `ServicesProofs!GaugeIsTracked` | `Spec => []ActiveRoomsAreTracked` |
| `ServicesProofs!FinishedAreCounted` | `Spec => []FinishedCountedOnce` |
| `ServicesProofs!TimesAreInOrder` | `Spec => []LoadedTimesInOrder` |
| `ServicesProofs!AnswersAreUnderstood` | `Spec => []AnswersUnderstood` |
| `ServicesProofs!CreationsAreTruthful` | `Spec => []CreationsTruthful` |
| `ServicesProofs!MachinePlaysAsDrawn` | `Spec => []BotPlaysAsDrawn` |
| `ServicesProofs!SignedInMeansRecorded` | `Spec => []GoogleMeansRecorded` |
| `ServicesProofs!AttemptsAreAccounted` | `Spec => []AttemptsAccounted` |

The argument. `Sound(r, t)` is inductive as a whole and none of its parts is:
`VerdictSound` needs the clock to be the mover's (`MoverOnTheClock`) to know whose
flag fell, `ClockConserved` needs the turn and the start of the clock to agree,
`OfferSound` is what keeps `AcceptDraw` from ending a game twice, `HistorySound`
(the parity of the turn) and `NotAfter` (nothing is dated in the future) are there
for the arithmetic. `RoomRulesProofs` shows, helper by helper, which fields change,
and then for each command that from a sound record it saves only sound records.
`RoomProofs` adds that only tokens that were handed out are in the room.

That lemma per command is also what makes concurrency harmless to the record:
`RoomStoreProofs` keeps for every handler that its copy is sound at the time it was
read (`LoadedCopy`), and a save of a sound copy is sound whatever it overwrites. The
invariant needs freshness too: a joiner's token is not in the copy it will be put
into, although other handlers may meanwhile hand out tokens.

The refinement. Each command is classified by what it does to the record: it leaves
the match as it was, starts it, adds a move to it or stops it, or it deletes the room,
which it does only before or after a match or when nobody but the machine is left.
Each of these is a step of `AbstractMatch` or a stutter. Soundness is needed on the
way: a record in play has both players and a running clock of the mover's, and a
verdict is one that the position or the clocks bear out. `AbstractMatch` calls a win on
the board a checkmate whatever the game calls it (`Told`).

Tic-tac-toe. `Table` shows a tic-tac-toe record as the chess room would hold it: the
outcome of the board in place of the position, the turn passed on after every move. Each
`...Seen` lemma follows one command and says that what it saves, shown so, is what the
chess command would save from the record shown so. Hence `TicTacToeIsAChessRoom`, and
with it everything proved of `Room`. What chess does not know is the board:
`BoardSound` says that it holds the marks of the moves made, X one ahead or level, and
that only the player who moved last can have a line. Without that last part a verdict
could name the wrong winner. `MachineHasPriorities` needs no invariant beyond it: for
each board the easy strategy's choice is compared with the lines.

The gateway. `HearsOnlyItsRoomOrOnesLeft` and `ConfirmedPageHears` speak of the page,
its socket and match-core's answers; what makes them inductive is the discipline of the
requests on the page's connection (`QueueOfPage`). A page with a session sends nothing
but requests of that session; the action it waits for is the last of its actions under
way; nothing else is under way behind a create or join that it still waits for. So an
answer changes the page's session only when no older request is left that could bind the
socket to another room, and what a page without a session has left under way concerns
rooms it has left (`LateRequests`). `Bounds` says where the channels may be at any time.
`PresenceAccounted` is inductive by itself once the state is well typed: every handler
that marks a token as present binds the socket to it or counts it as leaked, and whoever
a late save shows as present again, and was not, is noted in `restored` until the next
disconnect of that session. Nothing is assumed of when or by whom the copies are saved.

The chat. `HistorySound` and its companions speak of what the room remembers, whereas
the steps append to it, cut it and emit from it at different times. `ChatInvariant` ties
the three: the history is the newest part of the log (`Suffix`, `Long`), the log has one
welcome (`Welcomed`) and its last comment is of the move the state remembers
(`Commented`); a message of the log that was emitted is with every listener, unless the
listener's handler has still to send it the history (`Heard`), which every handler does
after it joins the channel and never before (`JoinersAsk`). That order is the whole
argument for `NoMessageMissed`.

`Broadcast`. Whatever a handler is about to answer has been saved.

The services. The parts share no variable, so a behaviour of `Services` is one of each
(`DirectoryBehaves` and the like), and each is proved alone:

- *RoomDirectory*. A handler about to save has seen its own game under the code, or
  none; a stored game that it replaces by another it has therefore not seen. For the
  ticker (`TickInvariant`): a room stored without a gap since the scan began is in the
  active set, is still in the part of the keys that the scan has to visit, or was found.
- *RoomMetrics*. Types and the series hold whatever overlaps (`OneSeries`). The gauge and
  the counter hold only while nothing overlaps, and only between handlers; `Working`
  says, step by step, what a lone handler has done and what it still owes to the books,
  and `Settled` that the counters are exact apart from that and from the games on whose
  room Redis failed (`Marred`). Of these, `Slack` says what is left: a report that may
  still come counts such a game at most once for each failed deletion.
- *RoomRecord*. `LoadedTimesInOrder` is not inductive: a handler may save an old copy.
  `InOrder` of the stored record and of every copy, and that no stamp is later than the
  clock (`NothingAfter`), are; a game resigned before it began is the one that may be
  over without a start.
- *RoomRequests*. The answer given fits the request (`AnswerGiven`), whatever the gateway
  makes of it afterwards (`PageIsTold`).
- *BotTurn*. The names of legal moves tell them apart, and the rolls of a move are an
  interval as long as its weight. There are two pairs of squares, hence at most eight
  legal moves, and the sums over them are unrolled; sums over any number of moves would
  need induction over data.
- *SignIn*. An attempt that was answered well has an event, and events stay; what is
  counted is a function of how far each attempt went (`Account`).

Only model-checked: the liveness properties (`TimedGameEnds`, `BotReplies`,
`TrackedAgain`, `ClockStops`, `PresenceRepaired`, `GoneIsShownAway`, `PagesConverge` and
`EveryRoomServed`), which need fairness and so ENABLED, out of the prover's reach; and
the run `webrtc`, which shows a violation. Every invariant and every safety property of a
step that a run checks has a theorem.

## 6. What the checks show

- With handlers one at a time the room keeps every promise of `RoomSafety` and a
  verdict is final.
- With overlapping handlers the record stays consistent but updates are lost: a
  save may take back a move, a seat or a verdict, and may bring a deleted room
  back. `UndoneOnlyByStaleCopy` bounds the damage for verdicts: only a handler
  that loaded the room before the verdict can undo it.
- Tic-tac-toe gives the verdict on the board in every game, and the machine keeps
  the priorities that the project's README states (line 204). The two lists of
  winning lines, in match-core and in bot-engine, agree.
- A room can drop out of the ticker's sight (a tick untracks it after it has been
  created again, or `PrimeMetrics` fails after a restart) and comes back with the
  next save, in practice with the next heartbeat.

- A record is loaded with its times in order whatever overlaps. Of the defaults of
  `normalizeStateDefaults` one is needed: `Resign` in a waiting room saves a game that is
  over and never started, and each load takes the creation of the room for its start.
  The others serve records of other versions only.
- Two rooms may draw the same code: the check of `generateUniqueRoomCode` leaves a
  window up to the save, in which the second room replaces the first
  (`ReplacedOnlyUnseen` says: then only, or by a handler with an old copy).
- A scan at the start finds every room that was stored throughout. Not so the rooms
  that the old pod of a rolling update creates behind the scan: nobody ticks them
  until somebody saves them again, with the next heartbeat.
- A page that left a room still hears it: `withAck` joins the channel that
  `leave_room` has just left, and a later room on the same connection does not take
  it out again. `HearsOnlyItsRoomOrOnesLeft` says that this is the only such case.
- A page that reconnects and whose `sync_state` fails is deaf until its next
  command; its heartbeats keep it up to date meanwhile (`PagesConverge`).
- Somebody may be shown as connected without being there: after a call that timed
  out, a session that was overwritten by a second room, a `MarkDisconnected` that
  failed, a room that could not be deleted, a restart of the gateway, and, without any
  failure, when an overlapping call of match-core saves a copy it loaded before
  `MarkDisconnected`: another player's heartbeat, or the tick, which holds its copy
  for up to 1.5 s while the engine thinks. The player has no socket any more, so nobody
  corrects it. Within the bounds and abstractions of section 7 those are all
  (`PresenceAccounted`).
- The chat keeps its newest messages and a page misses none that was broadcast.
- A sweep ends with the first error, so one unreadable record or one hung engine
  ends sweep after sweep before all rooms are visited. Two training rooms and an engine
  that hangs do the same: 2.5 s are too short for both. Only the random order of Go's
  maps, by which each room is the first of a sweep some time, serves the others in the
  end; what an aborted sweep has saved is not broadcast.
- Gauges and counters are exact while handlers do not overlap and Redis does not
  fail. `deleteRoom` reports the last state of a room before it deletes it, and
  `LeaveRoom` ignores that the deletion failed: after a restart whose `PrimeMetrics`
  failed too, that room is in the gauge and not in `activeRooms`; and the game of the
  machine that was resigned by leaving is counted, goes on, and is counted again when it
  ends (`ActiveRoomsAreTracked` and `FinishedCountedOnce` say by how much). A save whose
  answer was lost has ended a game that is not counted until something else is
  saved. When handlers overlap, a report after a concurrent delete leaves a room
  in the gauge for good, and a finished game may be counted twice, while `metrics.go` 62
  and 70 say "current" and "finished games". The series of a room stay one and truthful in any case.
- The gateway reads every answer of match-core as it was meant. It labels created
  rooms as match-core makes them, except for the mode words that carry the clock
  (`pvp_untimed`), which it would label "timed"; no page sends them.
- The easy chess machine plays the move it drew, each with its weight. An ordinary
  move is read as a promotion to a queen and matched all the same.
- Whoever is in the portal as a Google account has a login event, although answers
  come late: one that comes after logging out signs in again. login-service's main
  returns before its handlers end, so a login may be stored, not counted and not
  answered; the user who tries again has two events.
- *A divergence* (run `webrtc`): `ChessGame.tsx` 314 means to drop a page's own
  WebRTC signals, but compares the socket's id with the gateway's client id, which
  are never equal. White takes its own offer for black's, throws away the
  connection with the data channel and answers itself; black's answer is then
  ignored. The channel never opens and the chat stays on the relay. With the
  socket's id as `SenderID` the property holds.

## 7. Not modelled

Names, wording, PGN, timestamps that no decision reads (`LastSeenAt`, `JoinedAt`), the
rules of chess (external library) and with them the repetition rules, which a game
rebuilt from its FEN can never reach; the counters of HTTP requests, sockets and
joins; coaching texts; ICE candidates; the menu of the portal, resuming a saved game
and client telemetry; logging and tracing, TLS and HTTP plumbing; the manifests. The
tic-tac-toe page is a copy of the chess page with another board and is not modelled
apart. A chess and a tic-tac-toe room with the same code share a channel of the
gateway, which is named by the code alone: the gateway's models have one game.

Where a model has less than the code:

- `Gateway`: Socket.IO sends what was emitted without a connection after it connects.
  A create, join, command, synchronisation or chat message kept so is modelled, one at a
  time; a `leave_room` is not. It would be handled before the synchronisation of the
  connect, whose answer comes after the page has cleared its session and sets it
  again. A call of this browser loads and saves in one step; what it could do with an
  older copy is what another call's late save does, followed by the call.
- `RoomChat`: the append of a handler that looked up the chat state just before
  the last player's leave cleared it goes to a state that nobody reads any more; in the
  model it goes to the new one.
- `SignIn` has one tab of the portal. Two tabs share the storage and nothing else.
- `tictactoe` runs with two tokens, so a third one that joins a finished room
  whose seats were emptied is in the proofs (any set of tokens) and in `room`, not in
  that run.

## 8. What may follow

1. Proofs: that a sweep visits no room twice and stays within its deadline, the safety
   half of `EveryRoomServed`.
2. `Gateway` with two games, for rooms of the same code.
3. `RoomStore` and `Broadcast` composed: what a page shows while saves overwrite
   each other.

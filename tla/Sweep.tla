------------------------------- MODULE Sweep -------------------------------
(***************************************************************************)
(* One tick of match-core over all rooms of both runtimes: TickActiveRooms *)
(* of main.go and of the two services, called by the gateway's ticker with *)
(* a deadline.  The rooms are visited one after the other, in the order in *)
(* which Go happens to iterate the registry and the map activeRooms.  A    *)
(* room in training whose engine does not answer costs a call's timeout,   *)
(* and then its move is put off; the first error, or the deadline, ends    *)
(* the whole sweep, and what it collected is dropped.                      *)
(***************************************************************************)
EXTENDS Naturals, FiniteSets

CONSTANTS ChessRoom, TicTacToeRoom,  \* the tracked rooms of the two runtimes
          Training,                  \* those in which the machine is to move
          Unreadable,                \* those whose record may be undecodable
          Deadline,                  \* MatchCoreTimeoutMs, in half seconds
          BotTimeout                 \* BotEngineTimeoutMs, in half seconds

Rooms == ChessRoom \cup TicTacToeRoom

ASSUME SweepAssumption ==
  /\ ChessRoom \cap TicTacToeRoom = {}
  /\ Training \subseteq Rooms /\ Unreadable \subseteq Rooms
  /\ {Deadline, BotTimeout} \subseteq Nat \ {0} /\ BotTimeout <= Deadline

VARIABLES sweeping,   \* a sweep is under way
          todo,       \* rooms it has not visited
          runtime,    \* the runtime it is in: its rooms
          spent,      \* half seconds since it began
          collected,  \* rooms saved in this sweep, whose snapshots it will return
          due,        \* rooms whose flag has fallen or whose machine should move
          unseen,     \* rooms saved by a sweep and not shown to their pages yet
          engineUp,   \* the bot engine answers
          broken      \* rooms whose record cannot be decoded, until it expires

vars == <<sweeping, todo, runtime, spent, collected, due, unseen, engineUp, broken>>

Init ==
  /\ sweeping = FALSE /\ todo = {} /\ runtime = {} /\ spent = 0 /\ collected = {}
  /\ due = {} /\ unseen = {} /\ engineUp \in BOOLEAN /\ broken = Unreadable

\* The gateway's ticker fires; whichever runtime the registry names first begins.
Begin ==
  /\ ~sweeping /\ sweeping' = TRUE
  /\ todo' = Rooms /\ spent' = 0 /\ collected' = {}
  /\ runtime' \in {ChessRoom, TicTacToeRoom}
  /\ UNCHANGED <<due, unseen, engineUp, broken>>

\* (slip) The rooms are visited in a fixed order.
MayVisitFirst(r) == r \in todo \cap runtime /\ r = CHOOSE x \in todo \cap runtime : TRUE

\* listActiveRooms: any order.
MayVisit(r) == r \in todo \cap runtime

\* The sweep fails, and with it the gateway's call: nothing is broadcast.
Abort ==
  /\ sweeping' = FALSE /\ todo' = {} /\ runtime' = {} /\ spent' = 0
  /\ collected' = {}

Saved(r) ==
  /\ due' = due \ {r} /\ unseen' = unseen \cup {r}

\* A room whose record is gone or needs nothing, or one that only needs saving.
Visit(r) ==
  /\ sweeping /\ MayVisit(r) /\ r \notin broken
  /\ r \in due => r \notin Training \/ engineUp
  /\ todo' = todo \ {r}
  /\ IF r \in due THEN Saved(r) /\ collected' = collected \cup {r}
     ELSE UNCHANGED <<due, unseen, collected>>
  /\ UNCHANGED <<sweeping, runtime, spent, engineUp, broken>>

\* The engine does not answer in time: the move is put off and the room saved,
\* unless the deadline of the sweep comes first and fails the save too.
VisitHung(r) ==
  /\ sweeping /\ MayVisit(r) /\ r \notin broken
  /\ r \in due \cap Training /\ ~engineUp
  /\ IF spent + BotTimeout <= Deadline
     THEN /\ spent' = spent + BotTimeout
          /\ todo' = todo \ {r} /\ collected' = collected \cup {r} /\ Saved(r)
          /\ UNCHANGED <<sweeping, runtime>>
     ELSE Abort /\ UNCHANGED <<due, unseen>>
  /\ UNCHANGED <<engineUp, broken>>

\* GetRoom fails on a record it cannot decode.
VisitUnreadable(r) ==
  /\ sweeping /\ MayVisit(r) /\ r \in broken
  /\ Abort
  /\ UNCHANGED <<due, unseen, engineUp, broken>>

\* GetRoom or SaveRoom fails on Redis, at some room.
StoreFails ==
  /\ sweeping /\ todo \cap runtime # {} /\ Abort
  /\ UNCHANGED <<due, unseen, engineUp, broken>>

\* The other runtime's turn.
NextRuntime ==
  /\ sweeping /\ todo # {} /\ todo \cap runtime = {}
  /\ runtime' = todo
  /\ UNCHANGED <<sweeping, todo, spent, collected, due, unseen, engineUp, broken>>

\* The sweep is over and the gateway broadcasts each of its snapshots.
Finish ==
  /\ sweeping /\ todo = {} /\ Abort
  /\ unseen' = unseen \ collected
  /\ UNCHANGED <<due, engineUp, broken>>

\* A flag falls, or botMoveDelayMs has passed.
Becomes(r) ==
  /\ r \notin due \cup broken /\ due' = due \cup {r}
  /\ UNCHANGED <<sweeping, todo, runtime, spent, collected, unseen, engineUp, broken>>

\* The heartbeats of the room's pages show it all the same.
Heartbeat(r) ==
  /\ r \in unseen /\ unseen' = unseen \ {r}
  /\ UNCHANGED <<sweeping, todo, runtime, spent, collected, due, engineUp, broken>>

EngineChanges ==
  /\ engineUp' = ~engineUp
  /\ UNCHANGED <<sweeping, todo, runtime, spent, collected, due, unseen, broken>>

\* The record's time to live runs out.
Expires(r) ==
  /\ r \in broken /\ broken' = broken \ {r}
  /\ UNCHANGED <<sweeping, todo, runtime, spent, collected, due, unseen, engineUp>>

Next ==
  \/ Begin
  \/ \E r \in Rooms : Visit(r)
  \/ \E r \in Rooms : VisitHung(r)
  \/ \E r \in Rooms : VisitUnreadable(r)
  \/ StoreFails
  \/ NextRuntime
  \/ Finish
  \/ \E r \in Rooms : Becomes(r)
  \/ \E r \in Rooms : Heartbeat(r)
  \/ EngineChanges
  \/ \E r \in Rooms : Expires(r)

Spec == Init /\ [][Next]_vars

\* The first room of a sweep, in the runtime that happens to be first.
First(r) == spent = 0 /\ collected = {} /\ todo = Rooms /\ (Visit(r) \/ VisitHung(r))

\* Sweeps begin and go on.  Go iterates a map from a random place, so each room
\* that could be the first one of sweep after sweep is so some time.
Fairness ==
  /\ WF_vars(Begin) /\ WF_vars(NextRuntime) /\ WF_vars(Finish)
  /\ WF_vars(\E r \in Rooms : Visit(r) \/ VisitHung(r) \/ VisitUnreadable(r))
  /\ \A r \in Rooms : SF_vars(Begin /\ r \in runtime') /\ SF_vars(First(r))

LiveSpec == Spec /\ Fairness

-----------------------------------------------------------------------------

\* Every room is looked after in the end: a flag that fell is noticed and the
\* machine's move is made or put off, although a hung engine or a record that
\* cannot be read ends sweep after sweep before its end (service.go 567-604).
EveryRoomServed == \A r \in Rooms : r \in due ~> r \notin due
=============================================================================

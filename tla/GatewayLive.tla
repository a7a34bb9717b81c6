---------------------------- MODULE GatewayLive ----------------------------
(***************************************************************************)
(* The gateway when pages keep their heartbeat (ChessGame.tsx 485, every   *)
(* 15 s while connected with a session), the gateway handles what has      *)
(* arrived, and a heartbeat that is sent again and again is served by      *)
(* match-core some time.  Nothing else is promised: any other request may  *)
(* be refused or go unanswered, and connections may break at any time.     *)
(***************************************************************************)
EXTENDS Gateway

Fairness ==
  /\ WF_vars(Aside("heartbeat"))
  /\ \A s \in Socket :
       /\ WF_vars(Handle(s))
       /\ SF_vars(Heartbeat(s))
       /\ WF_vars(Disconnect(s))

LiveSpec == Spec /\ Fairness

Here(r, t) == link # NoSocket /\ page = [room |-> r, token |-> t]

\* A player or spectator whose page is connected is shown as connected in the
\* end, although the disconnect of an older socket of the same session may be
\* handled after the new one has synchronised (socket_server.go 479, 343).
PresenceRepaired ==
  \A r \in RoomCode, t \in Token :
    Here(r, t) /\ t \in members[r] ~> ~Here(r, t) \/ t \notin members[r] \/ t \in present[r]

\* Whoever is gone is shown as away in the end, unless the gateway lost track
\* of the session or match-core saved an older copy of the room: requests that are
\* still queued behind a broken connection may show it as connected again, but the
\* disconnect comes last.
GoneIsShownAway ==
  \A r \in RoomCode, t \in Token :
    link = NoSocket /\ t \in present[r] ~>
      \/ link # NoSocket \/ t \notin present[r]
      \/ t \in leaked \/ [room |-> r, token |-> t] \in restored
=============================================================================

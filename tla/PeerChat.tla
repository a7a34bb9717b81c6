------------------------------ MODULE PeerChat -------------------------------
(***************************************************************************)
(* How the pages of a room between two players open a WebRTC channel for   *)
(* their chat: white offers, whoever hears an offer answers, and the       *)
(* gateway sends every signal to the whole room, its sender included.      *)
(* Signals reach each page in the order in which they were emitted, and a  *)
(* page deals with one at a time.  ICE candidates are left out: they       *)
(* change neither a description nor who talks to whom.                     *)
(***************************************************************************)
EXTENDS Naturals, Sequences

CONSTANTS MaxSignals      \* bound on the signals emitted

VARIABLES online,    \* pages with a session at the gateway, and shown as connected
          peer,      \* peerConnectionRef of each page, or NoPeer
          offered,   \* pages with the room in offerRoomCodeRef
          inbox,     \* signals under way to each page
          emitted

vars == <<online, peer, offered, inbox, emitted>>

Page == {"white", "black", "spectator"}
Players == {"white", "black"}
Nobody == "nobody"

NoPeer == [signaling |-> "none", remote |-> Nobody]
Fresh == [signaling |-> "stable", remote |-> Nobody]

\* A page's socket has one id, and the session that the gateway binds to it another.
SocketId(p) == <<"socket", p>>
ClientId(p) == <<"client", p>>

Init ==
  /\ online = {} /\ offered = {} /\ emitted = 0
  /\ peer = [p \in Page |-> NoPeer]
  /\ inbox = [p \in Page |-> <<>>]

-----------------------------------------------------------------------------

\* emitSignal, and the gateway's broadcast of p's description to the pages in boxes.
EmitSignal(p, kind, boxes) ==
  LET signal == [kind |-> kind, of |-> p, sender |-> ClientId(p)] IN
  /\ emitted < MaxSignals /\ emitted' = emitted + 1
  /\ inbox' = [q \in Page |-> IF q \in online THEN Append(boxes[q], signal) ELSE boxes[q]]

EnsurePeerConnection(p) == IF peer[p] = NoPeer THEN Fresh ELSE peer[p]
Becomes(p, connection) == peer' = [peer EXCEPT ![p] = connection]
ResetPeerConnection(p) == Becomes(p, NoPeer) /\ offered' = offered \ {p}

Connect(p) ==
  /\ p \notin online /\ online' = online \cup {p}
  /\ UNCHANGED <<peer, offered, inbox, emitted>>

Disconnect(p) ==
  /\ p \in online /\ online' = online \ {p}
  /\ ResetPeerConnection(p)
  /\ inbox' = [inbox EXCEPT ![p] = <<>>]
  /\ UNCHANGED emitted

\* The effect on presence: a page that does not play, or sees a player away, has no
\* connection; white offers once for the room, from a connection that is stable.
MayOffer == "white" \notin offered /\ EnsurePeerConnection("white").signaling = "stable"

StartOffer ==
  /\ Players \subseteq online /\ MayOffer
  /\ Becomes("white", [EnsurePeerConnection("white") EXCEPT !.signaling = "have-local-offer"])
  /\ offered' = offered \cup {"white"}
  /\ EmitSignal("white", "offer", inbox)
  /\ UNCHANGED online

PlayerReady(p) ==
  /\ p \in Players /\ Players \subseteq online /\ (p = "white" => ~MayOffer)
  /\ Becomes(p, EnsurePeerConnection(p))
  /\ UNCHANGED <<online, offered, inbox, emitted>>

PeerAway(p) ==
  /\ p \in online /\ (p \notin Players \/ ~(Players \subseteq online))
  /\ ResetPeerConnection(p)
  /\ UNCHANGED <<online, inbox, emitted>>

-----------------------------------------------------------------------------
(* handleIncomingSignal *)

Signal(p) == Head(inbox[p])
Rest(p) == [inbox EXCEPT ![p] = Tail(@)]

\* The page takes the signal for its own.
Own(p) == Signal(p).sender = SocketId(p)

\* An answer to the offer, from a fresh connection if the present one is not stable.
AnswerOffer(p) ==
  /\ Signal(p).kind = "offer"
  /\ Becomes(p, [signaling |-> "stable", remote |-> Signal(p).of])
  /\ offered' = IF EnsurePeerConnection(p).signaling = "stable" THEN offered ELSE offered \ {p}
  /\ EmitSignal(p, "answer", Rest(p))

\* An answer is taken by a connection without a remote description; in the stable
\* state that fails, and the page goes on without.
TakeAnswer(p) ==
  LET connection == EnsurePeerConnection(p) IN
  /\ Signal(p).kind = "answer"
  /\ Becomes(p, IF connection.remote = Nobody /\ connection.signaling = "have-local-offer"
                THEN [signaling |-> "stable", remote |-> Signal(p).of] ELSE connection)
  /\ inbox' = Rest(p)
  /\ UNCHANGED <<offered, emitted>>

Pass(p) == Own(p) /\ inbox' = Rest(p) /\ UNCHANGED <<peer, offered, emitted>>

HandleIncomingSignal(p) ==
  /\ inbox[p] # <<>>
  /\ Pass(p) \/ (~Own(p) /\ (AnswerOffer(p) \/ TakeAnswer(p)))
  /\ UNCHANGED online

Next ==
  \/ StartOffer
  \/ \E p \in Page : Connect(p) \/ Disconnect(p) \/ PlayerReady(p) \/ PeerAway(p)
                     \/ HandleIncomingSignal(p)

Spec == Init /\ [][Next]_vars

-----------------------------------------------------------------------------

\* A page does not negotiate with itself: no signal of its own becomes the remote
\* description of its connection.  That is what ChessGame.tsx 314 is for; but the
\* gateway names the sender by the session's client id (socket_server.go 466), which
\* is never the socket's.
PeersWithOthers == \A p \in Page : peer[p].remote # p
=============================================================================

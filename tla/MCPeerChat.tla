---- MODULE MCPeerChat ----
EXTENDS PeerChat
====

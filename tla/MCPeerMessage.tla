---------------------------- MODULE MCPeerMessage ---------------------------
(* PeerMessage with a client that sends twice and one that sends once.     *)
EXTENDS PeerMessage
CONSTANTS c1, c2
Sends == [c \in Clients |-> IF c = c1 THEN 2 ELSE 1]
=============================================================================

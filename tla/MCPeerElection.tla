--------------------------- MODULE MCPeerElection ---------------------------
(* PeerElection with three processes, which exit or crash.                 *)
EXTENDS PeerElection
CONSTANTS p1, p2, p3
=============================================================================

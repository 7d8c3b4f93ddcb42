---------------------------- MODULE MCServiceUnix ----------------------------
(* ServiceUnix with two processes and two clients.                         *)
EXTENDS ServiceUnix
CONSTANTS p1, p2, c1, c2
=============================================================================

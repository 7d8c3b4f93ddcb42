---------------------------- MODULE MCServiceWin ----------------------------
(* ServiceWin: one process with its three threads.                         *)
EXTENDS ServiceWin
=============================================================================

--------------------------- MODULE MCLockedFileWin --------------------------
(* LockedFileWin with two or three objects.                                *)
EXTENDS LockedFileWin
CONSTANTS o1, o2, o3
=============================================================================

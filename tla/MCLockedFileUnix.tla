-------------------------- MODULE MCLockedFileUnix --------------------------
(* LockedFileUnix with three processes that have an object each.           *)
EXTENDS LockedFileUnix, TLC

CONSTANTS p1, p2, p3, o1, o2, o3

OneEach == o1 :> p1 @@ o2 :> p2 @@ o3 :> p3
=============================================================================

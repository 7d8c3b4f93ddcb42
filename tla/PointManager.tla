---------------------------- MODULE PointManager ----------------------------
(* A property of QtPointPropertyManager: x and y, any integers.            *)
EXTENDS SimpleProperty

CONSTANTS Points, Numbers     \* what a caller may set the point and a part to

VARIABLE point

NewPart(p) == NewInt
ToPart(v, p) == v[p]
FromPart(v, p, n) == [v EXCEPT ![p] = n]

Property ==
    INSTANCE PartsManager
    WITH prop <- point, Order <- <<"x", "y">>, Values <- Points,
         NewValue <- [x |-> 0, y |-> 0]
=============================================================================

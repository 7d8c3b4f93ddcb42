---------------------------- MODULE ColorManager ----------------------------
(***************************************************************************)
(* A property of QtColorPropertyManager: red, green, blue and alpha.  A    *)
(* QColor also knows how it is specified, and two colours of different     *)
(* specifications are not equal: a colour that is not valid or is given by *)
(* its hue is made an RGB one by a setter of red, green or blue.           *)
(***************************************************************************)
EXTENDS SimpleProperty

CONSTANTS Colors, Numbers     \* what a caller may set the colour and a part to

VARIABLE color

NewPart(p) == IntRange(IntValue(NewInt, IF p = "alpha" THEN 255 ELSE 0), 0, 255)
ToPart(v, p) == v[p]
FromPart(v, p, n) == [v EXCEPT ![p] = n, !.spec = IF p = "alpha" THEN @ ELSE "Rgb"]

Property ==
    INSTANCE PartsManager
    WITH prop <- color, Order <- <<"red", "green", "blue", "alpha">>, Values <- Colors,
         NewValue <- [spec |-> "Invalid", red |-> 0, green |-> 0, blue |-> 0, alpha |-> 255]

-----------------------------------------------------------------------------
(* A component fits into a byte whatever an editor of a part is given, and *)
(* a colour that is not valid is black.                                    *)
Inside ==
    /\ \A p \in {"red", "green", "blue", "alpha"} : color.val[p] \in 0 .. 255
    /\ color.val.spec = "Invalid" => \A p \in {"red", "green", "blue"} : color.val[p] = 0
=============================================================================

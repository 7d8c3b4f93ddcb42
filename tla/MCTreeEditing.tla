--------------------------- MODULE MCTreeEditing ----------------------------
(* Two items for one property, one of them below an item of the other one. *)
EXTENDS TreeEditing

MCParent == [i \in Item |-> IF i = "below" THEN "above" ELSE None]
MCPropertyOf == [i \in Item |-> IF i = "above" THEN "p" ELSE "q"]
=============================================================================

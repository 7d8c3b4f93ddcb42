----------------------------- MODULE MCScriptGC -----------------------------
(* Up to two QObjects, one the child of the other.                         *)
EXTENDS ScriptGC

MCBound(qs, b, s, f, v, e, h, w, c) ==
    [alive |-> qs, blocks |-> b, strings |-> s, frames |-> f, held |-> v, edges |-> e,
     handles |-> h, wrappers |-> w, connections |-> c]

MCBounds ==
    {MCBound({}, 3, 0, 3, 2, 0, 0, 0, 0),                   \* calls, of native functions too
     MCBound({}, 4, 0, 1, 2, 2, 0, 0, 0),                   \* objects
     MCBound({}, 3, 1, 1, 2, 1, 1, 0, 0),                   \* strings and handles
     MCBound({"parent", "child"}, 3, 0, 1, 2, 0, 0, 2, 1),  \* wrappers
     MCBound({"parent"}, 3, 0, 1, 2, 1, 0, 1, 1),           \* connections
     MCBound({"parent"}, 3, 0, 2, 1, 0, 0, 1, 1)}           \* signals

MCParentOf == [q \in QObject |-> IF q = "child" THEN "parent" ELSE "0"]
=============================================================================

---------------------------- MODULE BoxBrowsers -----------------------------
(***************************************************************************)
(* A browser that is either a group box browser or a button browser, and   *)
(* the operations that reach it: items that come and go, the timer, editors*)
(* that are destroyed by others, and the user at the buttons.              *)
(***************************************************************************)
EXTENDS WidgetItems

CONSTANTS HeadersDie, ReusesExpanded

VARIABLE browser

vars == <<itemVars, browser>>

GroupBox == INSTANCE GroupBoxBrowser
Button   == INSTANCE ButtonBrowser

ASSUME BoxBrowsersAssumption == GroupBox!HeadersDieAssumption /\ Button!ReusesExpandedAssumption

Init == NoItems /\ browser \in {"groupBox", "button"}

Next ==
    /\ \/ browser = "groupBox" /\ GroupBox!Next
       \/ browser = "button"   /\ Button!Next
    /\ UNCHANGED browser

Spec == Init /\ [][Next]_vars

(* Every item has its box or its label, or waits for it.  Of the group box *)
(* browser: editors are where their items are; of the button browser: what *)
(* is expanded is seen.                                                    *)
WidgetsPlaced ==
    /\ NothingLost
    /\ browser = "groupBox" => GroupBox!EditorsPlaced
    /\ browser = "button"   => Button!ExpandedShown
=============================================================================

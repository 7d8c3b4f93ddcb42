--------------------------- MODULE ButtonBrowser ----------------------------
(***************************************************************************)
(* QtButtonPropertyBrowser.  An item with children has a button in place   *)
(* of its label, which unfolds the container of the children in the row    *)
(* below, so that an expanded item takes two rows of the layout.           *)
(***************************************************************************)
EXTENDS WidgetItems, FiniteSets

CONSTANT ReusesExpanded  \* may an item that lost its last child while it was
                         \* expanded get another child?
ReusesExpandedAssumption == ReusesExpanded \in BOOLEAN

gridSpan(i) == IF item[i].box /\ item[i].expanded THEN 2 ELSE 1

gridRow(i) ==
    LET siblings == children[item[i].parent]
        index    == Index(siblings, i)
    IN  index + Cardinality({k \in 1 .. index : gridSpan(siblings[k]) = 2})

propertyInserted(i, p, after, cell, editor) ==
    /\ CanInsert(i, p, after)
    /\ (p # Root /\ item[p].expanded /\ ~item[p].box) => ReusesExpanded
    /\ LET row == IF after = First THEN 0 ELSE gridRow(after) + gridSpan(after)
           new == p # Root /\ ~item[p].box
           old == IF new THEN Put(Drop(at, {<<p, "label">>}), {<<p, "box">>}, gridRow(p))
                  ELSE at
       IN  /\ at' = Put(insertRow(old, p, row),
                        {<<i, "label">>} \cup IF cell THEN {<<i, "cell">>} ELSE {}, row)
           /\ queue' = IF new THEN queue \ {p} ELSE queue
    /\ TreeWith(i, p, after, editor)
    /\ UNCHANGED timer

\* Mutant: the row of the container is left in the layout.
PropertyRemovedKeepsRow(i) ==
    /\ CanRemove(i)
    /\ LET p    == item[i].parent
           rest == Drop(at, WidgetsOf(i))
           gone == Drop(rest, {<<p, "box">>, <<p, "container">>})
       IN  IF p = Root \/ Len(children[p]) > 1
           THEN /\ at' = removeRow(rest, p, gridRow(i))
                /\ queue' = queue \ {i}
                /\ UNCHANGED timer
           ELSE /\ at' = gone
                /\ queue' = Requeue(p, i)
                /\ timer' = TRUE
    /\ TreeWithout(i)

propertyRemoved(i) ==
    /\ CanRemove(i)
    /\ LET p    == item[i].parent
           rest == Drop(at, WidgetsOf(i))
           gone == Drop(rest, {<<p, "box">>, <<p, "container">>})
       IN  IF p = Root \/ Len(children[p]) > 1
           THEN /\ at' = removeRow(rest, p, gridRow(i))
                /\ queue' = queue \ {i}
                /\ UNCHANGED timer
           ELSE /\ at' = IF gridSpan(p) = 2
                         THEN removeRow(gone, item[p].parent, gridRow(p) + 1) ELSE gone
                /\ queue' = Requeue(p, i)
                /\ timer' = TRUE
    /\ TreeWithout(i)

(* The items in the queue get their label; their cell never left its row.  *)
slotUpdate ==
    /\ timer
    /\ LET new == queue \X {"label"}
       IN  at' = [w \in DOMAIN at \cup new |-> IF w \in new THEN gridRow(w[1]) ELSE at[w]]
    /\ queue' = {}
    /\ timer' = FALSE
    /\ UNCHANGED <<children, item>>

(* What the private setExpanded() does to the layout.                      *)
Unfold(i, expanded) ==
    LET l   == item[i].parent
        row == gridRow(i) + 1
    IN  IF item[i].expanded = expanded \/ ~item[i].box THEN UNCHANGED at
        ELSE IF expanded THEN at' = Put(insertRow(at, l, row), {<<i, "container">>}, row)
        ELSE at' = removeRow(Drop(at, {<<i, "container">>}), l, row)

(* The public setExpanded(); the button is checked along, and its signal   *)
(* finds nothing more to do.                                               *)
setExpanded(i, expanded) ==
    /\ i \in Exists
    /\ Unfold(i, expanded)
    /\ item' = IF item[i].box /\ item[i].expanded # expanded
               THEN [item EXCEPT ![i].expanded = expanded, ![i].checked = expanded] ELSE item
    /\ UNCHANGED <<children, queue, timer>>

(* The user clicks the button; a new button is not checked.                *)
slotToggled(i) ==
    /\ i \in Exists
    /\ item[i].box
    /\ LET checked == ~item[i].checked IN
       /\ Unfold(i, checked)
       /\ item' = [item EXCEPT ![i].expanded = checked, ![i].checked = checked]
    /\ UNCHANGED <<children, queue, timer>>

slotEditorDestroyed(i) ==
    /\ i \in Exists
    /\ item[i].editor
    /\ item' = [item EXCEPT ![i].editor = FALSE]
    /\ at' = Drop(at, {<<i, "cell">>})
    /\ UNCHANGED <<children, queue, timer>>

Next ==
    \/ \E i \in Item, p \in Exists \cup {Root} :
          \E after \in Item \cup {First}, cell, editor \in BOOLEAN :
             (editor => cell) /\ propertyInserted(i, p, after, cell, editor)
    \/ \E i \in Item : \/ propertyRemoved(i)
                       \/ slotEditorDestroyed(i)
                       \/ slotToggled(i)
                       \/ \E expanded \in BOOLEAN : setExpanded(i, expanded)
    \/ slotUpdate

(* isExpanded() tells whether the container is to be seen, the button is   *)
(* checked accordingly, and the container is right below the button.       *)
ExpandedShown ==
    \A i \in Exists :
        LET seen == <<i, "container">> \in DOMAIN at IN
        /\ item[i].box => (item[i].expanded <=> seen) /\ item[i].checked = seen
        /\ seen => item[i].box /\ at[<<i, "container">>] = at[<<i, "box">>] + 1
=============================================================================

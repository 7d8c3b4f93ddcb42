-------------------------- MODULE GroupBoxBrowser ---------------------------
(***************************************************************************)
(* QtGroupBoxPropertyBrowser.  An item with children is a group box; if it *)
(* has an editor, the box starts with it and a line, and its children      *)
(* follow two rows below.  When the last child goes the box is deleted at  *)
(* once, the editor saved from it, and a timer makes the item a row again. *)
(***************************************************************************)
EXTENDS WidgetItems

CONSTANT HeadersDie    \* may an editor that heads a box be destroyed by others?
HeadersDieAssumption == HeadersDie \in BOOLEAN

hasHeader(p) == p # Root /\ item[p].editor

Row(i) ==
    LET p == item[i].parent
    IN  Index(children[p], i) + IF hasHeader(p) THEN 2 ELSE 0

(* Item p becomes a box: its label and its text are deleted, its editor    *)
(* moves into the box.                                                     *)
Boxed(p) ==
    LET rest == Drop(at, {<<p, "label">>, <<p, "cell">>})
        head == IF item[p].editor
                THEN Put(Put(rest, {<<p, "header">>}, 0), {<<p, "line">>}, 1) ELSE rest
    IN  Put(head, {<<p, "box">>}, Row(p))

\* Mutant: an item in the queue that gets a child stays in the queue.
PropertyInsertedKeepsQueue(i, p, after, editor) ==
    /\ CanInsert(i, p, after)
    /\ LET row == (IF after = First THEN 0 ELSE Index(children[p], after) + 1)
                    + IF hasHeader(p) THEN 2 ELSE 0
           new == p # Root /\ ~item[p].box
           old == IF new THEN Boxed(p) ELSE at
       IN  at' = Put(insertRow(old, p, row), {<<i, "label">>, <<i, "cell">>}, row)
    /\ TreeWith(i, p, after, editor)
    /\ UNCHANGED <<queue, timer>>

propertyInserted(i, p, after, editor) ==
    /\ CanInsert(i, p, after)
    /\ LET row == (IF after = First THEN 0 ELSE Index(children[p], after) + 1)
                    + IF hasHeader(p) THEN 2 ELSE 0
           new == p # Root /\ ~item[p].box
           old == IF new THEN Boxed(p) ELSE at
       IN  /\ at' = Put(insertRow(old, p, row), {<<i, "label">>, <<i, "cell">>}, row)
           /\ queue' = IF new THEN queue \ {p} ELSE queue
    /\ TreeWith(i, p, after, editor)
    /\ UNCHANGED timer

propertyRemoved(i) ==
    /\ CanRemove(i)
    /\ LET p    == item[i].parent
           rest == Drop(at, WidgetsOf(i))
       IN  IF p = Root \/ Len(children[p]) > 1
           THEN /\ at' = removeRow(rest, p, Row(i))
                /\ queue' = queue \ {i}
                /\ UNCHANGED timer
           ELSE /\ at' = Drop(rest, {<<p, "box">>, <<p, "header">>, <<p, "line">>})
                /\ queue' = Requeue(p, i)
                /\ timer' = TRUE
    /\ TreeWithout(i)

\* Mutant: the editor is given a parent, but no place in the layout.
SlotUpdateLabels ==
    /\ timer
    /\ LET new == queue \X {"label"}
       IN  at' = [w \in DOMAIN at \cup new |-> IF w \in new THEN Row(w[1]) ELSE at[w]]
    /\ queue' = {}
    /\ timer' = FALSE
    /\ UNCHANGED <<children, item>>

(* The items in the queue get their label, and their editor or the text.   *)
slotUpdate ==
    /\ timer
    /\ LET new == queue \X {"label", "cell"}
       IN  at' = [w \in DOMAIN at \cup new |-> IF w \in new THEN Row(w[1]) ELSE at[w]]
    /\ queue' = {}
    /\ timer' = FALSE
    /\ UNCHANGED <<children, item>>

slotEditorDestroyed(i) ==
    /\ i \in Exists
    /\ item[i].editor
    /\ HeadersDie \/ ~item[i].box
    /\ item' = [item EXCEPT ![i].editor = FALSE]
    /\ at' = Drop(at, {<<i, IF item[i].box THEN "header" ELSE "cell">>})
    /\ UNCHANGED <<children, queue, timer>>

Next ==
    \/ \E i \in Item, p \in Exists \cup {Root} :
          \E after \in Item \cup {First}, editor \in BOOLEAN :
             propertyInserted(i, p, after, editor)
    \/ \E i \in Item : propertyRemoved(i) \/ slotEditorDestroyed(i)
    \/ slotUpdate

(* An editor is in its row or heads the box of its item, unless the item   *)
(* waits for its row: it outlives the box that is deleted around it.       *)
EditorsPlaced ==
    \A i \in Exists :
        item[i].editor /\ i \notin queue =>
            <<i, IF item[i].box THEN "header" ELSE "cell">> \in DOMAIN at
=============================================================================

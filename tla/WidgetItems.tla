---------------------------- MODULE WidgetItems -----------------------------
(***************************************************************************)
(* What the group box browser and the button browser have in common: the   *)
(* tree of their widget items and the grid layouts in which the widgets of *)
(* an item have a row.  The base class tells the browser of every browser  *)
(* item that is inserted or about to be deleted, items below others last   *)
(* and first (PropertyBrowser).                                            *)
(*                                                                         *)
(* A widget is the pair of its item and of what it is for:                 *)
(*   "label"      the name of an item that has no children                 *)
(*   "cell"       its editor, or the text of its value if it has no editor *)
(*   "box"        the group box or the button of an item with children     *)
(*   "container"  what a button unfolds                                    *)
(*   "header", "line"  the editor of an item that has a group box, and the *)
(*                line under it                                            *)
(* The last two are in the layout of the box of their item, the others in  *)
(* the layout of the box of its parent.                                    *)
(***************************************************************************)
EXTENDS Integers, Sequences, SequencesExt

CONSTANTS
    Item,      \* the browser items that may come and go
    Root,      \* the browser itself: 0 as the parent of an item
    First      \* 0 as the item after which another is inserted

ASSUME WidgetItemsAssumption == {Root, First} \cap Item = {} /\ Root # First

VARIABLES
    children,  \* children[p]: the items below p, m_children for Root
    item,      \* item[i]: its parent; editor: it has one (widget # 0);
               \* box: it has a group box, or a button with a container;
               \* expanded; checked: of its button
    at,        \* at[w]: the row of a widget w that is in a layout
    queue,     \* m_recreateQueue: items that lost their box and wait for
               \* the label, and the editor, in its place.  It is a set: no
               \* item is appended twice, and the rows that slotUpdate()
               \* gives them do not depend on their order
    timer      \* a call of slotUpdate() is due

itemVars == <<children, item, at, queue, timer>>

Exists == DOMAIN item

Index(s, i) == (CHOOSE k \in DOMAIN s : s[k] = i) - 1

Without(s, i) == RemoveAt(s, Index(s, i) + 1)

WidgetsOf(i) == {<<i, k>> : k \in {"label", "cell", "box", "container", "header", "line"}}

Layout(w) == IF w[2] \in {"header", "line"} THEN w[1] ELSE item[w[1]].parent

Drop(rows, ws) == [w \in DOMAIN rows \ ws |-> rows[w]]

Put(rows, ws, row) == [w \in DOMAIN rows \cup ws |-> IF w \in ws THEN row ELSE rows[w]]

Shift(rows, layout, from, by) ==
    [w \in DOMAIN rows |-> IF Layout(w) = layout /\ rows[w] >= from
                           THEN rows[w] + by ELSE rows[w]]

insertRow(rows, layout, row) == Shift(rows, layout, row, 1)

removeRow(rows, layout, row) == Shift(rows, layout, row + 1, -1)

(* The tree after item i is inserted under p and after it is deleted.      *)
TreeWith(i, p, after, editor) ==
    LET k == IF after = First THEN 1 ELSE Index(children[p], after) + 2 IN
    /\ children' = [q \in DOMAIN children \cup {i} |->
                      IF q = i THEN <<>>
                      ELSE IF q = p THEN InsertAt(children[p], k, i) ELSE children[q]]
    /\ item' = [j \in Exists \cup {i} |->
                  IF j = i THEN [parent |-> p, editor |-> editor, box |-> FALSE,
                                 expanded |-> FALSE, checked |-> FALSE]
                  ELSE IF j = p THEN [item[j] EXCEPT !.box = TRUE] ELSE item[j]]

TreeWithout(i) ==
    LET p == item[i].parent IN
    /\ children' = [q \in DOMAIN children \ {i} |->
                      IF q = p THEN Without(children[p], i) ELSE children[q]]
    /\ item' = [j \in Exists \ {i} |->
                  IF j = p /\ Len(children[p]) = 1
                  THEN [item[j] EXCEPT !.box = FALSE, !.checked = FALSE] ELSE item[j]]

(* p is appended to the queue, and i taken from it.                        *)
Requeue(p, i) == (queue \cup {p}) \ {i}

NoItems ==
    /\ children = [r \in {Root} |-> <<>>]
    /\ item = [i \in {} |-> {}]
    /\ at = [w \in {} |-> 0]
    /\ queue = {}
    /\ timer = FALSE

CanInsert(i, p, after) ==
    /\ i \in Item \ Exists
    /\ p \in Exists \cup {Root}
    /\ after \in ToSet(children[p]) \cup {First}

CanRemove(i) == i \in Exists /\ children[i] = <<>>

-----------------------------------------------------------------------------
(* In every layout the rows of the items are in the order of the items,    *)
(* one above the other, below the header if there is one; the label (or    *)
(* the box) and the cell of an item are in the same row.  The rows are     *)
(* counted anew from the list of items for each change, while the layout   *)
(* keeps them: the two must agree, also for items that wait for their      *)
(* label and have no widget in the layout.                                 *)
RowsInOrder ==
    /\ \A p \in DOMAIN children : \A j, k \in DOMAIN children[p] :
          LET Rows(n) == {at[w] : w \in (WidgetsOf(children[p][n]) \cap DOMAIN at)
                                          \ ({children[p][n]} \X {"header", "line"})}
              Header  == {at[w] : w \in ({p} \X {"header", "line"}) \cap DOMAIN at}
          IN  /\ j < k => \A x \in Rows(j), y \in Rows(k) : x < y
              /\ \A x \in Header, y \in Rows(j) : x < y
    /\ \A i \in Exists : \A v, w \in ({i} \X {"label", "cell", "box"}) \cap DOMAIN at :
          at[v] = at[w]

(* Every item has a box exactly if it has children, and otherwise a label  *)
(* or a place in the queue, with a call of slotUpdate() due; the queue     *)
(* holds no item that is deleted and none with children, and no layout has *)
(* a widget of an item that is deleted.                                    *)
NothingLost ==
    /\ \A i \in Exists :
          LET Has(k) == <<i, k>> \in DOMAIN at IN
          /\ item[i].box <=> children[i] # <<>>
          /\ Has("box") <=> item[i].box
          /\ Has("label") <=> ~item[i].box /\ i \notin queue
    /\ queue \subseteq {i \in Exists : children[i] = <<>>}
    /\ queue # {} => timer
    /\ DOMAIN at \subseteq UNION {WidgetsOf(i) : i \in Exists}
=============================================================================

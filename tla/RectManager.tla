---------------------------- MODULE RectManager -----------------------------
(***************************************************************************)
(* A rectangle property of QtRectPropertyManager and its four parts, which *)
(* belong to the QtIntPropertyManager inside it.  Each manager sets the    *)
(* properties of the other and hears of the change while it is still in    *)
(* its own setter: slotIntChanged() calls setValue() again before the      *)
(* outer setValue() has set the other parts.  The operators pass the state *)
(* through these nested calls in the order of the code; an action is one   *)
(* call from outside with all it causes.                                   *)
(*                                                                         *)
(* The constructor connects the manager to its parts before anybody else   *)
(* can, so that the editors of a part are told last, and with the value    *)
(* the signal was sent with.                                               *)
(***************************************************************************)
EXTENDS SimpleProperty

CONSTANTS
    Rects,        \* the rectangles a caller may pass, normalised
    Numbers,      \* the numbers an editor may set a part to
    Destroyable   \* the parts that may be destroyed on their own

Part == {"x", "y", "w", "h"}

RectAssumption ==
    /\ Rects \subseteq [Part -> Int] /\ \A r \in Rects : r.w >= 0 /\ r.h >= 0
    /\ Numbers \subseteq Int
    /\ Destroyable \subseteq Part

VARIABLE rect     \* val, con: the value and the constraint
                  \* part[p]: the data of p in the QtIntPropertyManager
                  \* live: the parts that are not destroyed
                  \* heard: the value of the last valueChanged()
                  \* shown[p]: the value the editors of p were told last

NullRect == [x |-> 0, y |-> 0, w |-> 0, h |-> 0]

IsNull(r) == r.w = 0 /\ r.h = 0

(* QRect::contains(): never true of a null rectangle.                      *)
Contains(c, r) ==
    /\ ~IsNull(c) /\ ~IsNull(r)
    /\ r.x >= c.x /\ r.x + r.w <= c.x + c.w
    /\ r.y >= c.y /\ r.y + r.h <= c.y + c.h

(* The overlap of c and r; of negative width or height if there is none.   *)
Clip(c, r) ==
    LET left == Larger(c.x, r.x)
        top  == Larger(c.y, r.y)
    IN  [x |-> left, w |-> Smaller(c.x + c.w, r.x + r.w) - left,
         y |-> top,  h |-> Smaller(c.y + c.h, r.y + r.h) - top]

(* setConstraint() shrinks the value and moves it into c.                  *)
MoveInto(c, r) ==
    LET w == Smaller(r.w, c.w)
        h == Smaller(r.h, c.h)
        Between(pos, len, from, size) ==
            IF pos < from THEN from
            ELSE IF pos + len > from + size THEN from + size - len ELSE pos
    IN  [x |-> Between(r.x, w, c.x, c.w), w |-> w,
         y |-> Between(r.y, h, c.y, c.h), h |-> h]

(* The value with part p set to v; what gets too wide for the constraint   *)
(* is moved to the left, what gets too high upwards.                       *)
WithPart(s, p, v) ==
    LET r   == [s.val EXCEPT ![p] = v]
        pos == IF p = "w" THEN "x" ELSE "y"
        end == s.con[pos] + s.con[p]
    IN  IF p \in {"w", "h"} /\ ~IsNull(s.con) /\ end < r[pos] + v
        THEN [r EXCEPT ![pos] = end - v]
        ELSE r

-----------------------------------------------------------------------------
RECURSIVE setValue(_, _), SetPart(_, _, _)

(* Part p has new data: slotIntChanged(), then its editors, if the value   *)
(* is another one.                                                         *)
PartChanged(s, p, d) ==
    LET t == [s EXCEPT !.part[p] = d] IN
    IF d.val = s.part[p].val THEN t
    ELSE [setValue(t, WithPart(t, p, d.val)) EXCEPT !.shown[p] = d.val]

\* m_intPropertyManager->setValue() and setRange(); without effect on a 0.
SetPart(s, p, v) ==
    IF p \in s.live THEN PartChanged(s, p, IntValue(s.part[p], v)) ELSE s

SetPartRange(s, p, lo, hi) ==
    IF p \in s.live THEN PartChanged(s, p, IntRange(s.part[p], lo, hi)) ELSE s

SetParts(s, r) ==
    SetPart(SetPart(SetPart(SetPart(s, "x", r.x), "y", r.y), "w", r.w), "h", r.h)

\* Mutant: a value outside of the constraint is taken as it is.
SetValueUnclipped(s, v) ==
    LET new == v
    IN  IF new.w < 0 \/ new.h < 0 \/ new = s.val THEN s
        ELSE [SetParts([s EXCEPT !.val = new], new) EXCEPT !.heard = new]

\* Mutant: the parts are set before the new value is stored.
SetValueLate(s, v) ==
    LET new == IF IsNull(s.con) \/ Contains(s.con, v) THEN v ELSE Clip(s.con, v)
    IN  IF new.w < 0 \/ new.h < 0 \/ new = s.val THEN s
        ELSE LET t == SetParts([s EXCEPT !.heard = new], new)
             IN  [t EXCEPT !.val = new]

setValue(s, v) ==
    LET new == IF IsNull(s.con) \/ Contains(s.con, v) THEN v ELSE Clip(s.con, v)
    IN  IF new.w < 0 \/ new.h < 0 \/ new = s.val THEN s
        ELSE [SetParts([s EXCEPT !.val = new], new) EXCEPT !.heard = new]

(* The private setConstraint(): new ranges for the parts, then new values. *)
ConstrainParts(s, c, v) ==
    LET Lo(pos)      == IF IsNull(c) THEN INT_MIN ELSE c[pos]
        Hi(pos, len) == IF IsNull(c) THEN INT_MAX ELSE c[pos] + c[len]
        Size(len)    == IF IsNull(c) THEN INT_MAX ELSE c[len]
        x == SetPartRange(s, "x", Lo("x"), Hi("x", "w"))
        y == SetPartRange(x, "y", Lo("y"), Hi("y", "h"))
        w == SetPartRange(y, "w", 0, Size("w"))
        h == SetPartRange(w, "h", 0, Size("h"))
    IN  SetParts(h, v)

setConstraint(s, c) ==
    LET new == IF IsNull(c) \/ Contains(c, s.val) THEN s.val ELSE MoveInto(c, s.val)
        t   == ConstrainParts([s EXCEPT !.con = c, !.val = new], c, new)
    IN  IF c = s.con THEN s
        ELSE IF new = s.val THEN t
        ELSE [t EXCEPT !.heard = new]

-----------------------------------------------------------------------------
(* initializeProperty(): width and height get 0 as their minimum.          *)
Init ==
    rect = [val |-> NullRect, con |-> NullRect,
            part |-> [p \in Part |-> IF p \in {"w", "h"} THEN WithMinimum(NewInt, 0)
                                     ELSE NewInt],
            live |-> Part, heard |-> NullRect, shown |-> [p \in Part |-> 0]]

SetValue(r) == rect' = setValue(rect, r)

SetConstraint(r) == rect' = setConstraint(rect, r)

(* An editor of part p, or a program that has it, sets its value.          *)
EditPart(p, v) == rect' = SetPart(rect, p, v)

(* Part p is deleted: slotPropertyDestroyed().                             *)
DestroyPart(p) ==
    /\ p \in rect.live
    /\ rect' = [rect EXCEPT !.live = @ \ {p}, !.part[p] = NewInt, !.shown[p] = 0]

Next ==
    \/ \E r \in Rects : SetValue(r) \/ SetConstraint(r)
    \/ \E p \in Part, v \in Numbers : EditPart(p, v)
    \/ \E p \in Destroyable : DestroyPart(p)

-----------------------------------------------------------------------------
(* Nested properties are updated automatically (doc of setValue()): each   *)
(* part that is left has the value and the range that follow from the      *)
(* value and the constraint of the rectangle.                              *)
PartsFollow ==
    /\ \A p \in rect.live : rect.part[p].val = rect.val[p]
    /\ IsNull(rect.con) \/ \A p \in rect.live :
          LET d == rect.part[p] IN
          IF p \in {"w", "h"} THEN d.min = 0 /\ d.max = rect.con[p]
          ELSE /\ d.min = rect.con[p]
               /\ d.max = rect.con[p] + rect.con[IF p = "x" THEN "w" ELSE "h"]

(* The current value stays inside the constraint (doc of setConstraint()). *)
Inside ==
    \/ IsNull(rect.con)
    \/ Contains(rect.con, rect.val)
    \/ IsNull(rect.val) /\ rect.con.x <= rect.val.x /\ rect.val.x <= rect.con.x + rect.con.w
                        /\ rect.con.y <= rect.val.y /\ rect.val.y <= rect.con.y + rect.con.h

(* Whoever listens to valueChanged() was told the present value last, of   *)
(* the rectangle and of its parts.                                         *)
ListenersKnow ==
    /\ rect.heard = rect.val
    /\ \A p \in rect.live : rect.shown[p] = rect.part[p].val

(* A value that fits into the constraint is the one that setValue() sets.  *)
Obeys ==
    \A r \in Rects : IsNull(rect.con) \/ Contains(rect.con, r) => setValue(rect, r).val = r
=============================================================================

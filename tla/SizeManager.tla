---------------------------- MODULE SizeManager -----------------------------
(***************************************************************************)
(* A size property of QtSizePropertyManager: a value between a minimum and *)
(* a maximum, and a part for its width and its height each.  The calls     *)
(* nest as they do in RectManager.                                         *)
(***************************************************************************)
EXTENDS SimpleProperty

CONSTANTS
    Sizes,      \* the sizes a caller may pass
    Lengths     \* the numbers an editor may set a part to

Part == {"w", "h"}

SizeAssumption ==
    /\ Sizes \subseteq [Part -> Int]
    /\ Lengths \subseteq Int

VARIABLE size     \* val, min, max; part[p]: the data of p in the
                  \* QtIntPropertyManager; live: the parts not destroyed
                  \* heard: the value of the last valueChanged()
                  \* shown[p]: the value the editors of p were told last

PerPart(Op(_, _), a, b) == [p \in Part |-> Op(a[p], b[p])]

RECURSIVE setValue(_, _), SetPart(_, _, _)

\* Part p has new data: slotIntChanged(), then its editors.
PartChanged(s, p, d) ==
    LET t == [s EXCEPT !.part[p] = d] IN
    IF d.val = s.part[p].val THEN t
    ELSE [setValue(t, [t.val EXCEPT ![p] = d.val]) EXCEPT !.shown[p] = d.val]

SetPart(s, p, v) ==
    IF p \in s.live THEN PartChanged(s, p, IntValue(s.part[p], v)) ELSE s

SetPartRange(s, p) ==
    IF p \in s.live THEN PartChanged(s, p, IntRange(s.part[p], s.min[p], s.max[p])) ELSE s

(* setValueInRange(): the value is brought into the range first; the       *)
(* signal carries what it is after the parts are set.                      *)
setValue(s, v) ==
    LET new == [p \in Part |-> IF s.min[p] > v[p] THEN s.min[p] ELSE Smaller(v[p], s.max[p])]
        t   == SetPart(SetPart([s EXCEPT !.val = new], "w", new.w), "h", new.h)
    IN  IF v = s.val \/ new = s.val THEN s ELSE [t EXCEPT !.heard = t.val]

(* What setBorderValue() and setBorderValues() do after they have changed  *)
(* the data of s to those of t: the private setRange(), then the signals.  *)
NewBorders(s, t) ==
    LET w == SetPart(SetPartRange(t, "w"), "w", t.val.w)
        h == SetPart(SetPartRange(w, "h"), "h", t.val.h)
    IN  IF h.val = s.val THEN h ELSE [h EXCEPT !.heard = h.val]

(* setSizeMinimumData() and setSizeMaximumData().                          *)
AtLeast(s, m) == [s EXCEPT !.min = m, !.max = PerPart(Larger, @, m),
                           !.val = PerPart(Larger, @, m)]
AtMost(s, m)  == [s EXCEPT !.max = m, !.min = PerPart(Smaller, @, m),
                           !.val = PerPart(Smaller, @, m)]

-----------------------------------------------------------------------------
Init ==
    LET zero == [p \in Part |-> 0] IN
    size = [val |-> zero, min |-> zero, max |-> [p \in Part |-> INT_MAX],
            part |-> [p \in Part |-> WithMinimum(NewInt, 0)], live |-> Part,
            heard |-> zero, shown |-> zero]

SetValue(v) == size' = setValue(size, v)

SetMinimum(m) ==
    /\ size.min # m
    /\ size' = NewBorders(size, AtLeast(size, m))

SetMaximum(m) ==
    /\ size.max # m
    /\ size' = NewBorders(size, AtMost(size, m))

(* setRange(a, b); orderSizeBorders() swaps widths and heights that come   *)
(* in the wrong order.                                                     *)
SetRange(a, b) ==
    LET lo == PerPart(Smaller, a, b)
        hi == PerPart(Larger, a, b)
    IN  /\ size.min # lo \/ size.max # hi
        /\ size' = NewBorders(size, AtMost(AtLeast(size, lo), hi))

EditPart(p, v) == size' = SetPart(size, p, v)

\* slotPropertyDestroyed()
DestroyPart(p) ==
    /\ p \in size.live
    /\ size' = [size EXCEPT !.live = @ \ {p}, !.part[p] = NewInt, !.shown[p] = 0]

Next ==
    \/ \E v \in Sizes : SetValue(v) \/ SetMinimum(v) \/ SetMaximum(v)
    \/ \E a, b \in Sizes : SetRange(a, b)
    \/ \E p \in Part, v \in Lengths : EditPart(p, v)
    \/ \E p \in Part : DestroyPart(p)

-----------------------------------------------------------------------------
(* Each part that is left has the value of the size, and its range once    *)
(* the size was given one (doc of setRange()).                             *)
PartsFollow ==
    \A p \in size.live :
        /\ size.part[p].val = size.val[p]
        /\ <<size.part[p].min, size.part[p].max>> = <<size.min[p], size.max[p]>>

(* The value remains within the range and the range remains one.           *)
Inside ==
    \A p \in Part : size.min[p] <= size.val[p] /\ size.val[p] <= size.max[p]

(* Whoever listens to valueChanged() was told the present value last.      *)
ListenersKnow ==
    /\ size.heard = size.val
    /\ \A p \in size.live : size.shown[p] = size.part[p].val

(* A value in the range is the one that setValue() sets.                   *)
Obeys ==
    \A v \in Sizes : (\A p \in Part : size.min[p] <= v[p] /\ v[p] <= size.max[p])
                        => setValue(size, v).val = v
=============================================================================

---------------------------- MODULE PartsManager ----------------------------
(***************************************************************************)
(* A property of a manager that does no more than to keep a value and its  *)
(* parts equal, as the managers of points, size policies and colours do.   *)
(* A setter runs to its end with the slots that it calls, and these may    *)
(* call the setter again.                                                  *)
(***************************************************************************)
EXTENDS SimpleProperty, SequencesExt

CONSTANTS
    Order,              \* the parts, as setValue() sets them
    Values, Numbers,    \* what a caller may set the value and a part to
    NewValue,           \* the value of a new property
    NewPart(_),         \* the data of a new part
    ToPart(_, _),       \* what a value is for a part
    FromPart(_, _, _)   \* a value whose part has become a number

Part == Range(Order)

VARIABLE prop     \* val; part[p]: the data of p in its manager; live: the
                  \* parts not destroyed
                  \* heard: the value of the last valueChanged()
                  \* shown[p]: the value the editors of p were told last

\* setValue() of the manager of the part.
WithValue(d, n) == IF "names" \in DOMAIN d THEN EnumValue(d, n) ELSE IntValue(d, n)

RECURSIVE setValue(_, _)

\* The part changes: slotIntChanged() or slotEnumChanged(), then its editors.
SetPart(s, p, n) ==
    LET d == WithValue(s.part[p], n) IN
    IF p \notin s.live \/ d.val = s.part[p].val THEN s
    ELSE [setValue([s EXCEPT !.part[p] = d], FromPart(s.val, p, d.val))
            EXCEPT !.shown[p] = d.val]

\* Mutant: the slots of the parts are left to put the value together.
SetValueByParts(s, v) ==
    IF v = s.val THEN s
    ELSE [FoldLeft(LAMBDA t, p : SetPart(t, p, ToPart(v, p)), s, Order) EXCEPT !.heard = v]

(* The value is set before the parts are, so that the slots find what they *)
(* are to set.                                                             *)
setValue(s, v) ==
    IF v = s.val THEN s
    ELSE [FoldLeft(LAMBDA t, p : SetPart(t, p, ToPart(v, p)), [s EXCEPT !.val = v], Order)
            EXCEPT !.heard = v]

-----------------------------------------------------------------------------
Init ==
    prop = [val |-> NewValue, part |-> [p \in Part |-> NewPart(p)], live |-> Part,
            heard |-> NewValue, shown |-> [p \in Part |-> NewPart(p).val]]

SetValue(v) == prop' = setValue(prop, v)

EditPart(p, n) == prop' = SetPart(prop, p, n)

\* slotPropertyDestroyed()
DestroyPart(p) ==
    /\ p \in prop.live
    /\ prop' = [prop EXCEPT !.live = @ \ {p}, !.part[p] = NewPart(p),
                            !.shown[p] = NewPart(p).val]

Next ==
    \/ \E v \in Values : SetValue(v)
    \/ \E p \in Part :
          \/ \E n \in Numbers : EditPart(p, n)
          \/ DestroyPart(p)

-----------------------------------------------------------------------------
(* Each part that is left has its share of the value.                      *)
PartsFollow == \A p \in prop.live : prop.part[p].val = ToPart(prop.val, p)

(* Whoever listens to valueChanged() was told the present value last.      *)
ListenersKnow ==
    /\ prop.heard = prop.val
    /\ \A p \in prop.live : prop.shown[p] = prop.part[p].val

(* setValue() sets the value it is given.                                  *)
Obeys == \A v \in Values : setValue(prop, v).val = v
=============================================================================

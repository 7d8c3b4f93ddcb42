---------------------------- MODULE FlagManager -----------------------------
(***************************************************************************)
(* A flag property of QtFlagPropertyManager: a bit for each of its names,  *)
(* and a part for each bit, a property of the QtBoolPropertyManager.  New  *)
(* names destroy all parts and make others.  The calls nest as in          *)
(* RectManager.                                                            *)
(***************************************************************************)
EXTENDS Integers, Sequences

CONSTANT FlagLists      \* the lists of names a caller may pass
FlagAssumption == \A names \in FlagLists : names \in Seq(STRING)

VARIABLE flag     \* val; names; part[k]: the value of the part of bit k - 1
                  \* live: the bits whose part is not destroyed
                  \* heard: the value of the last valueChanged()
                  \* shown[k]: the value the editors of part k were told last

Bit(v, k) == (v \div 2^(k - 1)) % 2 = 1

WithBit(v, k, b) ==
    IF Bit(v, k) = b THEN v ELSE IF b THEN v + 2^(k - 1) ELSE v - 2^(k - 1)

-----------------------------------------------------------------------------
RECURSIVE setValue(_, _)

\* m_boolPropertyManager->setValue() and slotBoolChanged()
SetPart(s, k, b) ==
    IF k \notin s.live \/ s.part[k] = b THEN s
    ELSE [setValue([s EXCEPT !.part[k] = b], WithBit(s.val, k, b)) EXCEPT !.shown[k] = b]

setValue(s, v) ==
    LET upTo[k \in 0 .. Len(s.names)] ==   \* after the parts up to k are set
            IF k = 0 THEN [s EXCEPT !.val = v]
            ELSE LET before == upTo[k - 1] IN SetPart(before, k, Bit(v, k))
    IN  IF v = s.val \/ v > 2^Len(s.names) - 1 \/ v < 0 THEN s
        ELSE [upTo[Len(s.names)] EXCEPT !.heard = v]

setFlagNames(s, names) ==
    LET off == [k \in DOMAIN names |-> FALSE]
    IN  [val |-> 0, names |-> names, part |-> off, live |-> DOMAIN names,
         heard |-> 0, shown |-> off]

-----------------------------------------------------------------------------
Init == flag = [val |-> -1, names |-> <<>>, part |-> <<>>, live |-> {},
                heard |-> -1, shown |-> <<>>]

Values == -1 .. 2^Len(flag.names)

SetValue(v) == flag' = setValue(flag, v)

SetFlagNames(names) ==
    /\ flag.names # names
    /\ flag' = setFlagNames(flag, names)

EditPart(k, b) == flag' = SetPart(flag, k, b)

\* slotPropertyDestroyed()
DestroyPart(k) ==
    /\ k \in flag.live
    /\ flag' = [flag EXCEPT !.live = @ \ {k}]

Next ==
    \/ \E v \in Values : SetValue(v)
    \/ \E names \in FlagLists : SetFlagNames(names)
    \/ \E k \in DOMAIN flag.names : DestroyPart(k) \/ \E b \in BOOLEAN : EditPart(k, b)

-----------------------------------------------------------------------------
(* Nested properties are updated automatically (doc of setValue()): the    *)
(* parts that are left show their bits.                                    *)
PartsFollow == \A k \in flag.live : flag.part[k] = Bit(flag.val, k)

(* The value has no bit without a name (doc of setValue()).                *)
Inside == flag.val < 2^Len(flag.names)

(* Whoever listens to valueChanged() was told the present value last.      *)
ListenersKnow ==
    /\ flag.heard = flag.val
    /\ \A k \in flag.live : flag.shown[k] = flag.part[k]

(* setValue() sets a value that has no bit without a name.                 *)
Obeys == \A v \in Values : 0 <= v /\ v < 2^Len(flag.names) => setValue(flag, v).val = v
=============================================================================

--------------------------- MODULE SimpleProperty ---------------------------
(***************************************************************************)
(* What QtIntPropertyManager and QtEnumPropertyManager make of one of      *)
(* their properties.  An operator gives the new data of the property; the  *)
(* manager then sends valueChanged() if the value differs.                 *)
(***************************************************************************)
EXTENDS Integers, Sequences

INT_MAX == 2147483647
INT_MIN == -INT_MAX - 1

Larger(a, b)  == IF a < b THEN b ELSE a
Smaller(a, b) == IF a < b THEN a ELSE b

qBound(min, v, max) == Larger(min, Smaller(max, v))

(* setSimpleMinimumData() and setSimpleMaximumData(): the other border and *)
(* the value give way.                                                     *)
WithMinimum(d, m) ==
    [val |-> Larger(d.val, m), min |-> m, max |-> Larger(d.max, m)]
WithMaximum(d, m) ==
    [val |-> Smaller(d.val, m), min |-> Smaller(d.min, m), max |-> m]

(* A property of QtIntPropertyManager, and its setValue() and setRange().  *)
NewInt == [val |-> 0, min |-> -INT_MAX, max |-> INT_MAX]

IntValue(d, v) == [d EXCEPT !.val = qBound(d.min, v, d.max)]

IntRange(d, a, b) ==
    LET lo == Smaller(a, b)
        hi == Larger(a, b)
    IN  IF d.min = lo /\ d.max = hi THEN d ELSE WithMaximum(WithMinimum(d, lo), hi)

(* A property of QtEnumPropertyManager: an index into its names, from 0 on, *)
(* and its setValue() and setEnumNames().                                  *)
EnumValue(d, v) ==
    IF v >= Len(d.names) \/ (v < 0 /\ Len(d.names) > 0) THEN d
    ELSE [d EXCEPT !.val = Larger(v, -1)]

EnumNames(d, names) ==
    IF names = d.names THEN d
    ELSE [val |-> IF names = <<>> THEN -1 ELSE 0, names |-> names]
=============================================================================

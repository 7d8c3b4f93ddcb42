------------------------- MODULE SizePolicyManager --------------------------
(***************************************************************************)
(* A property of QtSizePolicyPropertyManager: a policy and a stretch for   *)
(* each direction.  The part of a policy is an index into the names of the *)
(* policies.                                                               *)
(***************************************************************************)
EXTENDS SimpleProperty, SequencesExt

CONSTANTS
    PolicyNames,    \* policyEnumNames()
    SizePolicies,   \* the values a caller may pass
    Numbers         \* what an editor may set a part to

VARIABLE sizePolicy

Stretches == {"hStretch", "vStretch"}

indexToSizePolicy(n) == PolicyNames[n + 1]
sizePolicyToIndex(policy) ==
    IF policy \in Range(PolicyNames)
    THEN CHOOSE n \in 0 .. Len(PolicyNames) - 1 : indexToSizePolicy(n) = policy
    ELSE -1

NewPart(p) ==
    IF p \in Stretches THEN IntRange(NewInt, 0, 255)
    ELSE EnumValue(EnumNames([val |-> -1, names |-> <<>>], PolicyNames), sizePolicyToIndex("Fixed"))

ToPart(v, p) == IF p \in Stretches THEN v[p] ELSE sizePolicyToIndex(v[p])
FromPart(v, p, n) == [v EXCEPT ![p] = IF p \in Stretches THEN n ELSE indexToSizePolicy(n)]

Property ==
    INSTANCE PartsManager
    WITH prop <- sizePolicy, Order <- <<"hPolicy", "vPolicy", "hStretch", "vStretch">>,
         Values <- SizePolicies,
         NewValue <- [hPolicy |-> "Fixed", vPolicy |-> "Fixed", hStretch |-> 0, vStretch |-> 0]

-----------------------------------------------------------------------------
(* The stretches are in the range of their parts, and the policies among   *)
(* the names.                                                              *)
Inside ==
    /\ \A p \in Stretches : sizePolicy.val[p] \in 0 .. 255
    /\ {sizePolicy.val.hPolicy, sizePolicy.val.vPolicy} \subseteq Range(PolicyNames)
=============================================================================

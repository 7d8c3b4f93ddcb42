-------------------------- MODULE PropertyBrowser --------------------------
(***************************************************************************)
(* The tree a property browser shows (QtAbstractPropertyBrowser) and the   *)
(* graph of properties behind it (QtProperty).  A property may be a        *)
(* sub-property of several others and top-level as well; the browser has   *)
(* an item for each occurrence and keeps up by the signals the managers    *)
(* send while the graph changes.  Slots are called directly, so that an    *)
(* operation and the slots it reaches are one step.                        *)
(*                                                                         *)
(* An item is the path of properties that leads to it, from Browser on:    *)
(* its m_property is the last of them, its m_parent the path without it.   *)
(* Browser stands for the 0 that the code passes as the parent of the      *)
(* top-level properties, and None for the 0 it passes as afterProperty.    *)
(***************************************************************************)
EXTENDS Naturals, Sequences, FiniteSets, SequencesExt

CONSTANTS
    Property,     \* the properties that may be created
    Browser, None,
    ForeignAfter  \* may insertProperty() be told to insert after a property
                  \* that is not top-level?

ASSUME ConstantsAssumption ==
    /\ IsFiniteSet(Property)
    /\ {Browser, None} \cap Property = {} /\ Browser # None
    /\ ForeignAfter \in BOOLEAN

VARIABLES
    sub,        \* sub[p]: m_subItems of p, or of the browser for Browser
    parents,    \* parents[p]: m_parentItems of p
    toParents,  \* toParents[p]: m_propertyToParents[p], {} if there is none
    children    \* children[i]: the properties of the m_children of item i,
                \* in their order; m_topLevelIndexes for <<Browser>>

vars == <<sub, parents, toParents, children>>

(* The properties that have been created and not destroyed.                *)
Exists == DOMAIN sub \ {Browser}

Item == DOMAIN children

Sub(p) == ToSet(sub[p])

Registered(p) == p = Browser \/ toParents[p] # {}

(* m_propertyToIndexes: every item is entered where it is made, and left   *)
(* out where it is deleted.                                                *)
Items(p) == {i \in Item : Last(i) = p}

ItemsUnder(p, from) == {i \in Items(p) \ {<<Browser>>} : Last(Front(i)) \in from}

InsertAfter(s, after, p) ==
    InsertAt(s, IF \E k \in DOMAIN s : s[k] = after
                THEN 1 + CHOOSE k \in 1 .. Len(s) : s[k] = after
                ELSE 1, p)

Without(s, p) == RemoveFirst(s, p)

(* A set of properties with all the sub-properties of its members.         *)
IsClosed(C) == \A x \in C : Sub(x) \subseteq C

(* p and all that is below it: the least such set that p is in.            *)
Below(p) ==
    {x \in DOMAIN sub :
        \A C \in SUBSET DOMAIN sub : p \in C /\ IsClosed(C) => x \in C}

(* The descents from p, as sequences of properties: the calls of a         *)
(* recursion over the sub-properties, each with those it is nested in.  No *)
(* descent has a property twice (NoCycles).                                *)
Descents(p) ==
    {d \in SeqOf(Exists, Cardinality(Exists)) :
        /\ d # <<>> /\ d[1] = p
        /\ \A k \in 1 .. Len(d) - 1 : d[k + 1] \in Sub(d[k])}

-----------------------------------------------------------------------------
(* What a change of the graph does to the browser.  Each operator gives a  *)
(* new toParents or a new children.                                        *)

(* The properties that insertSubTree() goes through: the recursion stops   *)
(* at properties that are registered.                                      *)
Fresh(p) ==
    {Last(d) : d \in {c \in Descents(p) : \A k \in 1 .. Len(c) : ~Registered(c[k])}}

\* Mutant: a property that is registered already keeps the parents it has.
InsertSubTreeOnce(p, parent) ==
    LET fresh == Fresh(p)
    IN  [q \in Exists |-> toParents[q] \cup {x \in fresh : q \in Sub(x)}
                            \cup IF q = p /\ q \in fresh THEN {parent} ELSE {}]

(* insertSubTree(): each property that the recursion reaches is given the  *)
(* parent it came from, whether it was registered or not.                  *)
InsertSubTree(p, parent) ==
    LET fresh == Fresh(p)
    IN  [q \in Exists |-> toParents[q] \cup {x \in fresh : q \in Sub(x)}
                            \cup IF q = p THEN {parent} ELSE {}]

(* What removeSubTree() unregisters: a property that has lost its last     *)
(* parent, and is taken from its sub-properties in its turn.               *)
Loses(G, p, from) ==
    /\ toParents[p] \subseteq from => p \in G
    /\ \A q \in Exists :
          LET taken == {y \in G : q \in Sub(y)}
          IN  taken # {} /\ toParents[q] \subseteq taken => q \in G

Unregistered(p, from) ==
    {x \in Exists : \A G \in SUBSET Exists : Loses(G, p, from) => x \in G}

(* removeSubTree(), for all the parents in from.                           *)
RemoveSubTree(p, from) ==
    LET gone == Unregistered(p, from)
    IN  IF ~Registered(p) THEN toParents ELSE
        [q \in Exists |->
           IF q \in gone THEN {}
           ELSE toParents[q] \ ({y \in gone : q \in Sub(y)}
                                  \cup IF q = p THEN from ELSE {})]

\* Mutant: a new item is made for p alone, not for what is below it.
CreateBrowserIndexesFlat(p, parent, after) ==
    LET at  == IF after = None THEN Items(parent)
               ELSE {Front(i) : i \in ItemsUnder(after, {parent})}
        new == {Append(i, p) : i \in at}
    IN  [i \in Item \cup new |->
           IF i \in at THEN InsertAfter(children[i], after, p)
           ELSE IF i \in Item THEN children[i] ELSE <<>>]

(* createBrowserIndexes(): an item of p, with all the items below it, under *)
(* every item of parent - which are found through the items of after, if   *)
(* there is one, that are children of an item of parent.                   *)
CreateBrowserIndexes(p, parent, after) ==
    LET at  == IF after = None THEN Items(parent)
               ELSE {Front(i) : i \in ItemsUnder(after, {parent})}
        new == {i \o d : i \in at, d \in Descents(p)}
    IN  [i \in Item \cup new |->
           IF i \in at THEN InsertAfter(children[i], after, p)
           ELSE IF i \in Item THEN children[i] ELSE sub[Last(i)]]

(* removeBrowserIndexes(): the items of p under the parents in from, with  *)
(* all the items below them.                                               *)
RemoveBrowserIndexes(p, from) ==
    LET old == ItemsUnder(p, from)
    IN  [i \in {j \in Item : ~\E r \in old : IsPrefix(r, j)} |->
           IF \E r \in old : i = Front(r) THEN Without(children[i], p)
           ELSE children[i]]

-----------------------------------------------------------------------------
Init ==
    /\ sub = [b \in {Browser} |-> <<>>]
    /\ parents = [p \in {} |-> {}]
    /\ toParents = [p \in {} |-> {}]
    /\ children = [i \in {<<Browser>>} |-> <<>>]

(* QtAbstractPropertyManager::addProperty().                               *)
Create(p) ==
    /\ p \notin Exists
    /\ sub' = [q \in DOMAIN sub \cup {p} |-> IF q = p THEN <<>> ELSE sub[q]]
    /\ parents' = [q \in Exists \cup {p} |-> IF q = p THEN {} ELSE parents[q]]
    /\ toParents' = [q \in Exists \cup {p} |-> IF q = p THEN {} ELSE toParents[q]]
    /\ UNCHANGED children

\* Mutant: only the sub-properties of p themselves are looked at for a cycle.
InsertSubPropertyShallow(q, p, after) ==
    /\ {p, q} \subseteq Exists /\ p # q
    /\ q \notin Sub(p)
    /\ p \notin Sub(q)
    /\ LET proper == IF after \in Sub(q) THEN after ELSE None IN
       /\ sub' = [sub EXCEPT ![q] = InsertAfter(@, proper, p)]
       /\ parents' = [parents EXCEPT ![p] = @ \cup {q}]
       /\ IF Registered(q)
          THEN /\ children' = CreateBrowserIndexes(p, q, proper)
               /\ toParents' = InsertSubTree(p, q)
          ELSE UNCHANGED <<children, toParents>>

(* q->insertSubProperty(p, after), and slotPropertyInserted().  Nothing    *)
(* happens if q is below p, or p is a sub-property of q already.           *)
InsertSubProperty(q, p, after) ==
    /\ {p, q} \subseteq Exists /\ p # q
    /\ q \notin Below(p)
    /\ p \notin Sub(q)
    /\ LET proper == IF after \in Sub(q) THEN after ELSE None IN
       /\ sub' = [sub EXCEPT ![q] = InsertAfter(@, proper, p)]
       /\ parents' = [parents EXCEPT ![p] = @ \cup {q}]
       /\ IF Registered(q)
          THEN /\ children' = CreateBrowserIndexes(p, q, proper)
               /\ toParents' = InsertSubTree(p, q)
          ELSE UNCHANGED <<children, toParents>>

(* q->removeSubProperty(p), and slotPropertyRemoved().  The signal is sent *)
(* whether p is a sub-property of q or not.                                *)
RemoveSubProperty(q, p) ==
    /\ {p, q} \subseteq Exists
    /\ IF Registered(q)
       THEN /\ toParents' = RemoveSubTree(p, {q})
            /\ children' = RemoveBrowserIndexes(p, {q})
       ELSE UNCHANGED <<toParents, children>>
    /\ sub' = [sub EXCEPT ![q] = Without(@, p)]
    /\ parents' = IF p \in Sub(q) THEN [parents EXCEPT ![p] = @ \ {q}] ELSE parents

\* Mutant: the parents are told, but keep p in their lists.
DestroyKeepsSub(p) ==
    /\ p \in Exists
    /\ LET from == {q \in parents[p] : Registered(q)}
                     \cup {b \in {Browser} : p \in Sub(b)}
           rest == Exists \ {p}
           left == RemoveSubTree(p, from)
       IN  /\ toParents' = [q \in rest |-> left[q]]
           /\ children' = RemoveBrowserIndexes(p, from)
           /\ sub' = [q \in DOMAIN sub \ {p} |->
                        IF q = Browser THEN Without(sub[q], p) ELSE sub[q]]
           /\ parents' = [q \in rest |-> IF q \in Sub(p) THEN parents[q] \ {p}
                                         ELSE parents[q]]

(* ~QtProperty(): slotPropertyRemoved() for each of its parents and        *)
(* slotPropertyDestroyed(), then it leaves the lists it is in.             *)
Destroy(p) ==
    /\ p \in Exists
    /\ LET from == {q \in parents[p] : Registered(q)}
                     \cup {b \in {Browser} : p \in Sub(b)}
           rest == Exists \ {p}
           left == RemoveSubTree(p, from)
       IN  /\ toParents' = [q \in rest |-> left[q]]
           /\ children' = RemoveBrowserIndexes(p, from)
           /\ sub' = [q \in DOMAIN sub \ {p} |->
                        IF q \in parents[p] \cup {Browser}
                        THEN Without(sub[q], p) ELSE sub[q]]
           /\ parents' = [q \in rest |-> IF q \in Sub(p) THEN parents[q] \ {p}
                                         ELSE parents[q]]

(* insertProperty(p, after), and addProperty(p), which inserts it after    *)
(* the last one.                                                           *)
insertProperty(p, after) ==
    /\ p \in Exists
    /\ p \notin Sub(Browser)
    /\ after \in Sub(Browser) \cup {None} \cup IF ForeignAfter THEN Exists ELSE {}
    /\ children' = CreateBrowserIndexes(p, Browser, after)
    /\ toParents' = InsertSubTree(p, Browser)
    /\ sub' = [sub EXCEPT ![Browser] = InsertAfter(@, after, p)]
    /\ UNCHANGED parents

(* removeProperty(p).                                                      *)
removeProperty(p) ==
    /\ p \in Sub(Browser)
    /\ sub' = [sub EXCEPT ![Browser] = Without(@, p)]
    /\ toParents' = RemoveSubTree(p, {Browser})
    /\ children' = RemoveBrowserIndexes(p, {Browser})
    /\ UNCHANGED parents

Next ==
    \E p \in Property :
        \/ Create(p)
        \/ Destroy(p)
        \/ removeProperty(p)
        \/ \E after \in Property \cup {None} : insertProperty(p, after)
        \/ \E q \in Property : RemoveSubProperty(q, p)
        \/ \E q \in Property, after \in Property \cup {None} :
               InsertSubProperty(q, p, after)

Spec == Init /\ [][Next]_vars

-----------------------------------------------------------------------------
(* No list, set or item names a property that is destroyed: the code keeps *)
(* plain pointers in all of them.                                          *)
TypeOK ==
    /\ Exists \subseteq Property /\ Browser \in DOMAIN sub
    /\ \A p \in DOMAIN sub : Sub(p) \subseteq Exists
    /\ parents \in [Exists -> SUBSET Exists]
    /\ toParents \in [Exists -> SUBSET DOMAIN sub]
    /\ \A i \in Item : ToSet(i) \subseteq DOMAIN sub /\ ToSet(children[i]) \subseteq Exists

(* No property is below itself, whatever is inserted where: the recursions *)
(* over sub-properties end, a property and its parents agree, and neither  *)
(* points to a property that was destroyed.                                *)
NoCycles ==
    /\ TypeOK
    /\ \A p \in Exists :
          /\ \A q \in Sub(p) : p \notin Below(q)
          /\ parents[p] = {q \in Exists : p \in Sub(q)}

(* The children of an item are the sub-properties of its property, in the  *)
(* same order, and so are the top-level items those of the browser (the    *)
(* promise of QtBrowserItem::children()).                                  *)
ItemsMirrorProperties ==
    /\ \A i \in Item : /\ children[i] = sub[Last(i)]
                       /\ \A k \in DOMAIN children[i] : Append(i, children[i][k]) \in Item
    /\ \A i \in Item \ {<<Browser>>} : Front(i) \in Item /\ Last(i) \in Sub(Last(Front(i)))

(* m_propertyToParents, which decides whether a signal is heeded, has the  *)
(* parents under which there is an item of the property, and no other: no  *)
(* displayed property is unregistered, nor the other way round.            *)
RegistersWhatItShows ==
    \A p \in Exists : toParents[p] = {Last(Front(i)) : i \in Items(p)}
=============================================================================

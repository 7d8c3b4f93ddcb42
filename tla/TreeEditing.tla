---------------------------- MODULE TreeEditing -----------------------------
(***************************************************************************)
(* Editing in QtTreePropertyBrowser: the items of the tree, of which one   *)
(* is current and one is edited; the delegate, which opens an editor and   *)
(* closes it when its item is disabled; QtSpinBoxFactory, which makes the  *)
(* editors of a QtIntPropertyManager and keeps them and the properties in  *)
(* step.  An editor that is closed is destroyed later, by the event loop   *)
(* (deleteLater()): until then factory and delegate have it in their maps, *)
(* and its item or its property may be gone, or have another editor.       *)
(*                                                                         *)
(* Other browsers show the same properties: they make editors with the     *)
(* same factory and delete them at once.                                   *)
(***************************************************************************)
EXTENDS SimpleProperty

CONSTANTS
    Property, Item, Editor,    \* properties, tree items and editors there may be
    None,                      \* the 0 of an item
    Parent, PropertyOf,        \* the item above an item, and its property
    Values,                    \* the numbers that are set as values or borders, or typed
    Overlapping     \* may an editor be opened in the tree while another one of
                    \* the property waits for its destruction?

ASSUME TreeEditingAssumption ==
    /\ None \notin Item
    /\ Parent \in [Item -> Item \cup {None}]
    /\ PropertyOf \in [Item -> Property]
    /\ Values \subseteq Int
    /\ Overlapping \in BOOLEAN

VARIABLES
    data,      \* data[p]: value and range of property p, if it exists
    enabled,   \* enabled[p]: QtProperty::isEnabled()
    on,        \* on[i]: Qt::ItemIsEnabled of item i, if it exists
    current,   \* the current item of the QTreeWidget
    m_currentItem,  \* that of QtAbstractPropertyBrowser
    editor,    \* editor[e]: of an editor that exists, its property, the value
               \* and the range it shows, and whether it waits for destruction;
               \* entered in the maps of the factory from creation to the end
    view,      \* view[i]: the editor the QTreeWidget has open on item i
    m_propertyToEditor   \* of the delegate

vars == <<data, enabled, on, current, m_currentItem, editor, view, m_propertyToEditor>>

propertyVars == <<data, enabled>>
currentVars  == <<current, m_currentItem>>
editorVars   == <<editor, view, m_propertyToEditor>>

Properties == DOMAIN data
Items == DOMAIN on

Restrict(f, S) == [x \in DOMAIN f \cap S |-> f[x]]
With(f, x, v) == [y \in DOMAIN f \cup {x} |-> IF y = x THEN v ELSE f[y]]

(* An item with the items above it: the least set with i that has the item *)
(* above with each of its items.                                           *)
Path(i) ==
    {k \in Item : \A S \in SUBSET Item :
        i \in S /\ (\A j \in S : Parent[j] \in S \cup {None}) => k \in S}

(* The items form trees, and no property is below itself: QtProperty::     *)
(* insertSubProperty() does not add one that has the other one below it.   *)
ASSUME ItemsAreTrees ==
    \A i \in Item :
        /\ Parent[i] # None => i \notin Path(Parent[i])
        /\ \A k \in Path(i) \ {i} : PropertyOf[k] # PropertyOf[i]

Subtree(i) == {j \in Items : i \in Path(j)}

ParentOn(flags, i) == Parent[i] = None \/ flags[Parent[i]]

-----------------------------------------------------------------------------
(* deleteLater() of the editors in es.                                     *)
Doomed(es) ==
    [e \in DOMAIN editor |-> IF e \in es THEN [editor[e] EXCEPT !.dying = TRUE] ELSE editor[e]]

(* The QTreeWidget lets go of the editors of the items in is: they are     *)
(* hidden and destroyed later, and no longer the editors of their items.   *)
Released(is) == Doomed({view[i] : i \in is \cap DOMAIN view})
Kept(is) == Restrict(view, Items \ is)

(* The editors closeEditor() dooms when the items in is are disabled.      *)
EditorsOf(is) ==
    {m_propertyToEditor[p] : p \in {PropertyOf[i] : i \in is} \cap DOMAIN m_propertyToEditor}

(* The editors that other browsers have for property p.                    *)
Elsewhere(p) ==
    {e \in DOMAIN editor : /\ editor[e].property = p /\ ~editor[e].dying
                           /\ \A i \in DOMAIN view : view[i] # e}

(* A new editor of the factory for property p.                             *)
NewEditor(p) == [property |-> p, shows |-> data[p], dying |-> FALSE]

(* slotPropertyChanged() and slotRangeChanged(): all editors of p show d.  *)
Told(p, d) ==
    [e \in DOMAIN editor |-> IF editor[e].property = p
                             THEN [editor[e] EXCEPT !.shows = d] ELSE editor[e]]

\* Mutant: the first editor of the property is told, the others are not.
ChangeFirstTold(p, d) ==
    /\ data' = [data EXCEPT ![p] = d]
    /\ editor' = [e \in DOMAIN editor |->
                    IF editor[e].property = p /\ \A f \in DOMAIN editor :
                          editor[f].property = p => e <= f
                    THEN [editor[e] EXCEPT !.shows = d] ELSE editor[e]]
    /\ UNCHANGED <<enabled, on, currentVars, view, m_propertyToEditor>>

(* The manager changes the data of p to d and sends its signals.           *)
Change(p, d) ==
    /\ data' = [data EXCEPT ![p] = d]
    /\ editor' = IF d = data[p] THEN editor ELSE Told(p, d)
    /\ UNCHANGED <<enabled, on, currentVars, view, m_propertyToEditor>>

-----------------------------------------------------------------------------
Init ==
    /\ data = [p \in {} |-> NewInt] /\ enabled = [p \in {} |-> TRUE]
    /\ on = [i \in {} |-> TRUE]
    /\ current = None /\ m_currentItem = None
    /\ editor = [e \in {} |-> 0] /\ view = [i \in {} |-> 0]
    /\ m_propertyToEditor = [p \in {} |-> 0]

CreateProperty(p) ==
    /\ p \in Property \ Properties
    /\ data' = With(data, p, NewInt)
    /\ enabled' = With(enabled, p, TRUE)
    /\ UNCHANGED <<on, currentVars, editorVars>>

(* What the tree loses with the items in gone; a current item among them   *)
(* is replaced by none, of which the base class is told.                   *)
LoseItems(gone) ==
    /\ on' = Restrict(on, Items \ gone)
    /\ view' = Kept(gone)
    /\ current' = IF current \in gone THEN None ELSE current
    /\ m_currentItem' = IF current \in gone THEN None ELSE m_currentItem
    /\ UNCHANGED m_propertyToEditor

\* Mutant: the current item stays what it is.
RemoveItemKeepsCurrent(i) ==
    /\ i \in Items /\ Subtree(i) = {i}
    /\ on' = Restrict(on, Items \ {i})
    /\ editor' = Released({i})
    /\ view' = Kept({i})
    /\ current' = IF current = i THEN None ELSE current
    /\ UNCHANGED <<m_currentItem, m_propertyToEditor, propertyVars>>

(* propertyRemoved(); the items below an item are removed before it.       *)
RemoveItem(i) ==
    /\ i \in Items /\ Subtree(i) = {i}
    /\ LoseItems({i})
    /\ editor' = Released({i})
    /\ UNCHANGED propertyVars

(* ~QtProperty(): all items of p are removed, with those below them; the   *)
(* other browsers remove theirs, and delete their editors at once.         *)
DestroyProperty(p) ==
    /\ p \in Properties
    /\ LET gone == UNION {Subtree(i) : i \in {j \in Items : PropertyOf[j] = p}} IN
       /\ LoseItems(gone)
       /\ editor' = Restrict(Released(gone), {e \in Editor : e \notin Elsewhere(p)})
    /\ data' = Restrict(data, Property \ {p})
    /\ enabled' = Restrict(enabled, Property \ {p})

(* propertyInserted(), with the updateItem() in it; an editor that the     *)
(* property has elsewhere in the tree is closed with a disabled item.      *)
InsertItem(i) ==
    /\ i \in Item \ Items
    /\ PropertyOf[i] \in Properties
    /\ Parent[i] \in Items \cup {None}
    /\ LET isOn == enabled[PropertyOf[i]] /\ ParentOn(on, i) IN
       /\ on' = With(on, i, isOn)
       /\ editor' = IF isOn THEN editor ELSE Doomed(EditorsOf({i}))
    /\ UNCHANGED <<propertyVars, currentVars, view, m_propertyToEditor>>

\* Mutant: a property that is enabled takes all items below its items along.
SetEnabledDeep(p, b) ==
    /\ p \in Properties /\ enabled[p] # b
    /\ enabled' = [enabled EXCEPT ![p] = b]
    /\ LET mine == {i \in Items : PropertyOf[i] = p}
           changed == {i \in mine : on[i] # (b /\ ParentOn(on, i))}
           below(i) == Subtree(i)
       IN  /\ on' = [j \in Items |-> IF \E i \in changed : j \in below(i) THEN b ELSE on[j]]
           /\ editor' = IF b THEN editor
                        ELSE Doomed(EditorsOf({j \in Items : on[j] /\ ~on'[j]}))
    /\ UNCHANGED <<data, currentVars, view, m_propertyToEditor>>

\* Mutant: the editors of the items below stay open.
SetEnabledOwnEditor(p, b) ==
    /\ p \in Properties /\ enabled[p] # b
    /\ enabled' = [enabled EXCEPT ![p] = b]
    /\ on' = [j \in Items |->
                 IF \E i \in Path(j) : PropertyOf[i] = p
                 THEN \A k \in Path(j) : enabled'[PropertyOf[k]] ELSE on[j]]
    /\ editor' = IF b THEN editor ELSE Doomed(EditorsOf({i \in Items : PropertyOf[i] = p}))
    /\ UNCHANGED <<data, currentVars, view, m_propertyToEditor>>

(* QtProperty::setEnabled(), and updateItem() for each item of p:          *)
(* enableItem() enables the items below whose properties are enabled,      *)
(* disableItem() disables all and closes the editors of their properties.  *)
SetEnabled(p, b) ==
    /\ p \in Properties /\ enabled[p] # b
    /\ enabled' = [enabled EXCEPT ![p] = b]
    /\ LET mine == {i \in Items : PropertyOf[i] = p}
           changed == {i \in mine : on[i] # (b /\ ParentOn(on, i))}
           below(i) == {j \in Subtree(i) : b => \A k \in Path(j) \ Path(i) :
                                                   enabled[PropertyOf[k]]}
       IN  /\ on' = [j \in Items |-> IF \E i \in changed : j \in below(i) THEN b ELSE on[j]]
           /\ editor' = IF b THEN editor
                        ELSE Doomed(EditorsOf({j \in Items : on[j] /\ ~on'[j]}))
    /\ UNCHANGED <<data, currentVars, view, m_propertyToEditor>>

-----------------------------------------------------------------------------
(* The user makes item i the current one: the QTreeWidget closes the       *)
(* editor of the previous one, and slotCurrentTreeItemChanged() tells the  *)
(* base class.                                                             *)
Click(i) ==
    /\ i \in Items /\ i # current
    /\ current' = i /\ m_currentItem' = i
    /\ editor' = Released({current}) /\ view' = Kept({current})
    /\ UNCHANGED <<propertyVars, on, m_propertyToEditor>>

(* The public setCurrentItem(): slotCurrentBrowserItemChanged() hands the  *)
(* item to the QTreeWidget, whose signals are blocked.                     *)
SetCurrentItem(i) ==
    /\ i \in Items \cup {None}
    /\ m_currentItem' = i
    /\ IF i # m_currentItem /\ i # current
       THEN current' = i /\ editor' = Released({current}) /\ view' = Kept({current})
       ELSE UNCHANGED <<current, editor, view>>
    /\ UNCHANGED <<propertyVars, on, m_propertyToEditor>>

(* editItem(), or the user does it: item i becomes the current one, and    *)
(* the delegate opens an editor unless there is one on the item.           *)
EditItem(i) ==
    /\ i \in Items
    /\ current' = i /\ m_currentItem' = i
    /\ LET p     == PropertyOf[i]
           other == {current} \ {i}
           opens == on[i] /\ i \notin DOMAIN view
       IN  IF ~opens
           THEN /\ editor' = Released(other) /\ view' = Kept(other)
                /\ UNCHANGED m_propertyToEditor
           ELSE \E e \in Editor \ DOMAIN editor :
                /\ \A f \in Editor \ DOMAIN editor : e <= f
                /\ Overlapping \/ \A f \in DOMAIN editor :
                      Released(other)[f].dying => editor[f].property # p
                /\ editor' = With(Released(other), e, NewEditor(p))
                /\ view' = With(Kept(other), i, e)
                /\ m_propertyToEditor' = With(m_propertyToEditor, p, e)
    /\ UNCHANGED <<propertyVars, on>>

(* The user ends the editing of item i.                                    *)
CloseEditor(i) ==
    /\ i \in DOMAIN view
    /\ editor' = Released({i}) /\ view' = Kept({i})
    /\ UNCHANGED <<propertyVars, on, currentVars, m_propertyToEditor>>

(* The event loop destroys an editor: both slotEditorDestroyed(), and the  *)
(* QTreeWidget if it has the editor still open.  The delegate drops the    *)
(* editor of the property that this editor was made for.                   *)
DeferredDelete(e) ==
    /\ e \in DOMAIN editor /\ editor[e].dying
    /\ editor' = Restrict(editor, Editor \ {e})
    /\ view' = Restrict(view, {i \in Items : i \in DOMAIN view => view[i] # e})
    /\ m_propertyToEditor' = Restrict(m_propertyToEditor, Property \ {editor[e].property})
    /\ UNCHANGED <<propertyVars, on, currentVars>>

(* Another browser makes an editor for p, or deletes it.                   *)
OpenElsewhere(p) ==
    /\ p \in Properties
    /\ \E e \in Editor \ DOMAIN editor :
       /\ \A f \in Editor \ DOMAIN editor : e <= f
       /\ editor' = With(editor, e, NewEditor(p))
    /\ UNCHANGED <<propertyVars, on, currentVars, view, m_propertyToEditor>>

CloseElsewhere(p) ==
    /\ \E e \in Elsewhere(p) : editor' = Restrict(editor, Editor \ {e})
    /\ UNCHANGED <<propertyVars, on, currentVars, view, m_propertyToEditor>>

-----------------------------------------------------------------------------
(* The program sets the value or the range of p.                           *)
SetValue(p, v) ==
    /\ p \in Properties
    /\ Change(p, IntValue(data[p], v))

SetRange(p, a, b) ==
    /\ p \in Properties
    /\ Change(p, IntRange(data[p], a, b))

(* The user types v into an editor that is still on the screen, which lets *)
(* pass what is in its range; slotSetValue() hands it to the manager.      *)
UserTypes(e, v) ==
    /\ e \in DOMAIN editor
    /\ editor[e].dying => \E i \in DOMAIN view : view[i] = e
    /\ v \in editor[e].shows.min .. editor[e].shows.max
    /\ Change(editor[e].property, IntValue(data[editor[e].property], v))

Next ==
    \/ \E p \in Property :
          \/ CreateProperty(p) \/ DestroyProperty(p)
          \/ \E b \in BOOLEAN : SetEnabled(p, b)
          \/ OpenElsewhere(p) \/ CloseElsewhere(p)
          \/ \E v \in Values : SetValue(p, v)
          \/ \E a, b \in Values : SetRange(p, a, b)
    \/ \E i \in Item :
          \/ InsertItem(i) \/ RemoveItem(i)
          \/ Click(i) \/ EditItem(i) \/ CloseEditor(i)
    \/ \E i \in Item \cup {None} : SetCurrentItem(i)
    \/ \E e \in Editor :
          \/ DeferredDelete(e)
          \/ \E v \in Values : UserTypes(e, v)

Spec == Init /\ [][Next]_vars

-----------------------------------------------------------------------------
(* An item is enabled exactly if its property and the item above it are,   *)
(* in whatever order properties are enabled or disabled and items inserted *)
(* and removed: updateItem(), enableItem() and disableItem() each look at  *)
(* a part of this only.                                                    *)
FlagsFollow ==
    \A i \in Items : on[i] <=> (enabled[PropertyOf[i]] /\ ParentOn(on, i))

(* The editor that is open on an item is either on its way out, or edits   *)
(* the property of an enabled item and is the one the delegate would close *)
(* with the property: a property that was disabled cannot be edited on.    *)
OpenEditorsValid ==
    \A i \in DOMAIN view :
        ~editor[view[i]].dying =>
            /\ i \in Items /\ on[i]
            /\ editor[view[i]].property = PropertyOf[i]
            /\ PropertyOf[i] \in DOMAIN m_propertyToEditor
            /\ m_propertyToEditor[PropertyOf[i]] = view[i]

(* Every editor on the screen, here or in another browser, belongs to a    *)
(* property that exists and shows its value and its range, whether the     *)
(* program, the user or another editor changed them.                       *)
EditorsAgree ==
    \A e \in DOMAIN editor :
        ~editor[e].dying =>
            /\ editor[e].property \in Properties
            /\ editor[e].shows = data[editor[e].property]

(* The browser's current item is the one of the QTreeWidget, and one that  *)
(* exists: nothing in the base class resets m_currentItem when the item is *)
(* deleted, the tree browser has to see to it.                             *)
CurrentAgrees == m_currentItem = current /\ current \in Items \cup {None}
=============================================================================

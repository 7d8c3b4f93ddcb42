------------------------ MODULE TreeEditing_proofs -------------------------
(***************************************************************************)
(* The editors and the current item of the tree browser, for any number of *)
(* properties, items and editors, when an editor is opened in the tree     *)
(* only after the one the property had there has been destroyed.           *)
(***************************************************************************)
EXTENDS TreeEditing, TLAPS

Shown == [val : Int, min : Int, max : Int]

\* The types of what the proofs look into.
Typed ==
    /\ Properties \subseteq Property /\ Items \subseteq Item
    /\ DOMAIN editor \subseteq Editor
    /\ \A p \in Properties : data[p] \in Shown
    /\ \A e \in DOMAIN editor :
          editor[e] \in [property : Property, shows : Shown, dying : BOOLEAN]

\* No item outlives its property.
ItemsAlive == \A i \in Items : PropertyOf[i] \in Properties

\* The tree has an editor open on its current item only, made for it.
ViewCurrent ==
    \A i \in DOMAIN view :
        /\ i \in Items /\ i = current
        /\ view[i] \in DOMAIN editor /\ editor[view[i]].property = PropertyOf[i]

\* What the delegate has in its map is an editor of that property, open in the
\* tree or on its way out.
MapAlive ==
    \A p \in DOMAIN m_propertyToEditor :
        /\ m_propertyToEditor[p] \in DOMAIN editor
        /\ editor[m_propertyToEditor[p]].property = p
        /\ \/ editor[m_propertyToEditor[p]].dying
           \/ \E i \in DOMAIN view : view[i] = m_propertyToEditor[p]

\* While an editor is open in the tree, none of the property waits for its end.
NoOverlap ==
    \A i \in DOMAIN view, e \in DOMAIN editor :
        ~editor[view[i]].dying /\ editor[e].dying => editor[e].property # PropertyOf[i]

EditInv ==
    /\ Typed /\ ItemsAlive /\ ViewCurrent /\ MapAlive /\ NoOverlap
    /\ EditorsAgree /\ OpenEditorsValid /\ CurrentAgrees

-----------------------------------------------------------------------------
LEMMA EditInit == Init => EditInv
BY TreeEditingAssumption
   DEF Init, EditInv, Typed, ItemsAlive, ViewCurrent, MapAlive, NoOverlap, EditorsAgree,
       OpenEditorsValid, CurrentAgrees, Properties, Items

\* The manager keeps the data of a property data, whatever is set.
LEMMA ValueShown ==
    ASSUME NEW d \in Shown, NEW v \in Int, NEW a \in Int, NEW b \in Int
    PROVE  NewInt \in Shown /\ IntValue(d, v) \in Shown /\ IntRange(d, a, b) \in Shown
BY DEF Shown, NewInt, IntValue, IntRange, WithMaximum, WithMinimum, qBound, Larger, Smaller,
       INT_MAX

\* deleteLater() of some editors changes nothing else of any editor.
LEMMA DoomedEditors ==
    ASSUME Typed, NEW es
    PROVE  /\ DOMAIN Doomed(es) = DOMAIN editor
           /\ \A e \in DOMAIN editor :
                 /\ Doomed(es)[e] \in [property : Property, shows : Shown, dying : BOOLEAN]
                 /\ Doomed(es)[e].property = editor[e].property
                 /\ Doomed(es)[e].shows = editor[e].shows
                 /\ Doomed(es)[e].dying <=> (e \in es \/ editor[e].dying)
BY DEF Typed, Doomed

\* The items that stay keep their editors, those that go doom theirs.
LEMMA LetGo ==
    ASSUME Typed, ViewCurrent, NEW is
    PROVE  /\ DOMAIN Kept(is) = DOMAIN view \ is
           /\ \A i \in DOMAIN view \ is : Kept(is)[i] = view[i]
           /\ DOMAIN Released(is) = DOMAIN editor
           /\ \A e \in DOMAIN editor :
                 /\ Released(is)[e] \in [property : Property, shows : Shown, dying : BOOLEAN]
                 /\ Released(is)[e].property = editor[e].property
                 /\ Released(is)[e].shows = editor[e].shows
                 /\ Released(is)[e].dying
                       <=> (editor[e].dying \/ \E i \in is \cap DOMAIN view : view[i] = e)
<1>1. \A i \in DOMAIN view : i \in Items
  BY DEF ViewCurrent
<1>2. DOMAIN Kept(is) = DOMAIN view \ is /\ \A i \in DOMAIN view \ is : Kept(is)[i] = view[i]
  BY <1>1 DEF Kept, Restrict
<1>. QED  BY <1>2, DoomedEditors DEF Released

LEMMA InSubtree == Typed => \A i \in Items : i \in Subtree(i)
BY DEF Subtree, Path, Typed

-----------------------------------------------------------------------------
\* The manager tells every editor of the property.
LEMMA ChangeStep ==
    ASSUME EditInv, NEW p \in Properties, NEW d \in Shown, Change(p, d)
    PROVE  EditInv'
<1>1. /\ Properties' = Properties /\ Items' = Items
      /\ \A q \in Properties : data'[q] = IF q = p THEN d ELSE data[q]
  BY DEF Change, Properties, Items
<1>2. /\ DOMAIN editor' = DOMAIN editor
      /\ \A e \in DOMAIN editor :
            /\ editor'[e] \in [property : Property, shows : Shown, dying : BOOLEAN]
            /\ editor'[e].property = editor[e].property
            /\ editor'[e].dying = editor[e].dying
            /\ ~editor[e].dying => editor'[e].shows =
                                     IF editor[e].property = p THEN d ELSE editor[e].shows
  BY DEF EditInv, Typed, EditorsAgree, Change, Told
<1>3. Typed' /\ ItemsAlive' /\ CurrentAgrees'
  BY <1>1, <1>2 DEF EditInv, Typed, ItemsAlive, CurrentAgrees, Change, currentVars
<1>4. ViewCurrent' /\ MapAlive' /\ NoOverlap' /\ OpenEditorsValid'
  BY <1>1, <1>2 DEF EditInv, ViewCurrent, MapAlive, NoOverlap, OpenEditorsValid, Change,
                    currentVars
<1>5. EditorsAgree'
  BY <1>1, <1>2 DEF EditInv, EditorsAgree
<1>. QED  BY <1>3, <1>4, <1>5 DEF EditInv

\* A new property, and an editor that another browser makes for one.
LEMMA CreateStep ==
    ASSUME EditInv, NEW p \in Property, CreateProperty(p) \/ OpenElsewhere(p)
    PROVE  EditInv'
<1>1. CASE CreateProperty(p)
  <2>1. /\ Properties' = Properties \cup {p} /\ p \notin Properties /\ Items' = Items
        /\ \A q \in Properties : data'[q] = data[q]
        /\ data'[p] = NewInt /\ NewInt \in Shown
    BY <1>1, ValueShown DEF CreateProperty, With, Properties, Items, Shown, NewInt, INT_MAX
  <2>. QED
    BY <1>1, <2>1 DEF CreateProperty, currentVars, editorVars, EditInv, Typed, ItemsAlive,
         ViewCurrent, MapAlive, NoOverlap, EditorsAgree, OpenEditorsValid, CurrentAgrees
<1>2. CASE OpenElsewhere(p)
  <2>1. PICK e \in Editor \ DOMAIN editor : editor' = With(editor, e, NewEditor(p))
    BY <1>2 DEF OpenElsewhere
  <2>2. /\ DOMAIN editor' = DOMAIN editor \cup {e}
        /\ \A f \in DOMAIN editor : editor'[f] = editor[f]
        /\ editor'[e] = [property |-> p, shows |-> data[p], dying |-> FALSE]
    BY <2>1 DEF With, NewEditor
  <2>3. p \in Properties /\ Properties' = Properties /\ Items' = Items
    BY <1>2 DEF OpenElsewhere, propertyVars, Properties, Items
  <2>4. \A f \in DOMAIN editor' :
           editor'[f] \in [property : Property, shows : Shown, dying : BOOLEAN]
    <3>1. data[p] \in Shown /\ p \in Property
      BY <2>3 DEF EditInv, Typed
    <3>2. editor'[e] \in [property : Property, shows : Shown, dying : BOOLEAN]
      BY <2>2, <3>1
    <3>. QED  BY <2>2, <3>2 DEF EditInv, Typed
  <2>5. Typed'
    BY <1>2, <2>2, <2>3, <2>4 DEF OpenElsewhere, propertyVars, EditInv, Typed
  <2>. QED
    BY <1>2, <2>2, <2>3, <2>5 DEF OpenElsewhere, propertyVars, currentVars, EditInv, ItemsAlive,
         ViewCurrent, MapAlive, NoOverlap, EditorsAgree, OpenEditorsValid, CurrentAgrees
<1>. QED  BY <1>1, <1>2

\* The tree lets go of the editors of some items, whether these go as well or
\* not; it may make another item current if its editor is among them.
LEMMA LetGoStep ==
    ASSUME EditInv, NEW is,
           editor' = Released(is), view' = Kept(is),
           DOMAIN on' \subseteq Items, \A i \in DOMAIN on' : on'[i] = on[i],
           \A i \in DOMAIN view \ is : i \in DOMAIN on' /\ i = current',
           UNCHANGED <<propertyVars, m_propertyToEditor>>,
           CurrentAgrees'
    PROVE  EditInv'
<1>1. ViewCurrent /\ Typed
  BY DEF EditInv
<1>2. /\ DOMAIN view' = DOMAIN view \ is
      /\ \A i \in DOMAIN view \ is : view'[i] = view[i]
      /\ DOMAIN editor' = DOMAIN editor
      /\ \A e \in DOMAIN editor :
            /\ editor'[e] \in [property : Property, shows : Shown, dying : BOOLEAN]
            /\ editor'[e].property = editor[e].property
            /\ editor'[e].shows = editor[e].shows
            /\ editor'[e].dying <=> (editor[e].dying \/ \E i \in is \cap DOMAIN view : view[i] = e)
  <2>1. /\ DOMAIN Kept(is) = DOMAIN view \ is
        /\ \A i \in DOMAIN view \ is : Kept(is)[i] = view[i]
        /\ DOMAIN Released(is) = DOMAIN editor
        /\ \A e \in DOMAIN editor :
              /\ Released(is)[e] \in [property : Property, shows : Shown, dying : BOOLEAN]
              /\ Released(is)[e].property = editor[e].property
              /\ Released(is)[e].shows = editor[e].shows
              /\ Released(is)[e].dying
                    <=> (editor[e].dying \/ \E i \in is \cap DOMAIN view : view[i] = e)
    BY <1>1, LetGo, Zenon
  <2>. QED  BY <2>1
<1>3. Properties' = Properties /\ Items' \subseteq Items /\ data' = data
  BY DEF Properties, Items, propertyVars
<1>4. Typed' /\ ItemsAlive' /\ EditorsAgree'
  BY <1>2, <1>3 DEF EditInv, Typed, ItemsAlive, EditorsAgree
<1>5. ViewCurrent' /\ OpenEditorsValid'
  BY <1>2 DEF EditInv, ViewCurrent, OpenEditorsValid, Items
<1>6. MapAlive'
  <2> SUFFICES ASSUME NEW p \in DOMAIN m_propertyToEditor
               PROVE  /\ m_propertyToEditor[p] \in DOMAIN editor'
                      /\ editor'[m_propertyToEditor[p]].property = p
                      /\ \/ editor'[m_propertyToEditor[p]].dying
                         \/ \E i \in DOMAIN view' : view'[i] = m_propertyToEditor[p]
    BY DEF MapAlive
  <2>1. m_propertyToEditor[p] \in DOMAIN editor /\ editor[m_propertyToEditor[p]].property = p
    BY DEF EditInv, MapAlive
  <2>2. CASE editor[m_propertyToEditor[p]].dying
    BY <1>2, <2>1, <2>2
  <2>3. ASSUME NEW i \in DOMAIN view, view[i] = m_propertyToEditor[p]
        PROVE  \/ editor'[m_propertyToEditor[p]].dying
               \/ \E j \in DOMAIN view' : view'[j] = m_propertyToEditor[p]
    <3>1. CASE i \in is
      BY <1>2, <2>1, <2>3, <3>1
    <3>2. CASE i \notin is
      BY <1>2, <2>3, <3>2
    <3>. QED  BY <3>1, <3>2
  <2>. QED  BY <1>2, <2>1, <2>2, <2>3 DEF EditInv, MapAlive
<1>7. NoOverlap'
  BY <1>2 DEF EditInv, NoOverlap, ViewCurrent
<1>. QED  BY <1>4, <1>5, <1>6, <1>7 DEF EditInv

\* Items that go, or are left for another one.
LEMMA LeaveStep ==
    ASSUME EditInv, NEW i \in Item \cup {None},
           RemoveItem(i) \/ Click(i) \/ SetCurrentItem(i) \/ CloseEditor(i)
    PROVE  EditInv'
<1>1. /\ m_currentItem = current /\ current \in Items \cup {None}
      /\ \A j \in DOMAIN view : j \in Items /\ j = current
  BY DEF EditInv, CurrentAgrees, ViewCurrent
<1>2. CASE RemoveItem(i)
  <2>1. /\ DOMAIN on' = Items \ {i} /\ \A j \in DOMAIN on' : on'[j] = on[j]
        /\ Items' = Items \ {i}
    BY <1>2 DEF RemoveItem, LoseItems, Restrict, Items
  <2>2. /\ editor' = Released({i}) /\ view' = Kept({i})
        /\ UNCHANGED <<propertyVars, m_propertyToEditor>>
        /\ current' = IF current = i THEN None ELSE current
        /\ m_currentItem' = IF current = i THEN None ELSE m_currentItem
    BY <1>2 DEF RemoveItem, LoseItems
  <2>. QED  BY <1>1, <2>1, <2>2, LetGoStep DEF CurrentAgrees
<1>3. CASE Click(i)
  BY <1>1, <1>3, LetGoStep DEF Click, CurrentAgrees, Items
<1>4. CASE SetCurrentItem(i) /\ i # current
  BY <1>1, <1>4, LetGoStep DEF SetCurrentItem, CurrentAgrees, Items
<1>5. CASE SetCurrentItem(i) /\ i = current
  <2>1. UNCHANGED vars
    BY <1>1, <1>5 DEF SetCurrentItem, vars, propertyVars, editorVars
  <2>. QED
    BY <2>1 DEF vars, EditInv, Typed, ItemsAlive, ViewCurrent, MapAlive, NoOverlap,
         EditorsAgree, OpenEditorsValid, CurrentAgrees, Properties, Items
<1>6. CASE CloseEditor(i)
  BY <1>1, <1>6, LetGoStep DEF CloseEditor, CurrentAgrees, Items, currentVars
<1>. QED  BY <1>2, <1>3, <1>4, <1>5, <1>6

\* Items are disabled, and the editors of their properties closed: an editor
\* that is open on such an item is the one of its property.
LEMMA DisableStep ==
    ASSUME EditInv, NEW is, is \subseteq Item,
           editor' = Doomed(EditorsOf(is)) \/ (is = {} /\ editor' = editor),
           Items \subseteq DOMAIN on', DOMAIN on' \subseteq Item,
           \A i \in Items : on[i] /\ ~on'[i] => i \in is,
           \A i \in DOMAIN on' : PropertyOf[i] \in Properties,
           UNCHANGED <<data, currentVars, view, m_propertyToEditor>>
    PROVE  EditInv'
<1>1. Typed
  BY DEF EditInv
<1>2. /\ DOMAIN editor' = DOMAIN editor
      /\ \A e \in DOMAIN editor :
            /\ editor'[e] \in [property : Property, shows : Shown, dying : BOOLEAN]
            /\ editor'[e].property = editor[e].property
            /\ editor'[e].shows = editor[e].shows
            /\ editor'[e].dying <=> (e \in EditorsOf(is) \/ editor[e].dying)
  <2>1. /\ DOMAIN Doomed(EditorsOf(is)) = DOMAIN editor
        /\ \A e \in DOMAIN editor :
              /\ Doomed(EditorsOf(is))[e]
                    \in [property : Property, shows : Shown, dying : BOOLEAN]
              /\ Doomed(EditorsOf(is))[e].property = editor[e].property
              /\ Doomed(EditorsOf(is))[e].shows = editor[e].shows
              /\ Doomed(EditorsOf(is))[e].dying <=> (e \in EditorsOf(is) \/ editor[e].dying)
    BY <1>1, DoomedEditors, Zenon
  <2>2. CASE editor' = Doomed(EditorsOf(is))
    BY <2>1, <2>2
  <2>3. CASE is = {} /\ editor' = editor
    BY <1>1, <2>3 DEF Typed, EditorsOf
  <2>. QED  BY <2>2, <2>3
<1>3. \A e : e \in EditorsOf(is) <=>
          \E i \in is : PropertyOf[i] \in DOMAIN m_propertyToEditor
                        /\ e = m_propertyToEditor[PropertyOf[i]]
  BY DEF EditorsOf
<1>4. Properties' = Properties /\ Items \subseteq Items' /\ data' = data
  BY DEF Properties, Items
<1>5. Typed' /\ ItemsAlive' /\ EditorsAgree' /\ CurrentAgrees'
  BY <1>2, <1>4 DEF EditInv, Typed, ItemsAlive, EditorsAgree, CurrentAgrees, Items, currentVars
<1>6. ViewCurrent' /\ MapAlive'
  BY <1>2, <1>4 DEF EditInv, ViewCurrent, MapAlive, currentVars
<1>7. OpenEditorsValid'
  <2> SUFFICES ASSUME NEW i \in DOMAIN view, ~editor'[view[i]].dying
               PROVE  /\ i \in Items' /\ on'[i]
                      /\ editor'[view[i]].property = PropertyOf[i]
                      /\ PropertyOf[i] \in DOMAIN m_propertyToEditor
                      /\ m_propertyToEditor[PropertyOf[i]] = view[i]
    BY DEF OpenEditorsValid
  <2>1. i \in Items /\ view[i] \in DOMAIN editor
    BY DEF EditInv, ViewCurrent
  <2>2. ~editor[view[i]].dying /\ view[i] \notin EditorsOf(is)
    BY <1>2, <2>1
  <2>3. /\ on[i] /\ editor[view[i]].property = PropertyOf[i]
        /\ PropertyOf[i] \in DOMAIN m_propertyToEditor
        /\ m_propertyToEditor[PropertyOf[i]] = view[i]
    BY <2>2 DEF EditInv, OpenEditorsValid
  <2>4. on'[i]
    BY <1>3, <2>1, <2>2, <2>3
  <2>. QED  BY <1>2, <1>4, <2>1, <2>3, <2>4
<1>8. NoOverlap'
  <2> SUFFICES ASSUME NEW i \in DOMAIN view, NEW e \in DOMAIN editor,
                      ~editor'[view[i]].dying, editor'[e].dying
               PROVE  editor[e].property # PropertyOf[i]
    BY <1>2 DEF NoOverlap
  <2>1. view[i] \in DOMAIN editor /\ ~editor[view[i]].dying
    BY <1>2 DEF EditInv, ViewCurrent
  <2>2. m_propertyToEditor[PropertyOf[i]] = view[i]
    BY <2>1 DEF EditInv, OpenEditorsValid
  <2>3. CASE editor[e].dying
    BY <2>1, <2>3 DEF EditInv, NoOverlap
  <2>4. CASE e \in EditorsOf(is)
    <3>1. PICK j \in is : PropertyOf[j] \in DOMAIN m_propertyToEditor
                          /\ e = m_propertyToEditor[PropertyOf[j]]
      BY <1>3, <2>4
    <3>2. editor[e].property = PropertyOf[j]
      BY <3>1 DEF EditInv, MapAlive
    <3>. QED  BY <1>2, <2>1, <2>2, <3>1, <3>2
  <2>. QED  BY <1>2, <2>3, <2>4
<1>. QED  BY <1>5, <1>6, <1>7, <1>8 DEF EditInv

\* An item that is inserted, and the items of a property that is enabled or
\* disabled.
LEMMA FlagStep ==
    ASSUME EditInv,
           \/ \E i \in Item : InsertItem(i)
           \/ \E p \in Property, b \in BOOLEAN : SetEnabled(p, b)
    PROVE  EditInv'
<1>1. /\ Items \subseteq Item /\ \A i \in Items : PropertyOf[i] \in Properties
  BY DEF EditInv, Typed, ItemsAlive
<1>2. ASSUME NEW i \in Item, InsertItem(i) PROVE EditInv'
  <2>1. /\ Items \subseteq DOMAIN on' /\ DOMAIN on' = Items \cup {i}
        /\ \A j \in Items : on'[j] = on[j]
        /\ PropertyOf[i] \in Properties
        /\ UNCHANGED <<data, currentVars, view, m_propertyToEditor>>
    BY <1>2 DEF InsertItem, With, Items, propertyVars
  <2>2. CASE enabled[PropertyOf[i]] /\ ParentOn(on, i)
    <3>1. editor' = editor
      BY <1>2, <2>2 DEF InsertItem
    <3>2. PICK is : is = {}
      OBVIOUS
    <3>3. /\ \A j \in Items : on[j] /\ ~on'[j] => j \in is
          /\ is \subseteq Item /\ DOMAIN on' \subseteq Item
          /\ \A j \in DOMAIN on' : PropertyOf[j] \in Properties
          /\ editor' = Doomed(EditorsOf(is)) \/ (is = {} /\ editor' = editor)
      BY <1>1, <2>1, <3>1, <3>2
    <3>. QED  BY <2>1, <3>3, DisableStep, Zenon
  <2>3. CASE ~(enabled[PropertyOf[i]] /\ ParentOn(on, i))
    <3>1. editor' = Doomed(EditorsOf({i}))
      BY <1>2, <2>3 DEF InsertItem
    <3>. QED  BY <1>1, <2>1, <3>1, DisableStep
  <2>. QED  BY <2>2, <2>3
<1>3. ASSUME NEW p \in Property, NEW b \in BOOLEAN, SetEnabled(p, b) PROVE EditInv'
  <2> PICK off : off = {j \in Items : on[j] /\ ~on'[j]}
    OBVIOUS
  <2>1. /\ DOMAIN on' = Items /\ UNCHANGED <<data, currentVars, view, m_propertyToEditor>>
        /\ off \subseteq Item
        /\ \A j \in Items : on[j] /\ ~on'[j] => j \in off
    BY <1>1, <1>3 DEF SetEnabled
  <2>2. CASE b
    <3>1. off = {} /\ editor' = editor
      BY <1>3, <2>2 DEF SetEnabled
    <3>2. \A j \in Items : ~(on[j] /\ ~on'[j])
      BY <3>1
    <3>. QED  BY <1>1, <2>1, <3>1, <3>2, DisableStep
  <2>3. CASE ~b
    <3>1. editor' = Doomed(EditorsOf(off))
      BY <1>3, <2>3 DEF SetEnabled
    <3>2. /\ Items \subseteq DOMAIN on' /\ DOMAIN on' \subseteq Item
          /\ \A j \in DOMAIN on' : PropertyOf[j] \in Properties
      BY <1>1, <2>1
    <3>. QED  BY <2>1, <3>1, <3>2, DisableStep, Zenon
  <2>. QED  BY <2>2, <2>3
<1>. QED  BY <1>2, <1>3

\* An editor is destroyed: by the event loop, or by another browser.
LEMMA DestroyEditorStep ==
    ASSUME EditInv, (\E e \in Editor : DeferredDelete(e)) \/ (\E p \in Property : CloseElsewhere(p))
    PROVE  EditInv'
<1>1. ASSUME NEW e \in Editor, DeferredDelete(e) PROVE EditInv'
  <2>1. /\ DOMAIN editor' = DOMAIN editor \ {e}
        /\ \A f \in DOMAIN editor' : editor'[f] = editor[f]
        /\ DOMAIN view' = {i \in DOMAIN view : view[i] # e}
        /\ \A i \in DOMAIN view' : view'[i] = view[i]
        /\ DOMAIN m_propertyToEditor' = DOMAIN m_propertyToEditor \ {editor[e].property}
        /\ \A p \in DOMAIN m_propertyToEditor' : m_propertyToEditor'[p] = m_propertyToEditor[p]
        /\ e \in DOMAIN editor /\ editor[e].dying
        /\ UNCHANGED <<propertyVars, on, currentVars>>
    <3>1. /\ DOMAIN editor \subseteq Editor /\ \A i \in DOMAIN view : i \in Items
          /\ \A p \in DOMAIN m_propertyToEditor : p \in Property
      BY DEF EditInv, Typed, ViewCurrent, MapAlive
    <3>. QED  BY <1>1, <3>1 DEF DeferredDelete, Restrict
  <2>2. Properties' = Properties /\ Items' = Items /\ data' = data
    BY <2>1 DEF Properties, Items, propertyVars
  <2>3. Typed' /\ ItemsAlive' /\ EditorsAgree' /\ CurrentAgrees'
    BY <2>1, <2>2 DEF EditInv, Typed, ItemsAlive, EditorsAgree, CurrentAgrees, currentVars
  <2>4. ViewCurrent' /\ MapAlive' /\ NoOverlap'
    BY <2>1, <2>2 DEF EditInv, ViewCurrent, MapAlive, NoOverlap, currentVars
  <2>5. OpenEditorsValid'
    BY <2>1, <2>2 DEF EditInv, OpenEditorsValid, ViewCurrent, NoOverlap
  <2>. QED  BY <2>3, <2>4, <2>5 DEF EditInv
<1>2. ASSUME NEW p \in Property, CloseElsewhere(p) PROVE EditInv'
  <2>1. PICK e \in Elsewhere(p) : editor' = Restrict(editor, Editor \ {e})
    BY <1>2 DEF CloseElsewhere
  <2>2. /\ DOMAIN editor' = DOMAIN editor \ {e}
        /\ \A f \in DOMAIN editor' : editor'[f] = editor[f]
        /\ ~editor[e].dying /\ \A i \in DOMAIN view : view[i] # e
    BY <2>1 DEF Elsewhere, Restrict, EditInv, Typed
  <2>3. /\ Properties' = Properties /\ Items' = Items /\ data' = data
        /\ UNCHANGED <<on, currentVars, view, m_propertyToEditor>>
    BY <1>2 DEF CloseElsewhere, Properties, Items, propertyVars
  <2>4. Typed' /\ ItemsAlive' /\ EditorsAgree' /\ CurrentAgrees'
    BY <2>2, <2>3 DEF EditInv, Typed, ItemsAlive, EditorsAgree, CurrentAgrees, currentVars
  <2>5. ViewCurrent' /\ MapAlive' /\ NoOverlap' /\ OpenEditorsValid'
    BY <2>2, <2>3 DEF EditInv, ViewCurrent, MapAlive, NoOverlap, OpenEditorsValid, currentVars
  <2>. QED  BY <2>4, <2>5 DEF EditInv
<1>. QED  BY <1>1, <1>2

\* A property is destroyed: its items and those below them go, and with them
\* every editor of the property that was not on its way out.
LEMMA DestroyPropertyStep ==
    ASSUME EditInv, NEW p \in Property, DestroyProperty(p)
    PROVE  EditInv'
<1>1. PICK gone : gone = UNION {Subtree(i) : i \in {j \in Items : PropertyOf[j] = p}}
  OBVIOUS
<1>2. \A i \in Items : PropertyOf[i] = p => i \in gone
  BY <1>1, InSubtree DEF EditInv
<1>3. Typed /\ ViewCurrent
  BY DEF EditInv
<1>4. /\ DOMAIN Kept(gone) = DOMAIN view \ gone
      /\ \A i \in DOMAIN view \ gone : Kept(gone)[i] = view[i]
      /\ DOMAIN Released(gone) = DOMAIN editor
      /\ \A e \in DOMAIN editor :
            /\ Released(gone)[e] \in [property : Property, shows : Shown, dying : BOOLEAN]
            /\ Released(gone)[e].property = editor[e].property
            /\ Released(gone)[e].shows = editor[e].shows
            /\ Released(gone)[e].dying
                  <=> (editor[e].dying \/ \E i \in gone \cap DOMAIN view : view[i] = e)
  BY <1>3, LetGo, Zenon
<1>5. /\ DOMAIN view' = DOMAIN view \ gone
      /\ \A i \in DOMAIN view' : view'[i] = view[i]
      /\ DOMAIN editor' = DOMAIN editor \ Elsewhere(p)
      /\ \A e \in DOMAIN editor' :
            /\ editor'[e] \in [property : Property, shows : Shown, dying : BOOLEAN]
            /\ editor'[e].property = editor[e].property
            /\ editor'[e].shows = editor[e].shows
            /\ editor'[e].dying <=> (editor[e].dying \/ \E i \in gone \cap DOMAIN view : view[i] = e)
  BY <1>1, <1>3, <1>4 DEF DestroyProperty, LoseItems, Restrict, Typed
<1>6. /\ Properties' = Properties \ {p} /\ \A q \in Properties' : data'[q] = data[q]
      /\ Items' = Items \ gone /\ \A i \in Items' : on'[i] = on[i]
      /\ DOMAIN on' = Items \ gone /\ m_propertyToEditor' = m_propertyToEditor
      /\ current' = IF current \in gone THEN None ELSE current
      /\ m_currentItem' = IF current \in gone THEN None ELSE m_currentItem
  BY <1>1, <1>3 DEF DestroyProperty, LoseItems, Restrict, Typed, Properties, Items
<1>7. /\ \A i \in DOMAIN view : view[i] \notin Elsewhere(p)
      /\ \A e \in DOMAIN editor : editor[e].dying => e \notin Elsewhere(p)
      /\ \A e \in DOMAIN editor : editor[e].property = p /\ ~editor[e].dying =>
            e \in Elsewhere(p) \/ \E i \in DOMAIN view : view[i] = e
  BY DEF Elsewhere
<1>8. Typed' /\ ItemsAlive' /\ CurrentAgrees'
  BY <1>2, <1>5, <1>6 DEF EditInv, Typed, ItemsAlive, CurrentAgrees
<1>9. EditorsAgree'
  <2> SUFFICES ASSUME NEW e \in DOMAIN editor', ~editor'[e].dying
               PROVE  editor'[e].property \in Properties' /\ editor'[e].shows = data'[editor'[e].property]
    BY DEF EditorsAgree
  <2>1. ~editor[e].dying /\ e \in DOMAIN editor /\ e \notin Elsewhere(p)
    BY <1>5
  <2>2. editor[e].property # p
    BY <1>2, <1>5, <1>7, <2>1 DEF EditInv, ViewCurrent
  <2>. QED  BY <1>5, <1>6, <2>1, <2>2 DEF EditInv, EditorsAgree
<1>10. ViewCurrent' /\ OpenEditorsValid'
  BY <1>5, <1>6, <1>7 DEF EditInv, ViewCurrent, OpenEditorsValid
<1>11. MapAlive'
  <2> SUFFICES ASSUME NEW q \in DOMAIN m_propertyToEditor
               PROVE  /\ m_propertyToEditor[q] \in DOMAIN editor'
                      /\ editor'[m_propertyToEditor[q]].property = q
                      /\ \/ editor'[m_propertyToEditor[q]].dying
                         \/ \E i \in DOMAIN view' : view'[i] = m_propertyToEditor[q]
    BY <1>6 DEF MapAlive
  <2>1. /\ m_propertyToEditor[q] \in DOMAIN editor /\ editor[m_propertyToEditor[q]].property = q
        /\ \/ editor[m_propertyToEditor[q]].dying
           \/ \E i \in DOMAIN view : view[i] = m_propertyToEditor[q]
    BY DEF EditInv, MapAlive
  <2>2. m_propertyToEditor[q] \in DOMAIN editor'
    BY <1>5, <1>7, <2>1
  <2>3. ASSUME NEW i \in DOMAIN view, view[i] = m_propertyToEditor[q]
        PROVE  \/ editor'[m_propertyToEditor[q]].dying
               \/ \E j \in DOMAIN view' : view'[j] = m_propertyToEditor[q]
    <3>1. CASE i \in gone
      BY <1>5, <2>2, <2>3, <3>1
    <3>2. CASE i \notin gone
      BY <1>5, <2>3, <3>2
    <3>. QED  BY <3>1, <3>2
  <2>. QED  BY <1>5, <2>1, <2>2, <2>3
<1>12. NoOverlap'
  BY <1>5, <1>7 DEF EditInv, NoOverlap, ViewCurrent
<1>. QED  BY <1>8, <1>9, <1>10, <1>11, <1>12 DEF EditInv

\* The tree opens an editor on its new current item.
LEMMA EditStep ==
    ASSUME EditInv, ~Overlapping, NEW i \in Item, EditItem(i)
    PROVE  EditInv'
<1>1. PICK other : other = {current} \ {i}
  OBVIOUS
<1>2. /\ i \in Items /\ current' = i /\ m_currentItem' = i
      /\ UNCHANGED <<data, enabled, on>>
      /\ Items' = Items /\ Properties' = Properties
  BY DEF EditItem, propertyVars, Items, Properties
<1>3. CASE ~(on[i] /\ i \notin DOMAIN view)
  <2>1. /\ editor' = Released(other) /\ view' = Kept(other)
        /\ UNCHANGED <<propertyVars, m_propertyToEditor>>
    BY <1>1, <1>3 DEF EditItem
  <2>2. CurrentAgrees' /\ DOMAIN on' \subseteq Items /\ \A j \in DOMAIN on' : on'[j] = on[j]
    BY <1>2 DEF CurrentAgrees, Items
  <2>3. \A j \in DOMAIN view \ other : j \in DOMAIN on' /\ j = current'
    BY <1>1, <1>2 DEF EditInv, ViewCurrent, Items
  <2>. QED  BY <2>1, <2>2, <2>3, LetGoStep
<1>4. CASE on[i] /\ i \notin DOMAIN view
  <2> DEFINE p == PropertyOf[i]
  <2>1. PICK e \in Editor \ DOMAIN editor :
          /\ \A f \in DOMAIN editor : Released(other)[f].dying => editor[f].property # p
          /\ editor' = With(Released(other), e, NewEditor(p))
          /\ view' = With(Kept(other), i, e)
          /\ m_propertyToEditor' = With(m_propertyToEditor, p, e)
    BY <1>1, <1>4 DEF EditItem
  <2>2. Typed /\ ViewCurrent
    BY DEF EditInv
  <2>3. /\ DOMAIN Kept(other) = DOMAIN view \ other
        /\ \A j \in DOMAIN view \ other : Kept(other)[j] = view[j]
        /\ DOMAIN Released(other) = DOMAIN editor
        /\ \A f \in DOMAIN editor :
              /\ Released(other)[f] \in [property : Property, shows : Shown, dying : BOOLEAN]
              /\ Released(other)[f].property = editor[f].property
              /\ Released(other)[f].shows = editor[f].shows
              /\ Released(other)[f].dying
                    <=> (editor[f].dying \/ \E j \in other \cap DOMAIN view : view[j] = f)
    BY <2>2, LetGo, Zenon
  <2>4. DOMAIN view \ other = {}
    BY <1>1, <1>4, <2>2 DEF ViewCurrent
  <2>5. p \in Properties /\ p \in Property /\ data[p] \in Shown
    BY <1>2 DEF EditInv, ItemsAlive, Typed
  <2>6. /\ DOMAIN view' = {i} /\ view'[i] = e
        /\ DOMAIN editor' = DOMAIN editor \cup {e}
        /\ \A f \in DOMAIN editor :
              /\ editor'[f] \in [property : Property, shows : Shown, dying : BOOLEAN]
              /\ editor'[f].property = editor[f].property
              /\ editor'[f].shows = editor[f].shows
              /\ editor'[f].dying <=> (editor[f].dying \/ \E j \in DOMAIN view : view[j] = f)
        /\ editor'[e] = [property |-> p, shows |-> data[p], dying |-> FALSE]
        /\ DOMAIN m_propertyToEditor' = DOMAIN m_propertyToEditor \cup {p}
        /\ m_propertyToEditor'[p] = e
        /\ \A q \in DOMAIN m_propertyToEditor \ {p} :
              m_propertyToEditor'[q] = m_propertyToEditor[q]
    <3>1. \A f \in DOMAIN editor :
            (\E j \in other \cap DOMAIN view : view[j] = f) <=> (\E j \in DOMAIN view : view[j] = f)
      BY <2>4
    <3>2. \A f \in DOMAIN editor : editor'[f] = Released(other)[f]
      BY <2>1, <2>3 DEF With
    <3>3. /\ DOMAIN view' = {i} /\ view'[i] = e
          /\ DOMAIN editor' = DOMAIN editor \cup {e}
          /\ editor'[e] = [property |-> p, shows |-> data[p], dying |-> FALSE]
      BY <2>1, <2>3, <2>4 DEF With, NewEditor
    <3>4. /\ DOMAIN m_propertyToEditor' = DOMAIN m_propertyToEditor \cup {p}
          /\ m_propertyToEditor'[p] = e
          /\ \A q \in DOMAIN m_propertyToEditor \ {p} :
                m_propertyToEditor'[q] = m_propertyToEditor[q]
      BY <2>1 DEF With
    <3>. QED  BY <2>3, <3>1, <3>2, <3>3, <3>4
  <2>7. editor'[e] \in [property : Property, shows : Shown, dying : BOOLEAN]
    BY <2>5, <2>6
  <2>8. Typed' /\ ItemsAlive' /\ CurrentAgrees'
    BY <1>2, <2>6, <2>7 DEF EditInv, Typed, ItemsAlive, CurrentAgrees
  <2>9. EditorsAgree' /\ OpenEditorsValid' /\ ViewCurrent'
    BY <1>2, <1>4, <2>5, <2>6 DEF EditInv, EditorsAgree, OpenEditorsValid, ViewCurrent
  <2>10. MapAlive'
    BY <2>6 DEF EditInv, MapAlive
  <2>11. NoOverlap'
    <3>1. \A f \in DOMAIN editor : editor'[f].dying => editor[f].property # p
      BY <2>1, <2>3, <2>6, <2>4
    <3>. QED  BY <2>6, <3>1 DEF NoOverlap
  <2>. QED  BY <2>8, <2>9, <2>10, <2>11 DEF EditInv
<1>. QED  BY <1>3, <1>4

LEMMA EditNext == EditInv /\ [Next]_vars /\ ~Overlapping => EditInv'
<1> SUFFICES ASSUME EditInv, [Next]_vars, ~Overlapping PROVE EditInv'
  OBVIOUS
<1>1. ASSUME NEW p \in Property, CreateProperty(p) \/ OpenElsewhere(p) PROVE EditInv'
  BY <1>1, CreateStep
<1>2. ASSUME NEW p \in Property, DestroyProperty(p) PROVE EditInv'
  BY <1>2, DestroyPropertyStep
<1>3. ASSUME \/ \E i \in Item : InsertItem(i)
             \/ \E p \in Property, b \in BOOLEAN : SetEnabled(p, b)
      PROVE  EditInv'
  BY <1>3, FlagStep
<1>4. ASSUME NEW i \in Item \cup {None},
             RemoveItem(i) \/ Click(i) \/ SetCurrentItem(i) \/ CloseEditor(i)
      PROVE  EditInv'
  BY <1>4, LeaveStep
<1>5. ASSUME NEW i \in Item, EditItem(i) PROVE EditInv'
  BY <1>5, EditStep
<1>6. ASSUME (\E e \in Editor : DeferredDelete(e)) \/ (\E p \in Property : CloseElsewhere(p))
      PROVE  EditInv'
  BY <1>6, DestroyEditorStep
<1>7. ASSUME NEW p \in Property, NEW v \in Values, SetValue(p, v) PROVE EditInv'
  <2>1. p \in Properties /\ data[p] \in Shown /\ v \in Int
    BY <1>7, TreeEditingAssumption DEF SetValue, EditInv, Typed
  <2>2. IntValue(data[p], v) \in Shown
    BY <2>1, ValueShown
  <2>. QED  BY <1>7, <2>1, <2>2, ChangeStep DEF SetValue
<1>8. ASSUME NEW p \in Property, NEW a \in Values, NEW b \in Values, SetRange(p, a, b)
      PROVE  EditInv'
  <2>1. p \in Properties /\ data[p] \in Shown /\ a \in Int /\ b \in Int
    BY <1>8, TreeEditingAssumption DEF SetRange, EditInv, Typed
  <2>2. IntRange(data[p], a, b) \in Shown
    BY <2>1, ValueShown
  <2>. QED  BY <1>8, <2>1, <2>2, ChangeStep DEF SetRange
<1>9. ASSUME NEW e \in Editor, NEW v \in Values, UserTypes(e, v) PROVE EditInv'
  <2>1. e \in DOMAIN editor
    BY <1>9 DEF UserTypes
  <2>2. editor[e].property \in Properties
    <3>1. CASE ~editor[e].dying
      BY <2>1, <3>1 DEF EditInv, EditorsAgree
    <3>2. CASE editor[e].dying
      BY <1>9, <3>2 DEF UserTypes, EditInv, ViewCurrent, ItemsAlive
    <3>. QED  BY <3>1, <3>2
  <2>3. data[editor[e].property] \in Shown /\ v \in Int
    BY <2>2, TreeEditingAssumption DEF EditInv, Typed
  <2>4. IntValue(data[editor[e].property], v) \in Shown
    BY <2>3, ValueShown
  <2>. QED  BY <1>9, <2>2, <2>4, ChangeStep DEF UserTypes
<1>10. CASE UNCHANGED vars
  BY <1>10 DEF vars, EditInv, Typed, ItemsAlive, ViewCurrent, MapAlive, NoOverlap,
       EditorsAgree, OpenEditorsValid, CurrentAgrees, Properties, Items
<1>. QED
  BY <1>1, <1>2, <1>3, <1>4, <1>5, <1>6, <1>7, <1>8, <1>9, <1>10 DEF Next

LEMMA EditAlways == ASSUME ~Overlapping PROVE Spec => []EditInv
<1>1. EditInv /\ [Next]_vars => EditInv'
  BY EditNext
<1>. QED  BY <1>1, EditInit, PTL DEF Spec

(* Every editor on the screen shows its property as it is, and belongs to  *)
(* one that exists, in this browser and in all others: the factory tells   *)
(* all of them (slotPropertyChanged()), and none outlives its item except  *)
(* to wait for its destruction.                                            *)
THEOREM EditorsInStep == ASSUME ~Overlapping PROVE Spec => []EditorsAgree
<1>1. EditInv => EditorsAgree
  BY DEF EditInv
<1>. QED  BY <1>1, EditAlways, PTL

(* The editor that is open on an item is the one of its property, and is   *)
(* closed with the item: disableItem() finds it in the delegate's map.     *)
THEOREM OpenEditors == ASSUME ~Overlapping PROVE Spec => []OpenEditorsValid
<1>1. EditInv => OpenEditorsValid
  BY DEF EditInv
<1>. QED  BY <1>1, EditAlways, PTL

LEMMA CurrentStep == CurrentAgrees /\ [Next]_vars => CurrentAgrees'
<1> SUFFICES ASSUME CurrentAgrees, [Next]_vars PROVE CurrentAgrees'
  OBVIOUS
<1>1. m_currentItem = current /\ current \in Items \cup {None}
  BY DEF CurrentAgrees
<1>2. ASSUME NEW gone, LoseItems(gone) PROVE CurrentAgrees'
  BY <1>1, <1>2 DEF LoseItems, Restrict, Items, CurrentAgrees
<1>3. ASSUME NEW i \in Item, InsertItem(i) PROVE CurrentAgrees'
  BY <1>1, <1>3 DEF InsertItem, With, Items, CurrentAgrees, currentVars
<1>4. ASSUME NEW i \in Item, Click(i) \/ EditItem(i) PROVE CurrentAgrees'
  BY <1>4 DEF Click, EditItem, Items, CurrentAgrees
<1>5. ASSUME NEW i \in Item \cup {None}, SetCurrentItem(i) PROVE CurrentAgrees'
  BY <1>1, <1>5 DEF SetCurrentItem, Items, CurrentAgrees
<1>6. ASSUME NEW p \in Property, NEW b \in BOOLEAN, SetEnabled(p, b) PROVE CurrentAgrees'
  <2>1. DOMAIN on' = Items /\ UNCHANGED currentVars
    BY <1>6 DEF SetEnabled
  <2>. QED  BY <1>1, <2>1 DEF Items, CurrentAgrees, currentVars
<1>7. ASSUME UNCHANGED <<on, currentVars>> PROVE CurrentAgrees'
  BY <1>1, <1>7 DEF Items, CurrentAgrees, currentVars
<1>8. ASSUME NEW p \in Property, DestroyProperty(p) PROVE CurrentAgrees'
  BY <1>2, <1>8 DEF DestroyProperty
<1>9. ASSUME NEW i \in Item, RemoveItem(i) PROVE CurrentAgrees'
  BY <1>2, <1>9 DEF RemoveItem
<1>10. ASSUME NEW p \in Property, CreateProperty(p) \/ OpenElsewhere(p) \/ CloseElsewhere(p)
       PROVE  CurrentAgrees'
  BY <1>7, <1>10 DEF CreateProperty, OpenElsewhere, CloseElsewhere
<1>11. ASSUME NEW p \in Property,
              \/ \E v \in Values : SetValue(p, v)
              \/ \E a, b \in Values : SetRange(p, a, b)
       PROVE  CurrentAgrees'
  BY <1>7, <1>11 DEF SetValue, SetRange, Change
<1>12. ASSUME NEW e \in Editor, DeferredDelete(e) \/ \E v \in Values : UserTypes(e, v)
       PROVE  CurrentAgrees'
  BY <1>7, <1>12 DEF DeferredDelete, UserTypes, Change
<1>13. ASSUME NEW i \in Item, CloseEditor(i) PROVE CurrentAgrees'
  BY <1>7, <1>13 DEF CloseEditor
<1>14. CASE UNCHANGED vars
  BY <1>7, <1>14 DEF vars, currentVars
<1>. QED
  BY <1>3, <1>4, <1>5, <1>6, <1>8, <1>9, <1>10, <1>11, <1>12, <1>13, <1>14 DEF Next

(* currentItem() is the tree's current item, which exists, though nothing  *)
(* in the base class resets m_currentItem when an item is deleted.         *)
THEOREM CurrentItem == Spec => []CurrentAgrees
<1>1. Init => CurrentAgrees
  BY DEF Init, CurrentAgrees
<1>. QED  BY <1>1, CurrentStep, PTL DEF Spec

-----------------------------------------------------------------------------
\* The way up from an item, one item at a time.
LEMMA PathUp ==
    ASSUME NEW j \in Item
    PROVE  /\ Path(j) \subseteq Item /\ j \in Path(j)
           /\ Parent[j] = None => Path(j) = {j}
           /\ Parent[j] # None =>
                 Parent[j] \in Item /\ Path(j) = {j} \cup Path(Parent[j]) /\ j \notin Path(Parent[j])
<1> USE TreeEditingAssumption
<1> DEFINE Closed(S) == \A k \in S : Parent[k] \in S \cup {None}
<1>1. ASSUME NEW m \in Item
      PROVE  /\ Path(m) \in SUBSET Item /\ m \in Path(m) /\ Closed(Path(m))
             /\ \A S \in SUBSET Item : m \in S /\ Closed(S) => Path(m) \subseteq S
  BY DEF Path
<1>2. CASE Parent[j] = None
  <2>1. Closed({j}) /\ {j} \in SUBSET Item
    BY <1>2
  <2>2. Path(j) \subseteq {j}
    BY <1>1, <2>1
  <2> QED
    BY <1>1, <1>2, <2>2
<1>3. CASE Parent[j] # None
  <2>1. Parent[j] \in Item
    BY <1>3
  <2> DEFINE S == {j} \cup Path(Parent[j])
  <2>2. S \in SUBSET Item /\ j \in S /\ Parent[j] \in S /\ Closed(S)
    BY <1>1, <2>1
  <2>3. Path(j) \subseteq S
    BY <1>1, <2>2
  <2>4. Parent[j] \in Path(j)
    BY <1>1, <1>3
  <2>5. Path(Parent[j]) \subseteq Path(j)
    BY <1>1, <2>1, <2>4
  <2> QED
    BY <1>1, <1>3, <2>1, <2>3, <2>5, ItemsAreTrees
<1> QED
  BY <1>2, <1>3

\* An item that is above another one has no way up to it.
LEMMA PathsOrdered ==
    ASSUME NEW i \in Item, NEW j \in Item, i \in Path(j), i # j
    PROVE  Parent[j] # None /\ i \in Path(Parent[j]) /\ j \notin Path(i)
<1>1. Parent[j] # None /\ i \in Path(Parent[j]) /\ Parent[j] \in Item /\ j \notin Path(Parent[j])
  BY PathUp
<1>2. Path(i) \subseteq Path(Parent[j])
  BY <1>1, TreeEditingAssumption DEF Path
<1> QED
  BY <1>1, <1>2

\* Flags, properties and items belong together: every item has its property
\* and the item above it.
FlagTyped ==
    /\ Items \subseteq Item /\ Properties \subseteq Property
    /\ enabled \in [Properties -> BOOLEAN] /\ on \in [Items -> BOOLEAN]
    /\ \A i \in Items : PropertyOf[i] \in Properties /\ Parent[i] \in Items \cup {None}

FlagInv == FlagTyped /\ FlagsFollow

\* What is enabled with a property, below those of its items that stand below
\* an enabled one, or none.
LEMMA EnableFlags ==
    ASSUME FlagInv, NEW p \in Properties, ~enabled[p], NEW T,
           T \subseteq Items,
           \A j \in Items : j \in T <=>
               \E i \in Items : /\ PropertyOf[i] = p /\ ParentOn(on, i) /\ i \in Path(j)
                                /\ \A k \in Path(j) \ Path(i) : enabled[PropertyOf[k]],
           NEW j \in Items
    PROVE  (on[j] \/ j \in T) <=>
             /\ PropertyOf[j] = p \/ enabled[PropertyOf[j]]
             /\ Parent[j] = None \/ on[Parent[j]] \/ Parent[j] \in T
<1>0. /\ j \in Item /\ Items \subseteq Item
      /\ \A i \in Items : on[i] <=> (enabled[PropertyOf[i]] /\ ParentOn(on, i))
      /\ Parent[j] \in Items \cup {None}
  BY DEF FlagInv, FlagTyped, FlagsFollow
<1>1. ASSUME PropertyOf[j] = p \/ enabled[PropertyOf[j]],
             Parent[j] = None \/ on[Parent[j]] \/ Parent[j] \in T
      PROVE  on[j] \/ j \in T
  <2>1. CASE ParentOn(on, j) /\ PropertyOf[j] = p
    BY <1>0, <2>1, PathUp
  <2>2. CASE ParentOn(on, j) /\ PropertyOf[j] # p
    BY <1>0, <1>1, <2>2
  <2>3. CASE ~ParentOn(on, j)
    <3>1. Parent[j] # None /\ Parent[j] \in T /\ Parent[j] \in Items
      BY <1>0, <1>1, <2>3 DEF ParentOn
    <3>2. PICK i \in Items : /\ PropertyOf[i] = p /\ ParentOn(on, i) /\ i \in Path(Parent[j])
                             /\ \A k \in Path(Parent[j]) \ Path(i) : enabled[PropertyOf[k]]
      BY <3>1
    <3>3. i \in Path(j) /\ i # j /\ Path(j) = {j} \cup Path(Parent[j])
      BY <1>0, <3>1, <3>2, PathUp
    <3>4. PropertyOf[j] # p
      BY <1>0, <3>2, <3>3, ItemsAreTrees
    <3>5. \A k \in Path(j) \ Path(i) : enabled[PropertyOf[k]]
      BY <1>1, <3>2, <3>3, <3>4
    <3> QED
      BY <3>2, <3>3, <3>5
  <2> QED
    BY <2>1, <2>2, <2>3
<1>2. ASSUME on[j]
      PROVE  /\ PropertyOf[j] = p \/ enabled[PropertyOf[j]]
             /\ Parent[j] = None \/ on[Parent[j]] \/ Parent[j] \in T
  BY <1>0, <1>2 DEF ParentOn
<1>3. ASSUME j \in T
      PROVE  /\ PropertyOf[j] = p \/ enabled[PropertyOf[j]]
             /\ Parent[j] = None \/ on[Parent[j]] \/ Parent[j] \in T
  <2>1. PICK i \in Items : /\ PropertyOf[i] = p /\ ParentOn(on, i) /\ i \in Path(j)
                           /\ \A k \in Path(j) \ Path(i) : enabled[PropertyOf[k]]
    BY <1>3
  <2>2. CASE i = j
    BY <2>1, <2>2 DEF ParentOn
  <2>3. CASE i # j
    <3>1. Parent[j] # None /\ i \in Path(Parent[j]) /\ j \notin Path(i) /\ Parent[j] \in Items
      BY <1>0, <2>1, <2>3, PathsOrdered
    <3>2. j \in Path(j) /\ Path(Parent[j]) \subseteq Path(j)
      BY <1>0, <3>1, PathUp
    <3> QED
      BY <2>1, <3>1, <3>2
  <2> QED
    BY <2>2, <2>3
<1> QED
  BY <1>1, <1>2, <1>3

\* What is disabled with it, below those of its items that were enabled.
LEMMA DisableFlags ==
    ASSUME FlagInv, NEW p \in Properties, enabled[p], NEW T,
           T \subseteq Items,
           \A j \in Items : j \in T <=>
               \E i \in Items : PropertyOf[i] = p /\ on[i] /\ i \in Path(j),
           NEW j \in Items
    PROVE  (on[j] /\ j \notin T) <=>
             /\ PropertyOf[j] # p /\ enabled[PropertyOf[j]]
             /\ Parent[j] = None \/ (on[Parent[j]] /\ Parent[j] \notin T)
<1>0. /\ j \in Item /\ Items \subseteq Item
      /\ on[j] <=> (enabled[PropertyOf[j]] /\ ParentOn(on, j))
      /\ Parent[j] \in Items \cup {None}
  BY DEF FlagInv, FlagTyped, FlagsFollow
<1>1. ASSUME on[j], j \notin T
      PROVE  /\ PropertyOf[j] # p /\ enabled[PropertyOf[j]]
             /\ Parent[j] = None \/ (on[Parent[j]] /\ Parent[j] \notin T)
  <2>1. PropertyOf[j] # p
    BY <1>0, <1>1, PathUp
  <2>2. Parent[j] # None => Parent[j] \notin T
    BY <1>0, <1>1, PathUp
  <2> QED
    BY <1>0, <1>1, <2>1, <2>2 DEF ParentOn
<1>2. ASSUME PropertyOf[j] # p, enabled[PropertyOf[j]],
             Parent[j] = None \/ (on[Parent[j]] /\ Parent[j] \notin T)
      PROVE  on[j] /\ j \notin T
  <2>1. on[j]
    BY <1>0, <1>2 DEF ParentOn
  <2>2. ASSUME j \in T PROVE FALSE
    <3>1. PICK i \in Items : PropertyOf[i] = p /\ on[i] /\ i \in Path(j)
      BY <2>2
    <3>2. Parent[j] # None /\ i \in Path(Parent[j]) /\ Parent[j] \in Items
      BY <1>0, <1>2, <3>1, PathsOrdered
    <3> QED
      BY <1>2, <3>1, <3>2
  <2> QED
    BY <2>1, <2>2
<1> QED
  BY <1>1, <1>2

LEMMA SetEnabledFlags ==
    ASSUME FlagInv, NEW p \in Property, NEW b \in BOOLEAN, SetEnabled(p, b)
    PROVE  FlagInv'
<1> DEFINE changed == {i \in Items : PropertyOf[i] = p /\ on[i] # (b /\ ParentOn(on, i))}
           below(i) == {j \in Subtree(i) : b => \A k \in Path(j) \ Path(i) :
                                                   enabled[PropertyOf[k]]}
           T == {j \in Items : \E i \in changed : j \in below(i)}
<1>0. /\ p \in Properties /\ enabled[p] # b /\ Items \subseteq Item
      /\ enabled' = [enabled EXCEPT ![p] = b] /\ UNCHANGED data
      /\ \A i \in Items : on[i] <=> (enabled[PropertyOf[i]] /\ ParentOn(on, i))
  BY DEF FlagInv, FlagTyped, FlagsFollow, SetEnabled
<1>1. on' = [j \in Items |-> IF \E i \in changed : j \in below(i) THEN b ELSE on[j]]
  BY DEF SetEnabled
<1>2. Items' = Items /\ \A j \in Items : on'[j] = IF j \in T THEN b ELSE on[j]
  BY <1>1 DEF Items
<1>3. FlagTyped'
  <2>1. on' \in [Items -> BOOLEAN]
    BY <1>1 DEF FlagInv, FlagTyped
  <2> QED
    BY <1>0, <1>2, <2>1 DEF FlagInv, FlagTyped, Properties
<1>4. \A q \in Properties : enabled'[q] = IF q = p THEN b ELSE enabled[q]
  BY <1>0 DEF FlagInv, FlagTyped
<1>5. ASSUME NEW j \in Items
      PROVE  on'[j] <=> (enabled'[PropertyOf[j]] /\ ParentOn(on, j)')
  <2>0. PropertyOf[j] \in Properties /\ Parent[j] \in Items \cup {None} /\ None \notin Items
    BY <1>0, TreeEditingAssumption DEF FlagInv, FlagTyped
  <2>3. T \subseteq Items
    OBVIOUS
  <2>1. CASE b
    <3>1. ~enabled[p] /\ \A i \in Items : PropertyOf[i] = p => on[i] = FALSE
      BY <1>0, <2>1 DEF FlagInv, FlagTyped
    <3>2. \A i \in Items : i \in T <=>
              \E k \in Items : /\ PropertyOf[k] = p /\ ParentOn(on, k) /\ k \in Path(i)
                               /\ \A m \in Path(i) \ Path(k) : enabled[PropertyOf[m]]
      BY <1>0, <2>1, <3>1 DEF Subtree
    <3>3. (on[j] \/ j \in T) <=> /\ PropertyOf[j] = p \/ enabled[PropertyOf[j]]
                                 /\ Parent[j] = None \/ on[Parent[j]] \/ Parent[j] \in T
      BY <1>0, <3>1, <3>2, EnableFlags
    <3>4. on'[j] <=> on[j] \/ j \in T
      BY <1>2, <2>1
    <3>5. Parent[j] # None => (on'[Parent[j]] <=> on[Parent[j]] \/ Parent[j] \in T)
      BY <1>2, <2>0, <2>1
    <3>6. enabled'[PropertyOf[j]] <=> PropertyOf[j] = p \/ enabled[PropertyOf[j]]
      BY <1>4, <2>0, <2>1
    <3> QED
      BY <3>3, <3>4, <3>5, <3>6 DEF ParentOn
  <2>2. CASE ~b
    <3>1. enabled[p] /\ \A i \in Items : on[i] \in BOOLEAN
      BY <1>0, <2>2 DEF FlagInv, FlagTyped
    <3>2. \A i \in Items : i \in T <=>
              \E k \in Items : PropertyOf[k] = p /\ on[k] /\ k \in Path(i)
      BY <1>0, <2>2, <3>1 DEF Subtree
    <3>3. (on[j] /\ j \notin T) <=> /\ PropertyOf[j] # p /\ enabled[PropertyOf[j]]
                                    /\ Parent[j] = None \/ (on[Parent[j]] /\ Parent[j] \notin T)
      <4> HIDE DEF T
      <4> QED
        BY <1>0, <2>3, <3>1, <3>2, DisableFlags
    <3>4. on'[j] <=> on[j] /\ j \notin T
      BY <1>2, <2>2
    <3>5. Parent[j] # None => (on'[Parent[j]] <=> on[Parent[j]] /\ Parent[j] \notin T)
      BY <1>2, <2>0, <2>2
    <3>6. enabled'[PropertyOf[j]] <=> PropertyOf[j] # p /\ enabled[PropertyOf[j]]
      BY <1>4, <2>0, <2>2
    <3> QED
      BY <3>3, <3>4, <3>5, <3>6 DEF ParentOn
  <2> QED
    BY <2>1, <2>2
<1> QED
  BY <1>2, <1>3, <1>5 DEF FlagInv, FlagsFollow

\* Items that leave the tree with all below them.
LEMMA LoseFlags ==
    ASSUME FlagInv, NEW gone, on' = Restrict(on, Items \ gone),
           \A j \in Items \ gone : Parent[j] \notin gone /\ PropertyOf[j] \in Properties',
           Properties' \subseteq Properties, enabled' \in [Properties' -> BOOLEAN],
           \A q \in Properties' : enabled'[q] = enabled[q]
    PROVE  FlagInv'
<1>1. Items' = Items \ gone /\ \A j \in Items \ gone : on'[j] = on[j]
  BY DEF Restrict, Items
<1>2. \A j \in Items \ gone : Parent[j] \in (Items \ gone) \cup {None}
  BY DEF FlagInv, FlagTyped
<1>3. FlagTyped'
  <2>1. on' \in [Items' -> BOOLEAN]
    BY <1>1 DEF FlagInv, FlagTyped, Restrict
  <2> QED
    BY <1>1, <1>2, <2>1 DEF FlagInv, FlagTyped
<1>4. \A j \in Items \ gone : ParentOn(on, j)' <=> ParentOn(on, j)
  BY <1>1, <1>2 DEF ParentOn
<1>5. \A j \in Items \ gone : on[j] <=> (enabled[PropertyOf[j]] /\ ParentOn(on, j))
  BY DEF FlagInv, FlagsFollow
<1>6. \A j \in Items \ gone : enabled'[PropertyOf[j]] = enabled[PropertyOf[j]]
  OBVIOUS
<1>7. \A j \in Items' : on'[j] <=> (enabled'[PropertyOf[j]] /\ ParentOn(on, j)')
  BY <1>1, <1>4, <1>5, <1>6
<1> QED
  BY <1>3, <1>7 DEF FlagInv, FlagsFollow

LEMMA FlagsNext == FlagInv /\ [Next]_vars => FlagInv'
<1> SUFFICES ASSUME FlagInv, [Next]_vars PROVE FlagInv'
  OBVIOUS
<1>0. FlagTyped /\ FlagsFollow
  BY DEF FlagInv
<1>1. ASSUME UNCHANGED <<on, enabled>>, Properties' = Properties PROVE FlagInv'
  BY <1>0, <1>1 DEF FlagInv, FlagTyped, FlagsFollow, ParentOn, Items
<1>2. ASSUME NEW p \in Property, CreateProperty(p) PROVE FlagInv'
  <2>1. /\ Properties' = Properties \cup {p} /\ enabled' \in [Properties' -> BOOLEAN]
        /\ UNCHANGED on /\ p \notin Properties
        /\ \A q \in Properties : enabled'[q] = enabled[q]
    BY <1>0, <1>2 DEF CreateProperty, With, Properties, FlagTyped
  <2>2. FlagTyped'
    BY <1>0, <2>1 DEF FlagTyped, Items
  <2>3. FlagsFollow'
    BY <1>0, <2>1 DEF FlagTyped, FlagsFollow, ParentOn, Items
  <2> QED
    BY <2>2, <2>3 DEF FlagInv
<1>3. ASSUME NEW p \in Property, DestroyProperty(p) PROVE FlagInv'
  <2>1. PICK gone : /\ gone = UNION {Subtree(i) : i \in {j \in Items : PropertyOf[j] = p}}
                    /\ on' = Restrict(on, Items \ gone)
    BY <1>3 DEF DestroyProperty, LoseItems
  <2>2. /\ Properties' = Properties \ {p} /\ enabled' \in [Properties' -> BOOLEAN]
        /\ \A q \in Properties' : enabled'[q] = enabled[q]
    BY <1>0, <1>3 DEF DestroyProperty, Restrict, Properties, FlagTyped
  <2>3. ASSUME NEW j \in Items \ gone PROVE Parent[j] \notin gone /\ PropertyOf[j] \in Properties'
    <3>1. j \in Item /\ PropertyOf[j] \in Properties /\ j \in Path(j)
      BY <1>0, <2>3, PathUp DEF FlagTyped
    <3>2. PropertyOf[j] # p
      BY <2>1, <2>3, <3>1 DEF Subtree
    <3>3. ASSUME Parent[j] \in gone PROVE FALSE
      <4>1. PICK i \in Items : PropertyOf[i] = p /\ Parent[j] \in Items /\ i \in Path(Parent[j])
        BY <2>1, <3>3 DEF Subtree
      <4>2. i \in Path(j)
        BY <1>0, <3>1, <4>1, PathUp, TreeEditingAssumption DEF FlagTyped
      <4> QED
        BY <2>1, <2>3, <4>1, <4>2 DEF Subtree
    <3> QED
      BY <2>2, <3>1, <3>2, <3>3
  <2> QED
    BY <2>1, <2>2, <2>3, LoseFlags
<1>4. ASSUME NEW i \in Item, RemoveItem(i) PROVE FlagInv'
  <2>1. /\ on' = Restrict(on, Items \ {i}) /\ UNCHANGED <<data, enabled>>
        /\ i \in Items /\ Subtree(i) = {i}
    BY <1>4 DEF RemoveItem, LoseItems, propertyVars
  <2>2. ASSUME NEW j \in Items \ {i} PROVE Parent[j] # i
    <3>1. j \in Item /\ Items \subseteq Item /\ i # None /\ j \notin Subtree(i)
      BY <1>0, <2>1, <2>2, TreeEditingAssumption DEF FlagTyped
    <3>2. i \in Path(i) /\ i \notin Path(j)
      BY <2>2, <3>1, PathUp DEF Subtree
    <3> QED
      BY <3>1, <3>2, PathUp
  <2> QED
    BY <1>0, <2>1, <2>2, LoseFlags DEF FlagTyped, Properties
<1>5. ASSUME NEW i \in Item, InsertItem(i) PROVE FlagInv'
  <2>1. /\ i \notin Items /\ PropertyOf[i] \in Properties /\ Parent[i] \in Items \cup {None}
        /\ on' = With(on, i, enabled[PropertyOf[i]] /\ ParentOn(on, i))
        /\ UNCHANGED <<data, enabled>>
    BY <1>5 DEF InsertItem, propertyVars
  <2>2. Items' = Items \cup {i} /\ \A j \in Items : on'[j] = on[j]
    BY <2>1 DEF With, Items
  <2>3. /\ on'[i] = (enabled[PropertyOf[i]] /\ ParentOn(on, i))
        /\ on' \in [Items' -> BOOLEAN]
    BY <1>0, <2>1, <2>2 DEF With, FlagTyped
  <2>4. FlagTyped'
    BY <1>0, <2>1, <2>2, <2>3 DEF FlagTyped, Properties
  <2>5. \A j \in Items \cup {i} : Parent[j] # None => on'[Parent[j]] = on[Parent[j]]
    BY <1>0, <2>1, <2>2 DEF FlagTyped
  <2>6. \A j \in Items : on'[j] <=> (enabled'[PropertyOf[j]] /\ ParentOn(on, j)')
    BY <1>0, <2>1, <2>2, <2>5 DEF FlagsFollow, ParentOn
  <2>7. on'[i] <=> (enabled'[PropertyOf[i]] /\ ParentOn(on, i)')
    BY <2>1, <2>3, <2>5 DEF ParentOn
  <2> QED
    BY <2>2, <2>4, <2>6, <2>7 DEF FlagInv, FlagsFollow
<1>6. ASSUME NEW p \in Property, NEW b \in BOOLEAN, SetEnabled(p, b) PROVE FlagInv'
  BY <1>6, SetEnabledFlags
<1>7. ASSUME NEW p \in Properties, NEW d, Change(p, d) PROVE FlagInv'
  BY <1>1, <1>7 DEF Change, Properties
<1>8. ASSUME NEW p \in Property, \/ \E v \in Values : SetValue(p, v)
                                 \/ \E a, b \in Values : SetRange(p, a, b)
                                 \/ OpenElsewhere(p) \/ CloseElsewhere(p)
      PROVE  FlagInv'
  BY <1>1, <1>8 DEF SetValue, SetRange, Change, OpenElsewhere, CloseElsewhere, propertyVars,
                    Properties
<1>9. ASSUME NEW i \in Item \cup {None},
             Click(i) \/ EditItem(i) \/ CloseEditor(i) \/ SetCurrentItem(i)
      PROVE  FlagInv'
  BY <1>1, <1>9 DEF Click, EditItem, CloseEditor, SetCurrentItem, propertyVars, Properties
<1>10. ASSUME NEW e \in Editor, DeferredDelete(e) \/ \E v \in Values : UserTypes(e, v)
       PROVE  FlagInv'
  BY <1>1, <1>10 DEF DeferredDelete, UserTypes, Change, propertyVars, Properties
<1>11. CASE UNCHANGED vars
  BY <1>1, <1>11 DEF vars, Properties
<1> QED
  BY <1>2, <1>3, <1>4, <1>5, <1>6, <1>8, <1>9, <1>10, <1>11 DEF Next

(* An item is enabled exactly if its property and all items above it are,  *)
(* for any tree of items: what enableItem() and disableItem() leave alone  *)
(* below a property is as updateItem() would have it.                      *)
THEOREM Flags == Spec => []FlagsFollow
<1>1. Init => FlagInv
  BY DEF Init, FlagInv, FlagTyped, FlagsFollow, Items, Properties
<1>2. FlagInv => FlagsFollow
  BY DEF FlagInv
<1> QED
  BY <1>1, <1>2, FlagsNext, PTL DEF Spec
=============================================================================

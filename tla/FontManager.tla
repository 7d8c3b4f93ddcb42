---------------------------- MODULE FontManager -----------------------------
(***************************************************************************)
(* A font property of QtFontPropertyManager, with its family (an index     *)
(* into the names of the installed families), its point size and its style *)
(* as parts; bold stands for the five flags, which are treated alike.      *)
(* setValue() ignores what the parts send meanwhile (m_settingValue).  The *)
(* names are those of the font database when they were read last: a change *)
(* of the database starts a timer, and the slot of the timer adapts the    *)
(* property - not under m_settingValue.                                    *)
(***************************************************************************)
EXTENDS SimpleProperty

CONSTANTS
    Families,     \* names of families, installed or not
    PointSizes,   \* what QFont::pointSize() may be, -1 for a font whose size
                  \* is given in pixels
    Databases,    \* the lists of families that may be installed at a time
    Destroyable   \* the parts that may be destroyed on their own

Part == {"family", "size", "bold"}

FontAssumption ==
    /\ PointSizes \subseteq {-1} \cup (Nat \ {0})
    /\ Databases \subseteq Seq(Families) \ {<<>>} /\ Databases # {}
    /\ Destroyable \subseteq Part

Fonts == [family : Families, size : PointSizes, bold : BOOLEAN]

VARIABLE font    \* val; part[p]: the data of p in its manager
                 \* live: the parts not destroyed
                 \* names: m_familyNames; setting: m_settingValue
                 \* heard: the value of the last valueChanged()
                 \* shown[p]: the value the editors of p were told last
                 \* db: the installed families; timer: whether the timer runs

(* indexOf(), or 0 for a name that is not in the list.                     *)
IndexOr0(names, f) ==
    IF \E k \in DOMAIN names : names[k] = f
    THEN (CHOOSE k \in DOMAIN names : names[k] = f) - 1 ELSE 0

IsIn(f, names) == \E k \in DOMAIN names : names[k] = f

-----------------------------------------------------------------------------
RECURSIVE setValue(_, _)

(* slotIntChanged(), slotEnumChanged() and slotBoolChanged().              *)
SlotChanged(s, p, v) ==
    IF s.setting THEN s
    ELSE setValue(s, [s.val EXCEPT ![p] = IF p = "family" THEN s.names[v + 1] ELSE v])

\* Part p has new data d; told tells whether valueChanged() is sent.
PartChanged(s, p, d, told) ==
    LET t == [s EXCEPT !.part[p] = d] IN
    IF ~told THEN t ELSE [SlotChanged(t, p, d.val) EXCEPT !.shown[p] = d.val]

SetPart(s, p, v) ==
    LET d == CASE p = "family" -> EnumValue(s.part[p], v)
               [] p = "size"   -> IntValue(s.part[p], v)
               [] p = "bold"   -> [val |-> v]
    IN  IF p \in s.live THEN PartChanged(s, p, d, d.val # s.part[p].val) ELSE s

SetFamilyNames(s, names) ==
    LET d == EnumNames(s.part["family"], names)
    IN  IF "family" \in s.live THEN PartChanged(s, "family", d, d # s.part["family"]) ELSE s

\* Mutant: the parts may answer while they are set.
SetValueUnguarded(s, v) ==
    LET a == [s EXCEPT !.val = v]
        b == SetPart(a, "family", IndexOr0(s.names, v.family))
        c == SetPart(b, "size", v.size)
        d == SetPart(c, "bold", v.bold)
    IN  IF v = s.val THEN s ELSE [d EXCEPT !.setting = s.setting, !.heard = v]

(* setValue(): the parts are set without an answer.                        *)
setValue(s, v) ==
    LET a == [s EXCEPT !.val = v, !.setting = TRUE]
        b == SetPart(a, "family", IndexOr0(s.names, v.family))
        c == SetPart(b, "size", v.size)
        d == SetPart(c, "bold", v.bold)
    IN  IF v = s.val THEN s ELSE [d EXCEPT !.setting = s.setting, !.heard = v]

\* Mutant: the index of the family is not looked up in the new names.
DelayedChangeOldIndex(s) ==
    LET index == s.part["family"].val
    IN  SetPart(SetFamilyNames([s EXCEPT !.names = s.db], s.db), "family", index)

(* slotFontDatabaseDelayedChange(): the family part gets the new names and *)
(* the index of the name it showed.                                        *)
slotFontDatabaseDelayedChange(s) ==
    LET index == IndexOr0(s.db, s.names[s.part["family"].val + 1])
    IN  SetPart(SetFamilyNames([s EXCEPT !.names = s.db], s.db), "family", index)

-----------------------------------------------------------------------------
(* initializeProperty(): the size has a minimum of 1.                      *)
Init ==
    \E f \in Fonts, names \in Databases :
        LET val == [family |-> IndexOr0(names, f.family), size |-> Larger(1, f.size),
                    bold |-> f.bold]
        IN  font = [val |-> f, names |-> names, live |-> Part, setting |-> FALSE,
                    part |-> [family |-> [val |-> val.family, names |-> names],
                              size |-> WithMinimum(IntValue(NewInt, f.size), 1),
                              bold |-> [val |-> f.bold]],
                    heard |-> f, shown |-> val, db |-> names, timer |-> FALSE]

SetValue(f) == font' = setValue(font, f)

EditPart(p, v) == font' = SetPart(font, p, v)

\* slotPropertyDestroyed()
DestroyPart(p) ==
    /\ p \in font.live
    /\ font' = [font EXCEPT !.live = @ \ {p}]

(* Fonts are installed or removed: slotFontDatabaseChanged().              *)
ChangeDatabase(names) ==
    /\ names # font.db
    /\ font' = [font EXCEPT !.db = names, !.timer = TRUE]

Timeout ==
    /\ font.timer
    /\ font' = slotFontDatabaseDelayedChange([font EXCEPT !.timer = FALSE])

Next ==
    \/ \E f \in Fonts : SetValue(f)
    \/ \E i \in 0 .. Len(font.names) : EditPart("family", i)
    \/ \E n \in PointSizes \cup {0} : EditPart("size", n)
    \/ \E b \in BOOLEAN : EditPart("bold", b)
    \/ \E p \in Destroyable : DestroyPart(p)
    \/ \E names \in Databases : ChangeDatabase(names)
    \/ Timeout

-----------------------------------------------------------------------------
(* Nested properties are updated automatically (doc of setValue()): the    *)
(* parts that are left show the font, the first family if the family of    *)
(* the font is not among the names.                                        *)
PartsFollow ==
    /\ "family" \in font.live => font.part["family"] =
          [val |-> IndexOr0(font.names, font.val.family), names |-> font.names]
    /\ \A p \in font.live \ {"family"} : font.part[p].val = font.val[p]

(* The names are those of the database, or the timer runs to make them so; *)
(* and no call leaves the parts cut off.                                   *)
Inside == (font.timer \/ font.names = font.db) /\ ~font.setting

(* Whoever listens to valueChanged() was told the present value last.      *)
ListenersKnow ==
    /\ font.heard = font.val
    /\ \A p \in font.live : font.shown[p] = font.part[p].val

(* setValue() sets the value it is given.                                  *)
Obeys == \A f \in Fonts : setValue(font, f).val = f

(* A change of the database leaves a font alone whose family was known and *)
(* still is installed.                                                     *)
KeepsFamily ==
    Timeout /\ IsIn(font.val.family, font.names) /\ IsIn(font.val.family, font.db)
        => font'.val = font.val
=============================================================================

--------------------------- MODULE LocaleManager ----------------------------
(***************************************************************************)
(* A locale property of QtLocalePropertyManager.  Its parts are enum       *)
(* properties: the language, an index into all languages, and the country, *)
(* an index into the countries of the present language, so that another    *)
(* language gives the country part new names and sets it to the first of   *)
(* them before it gets its value.  The calls nest as in RectManager.       *)
(***************************************************************************)
EXTENDS SimpleProperty

CONSTANTS
    Languages,     \* the languages, in the order of their names
    Countries,     \* Countries[l]: the countries of language l, in that order
    Usual,         \* Usual[l]: the country QLocale takes for one it does not know
    C,             \* the language of QLocale::C
    Destroyable    \* the parts that may be destroyed on their own

Part == {"language", "country"}
Language == {Languages[k] : k \in DOMAIN Languages}

CountriesOf(l) == {Countries[l][k] : k \in DOMAIN Countries[l]}

LocaleAssumption ==
    /\ DOMAIN Countries = Language /\ DOMAIN Usual = Language
    /\ \A l \in Language : Usual[l] \in CountriesOf(l)
    /\ C \in Language
    /\ Destroyable \subseteq Part

Locales == UNION {{l} \X CountriesOf(l) : l \in Language}

VARIABLE locale    \* val: the pair of language and country
                   \* part[p]: the data of p in the QtEnumPropertyManager
                   \* live: the parts not destroyed
                   \* heard: the value of the last valueChanged()
                   \* shown[p]: the value the editors of p were told last

QLocale(l, country) == <<l, IF country \in CountriesOf(l) THEN country ELSE Usual[l]>>

IndexIn(seq, e) == (CHOOSE k \in DOMAIN seq : seq[k] = e) - 1

(* indexToLocale() without the country, and the country with it; an index  *)
(* of no language stands for QLocale::C.                                   *)
LanguageAt(i) == IF i + 1 \in DOMAIN Languages THEN Languages[i + 1] ELSE C

LocaleAt(i, k) ==
    IF /\ i + 1 \in DOMAIN Languages
       /\ k + 1 \in DOMAIN Countries[Languages[i + 1]]
    THEN <<Languages[i + 1], Countries[Languages[i + 1]][k + 1]>>
    ELSE <<LanguageAt(i), Usual[LanguageAt(i)]>>

-----------------------------------------------------------------------------
RECURSIVE setValue(_, _)

(* slotEnumChanged(): a new language keeps the country if it has it; the   *)
(* country is one of the language that the language part shows.            *)
slotEnumChanged(s, p, i) ==
    setValue(s, IF p = "language" THEN QLocale(LanguageAt(i), s.val[2])
                ELSE LocaleAt(IF "language" \in s.live THEN s.part["language"].val ELSE -1, i))

(* Part p has new data: slotEnumChanged(), then its editors.  A part with  *)
(* new names always sends its value.                                       *)
PartChanged(s, p, d) ==
    LET t == [s EXCEPT !.part[p] = d] IN
    IF d = s.part[p] THEN t
    ELSE [slotEnumChanged(t, p, d.val) EXCEPT !.shown[p] = d.val]

SetPart(s, p, i) ==
    IF p \in s.live THEN PartChanged(s, p, EnumValue(s.part[p], i)) ELSE s

SetPartNames(s, p, names) ==
    IF p \in s.live THEN PartChanged(s, p, EnumNames(s.part[p], names)) ELSE s

\* Mutant: the country part keeps the names of the old language.
SetValueOldNames(s, v) ==
    LET l == SetPart([s EXCEPT !.val = v], "language", IndexIn(Languages, v[1]))
        n == IF v[1] = s.val[1] THEN [s EXCEPT !.val = v] ELSE l
        c == SetPart(n, "country", IndexIn(Countries[v[1]], v[2]))
    IN  IF v = s.val THEN s ELSE [c EXCEPT !.heard = v]

(* setValue(); the signal carries v, whatever the nested calls did.        *)
setValue(s, v) ==
    LET l == SetPart([s EXCEPT !.val = v], "language", IndexIn(Languages, v[1]))
        n == IF v[1] = s.val[1] THEN [s EXCEPT !.val = v]
             ELSE SetPartNames(l, "country", Countries[v[1]])
        c == SetPart(n, "country", IndexIn(Countries[v[1]], v[2]))
    IN  IF v = s.val THEN s ELSE [c EXCEPT !.heard = v]

-----------------------------------------------------------------------------
(* initializeProperty(), with any locale as the default one.               *)
Init ==
    \E v \in Locales :
        LET lang    == IndexIn(Languages, v[1])
            country == IndexIn(Countries[v[1]], v[2])
        IN  locale = [val |-> v, live |-> Part, heard |-> v,
                      part |-> [language |-> [val |-> lang, names |-> Languages],
                                country |-> [val |-> country, names |-> Countries[v[1]]]],
                      shown |-> [language |-> lang, country |-> country]]

SetValue(v) == locale' = setValue(locale, v)

EditPart(p, i) == locale' = SetPart(locale, p, i)

\* slotPropertyDestroyed()
DestroyPart(p) ==
    /\ p \in locale.live
    /\ locale' = [locale EXCEPT !.live = @ \ {p}]

Next ==
    \/ \E v \in Locales : SetValue(v)
    \/ \E p \in Part : \E i \in -1 .. Len(locale.part[p].names) : EditPart(p, i)
    \/ \E p \in Destroyable : DestroyPart(p)

-----------------------------------------------------------------------------
(* Nested properties are updated automatically (doc of setValue()): the    *)
(* parts that are left show the value, the country under its own name.     *)
PartsFollow ==
    LET lang == locale.val[1] IN
    /\ locale.part["language"].names = Languages
    /\ "language" \in locale.live =>
          locale.part["language"].val = IndexIn(Languages, lang)
    /\ "country" \in locale.live =>
          locale.part["country"] = [val |-> IndexIn(Countries[lang], locale.val[2]),
                                    names |-> Countries[lang]]

(* The value is always a language with one of its countries.               *)
Inside == locale.val \in Locales

(* Whoever listens to valueChanged() was told the present value last.      *)
ListenersKnow ==
    /\ locale.heard = locale.val
    /\ \A p \in locale.live : locale.shown[p] = locale.part[p].val

(* setValue() sets the value it is given.                                  *)
Obeys == \A v \in Locales : setValue(locale, v).val = v
=============================================================================

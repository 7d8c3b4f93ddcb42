-------------------------- MODULE PropertyManagers --------------------------
(***************************************************************************)
(* The managers of properties that have parts.  They do not interact, so   *)
(* that a behaviour has a property of one kind and the calls on it: the    *)
(* states of the managers add up instead of multiplying.                   *)
(***************************************************************************)
EXTENDS Integers, Sequences, FiniteSets

CONSTANTS Rects, Numbers, RectDestroyable,
          Sizes, Lengths,
          Languages, Countries, Usual, C, LocaleDestroyable,
          Families, PointSizes, Databases, FontDestroyable,
          FlagLists,
          Points,
          PolicyNames, SizePolicies,
          Colors, Components

VARIABLES rect, size, locale, font, flag, point, sizePolicy, color

vars == <<rect, size, locale, font, flag, point, sizePolicy, color>>

Rect   == INSTANCE RectManager WITH Destroyable <- RectDestroyable
Size   == INSTANCE SizeManager
Locale == INSTANCE LocaleManager WITH Destroyable <- LocaleDestroyable
Font   == INSTANCE FontManager WITH Destroyable <- FontDestroyable
Flag   == INSTANCE FlagManager
Point  == INSTANCE PointManager
Policy == INSTANCE SizePolicyManager WITH Numbers <- Components
Color  == INSTANCE ColorManager WITH Numbers <- Components

ASSUME PropertyManagersAssumption ==
    /\ Rect!RectAssumption /\ Size!SizeAssumption /\ Locale!LocaleAssumption
    /\ Font!FontAssumption /\ Flag!FlagAssumption

Nothing == [val |-> "nothing"]     \* there is no property of this kind

IsRect   == rect # Nothing
IsSize   == size # Nothing
IsLocale == locale # Nothing
IsFont   == font # Nothing
IsFlag   == flag # Nothing
IsPoint  == point # Nothing
IsPolicy == sizePolicy # Nothing
IsColor  == color # Nothing

Init ==
    /\ rect = Nothing       \/ Rect!Init
    /\ size = Nothing       \/ Size!Init
    /\ locale = Nothing     \/ Locale!Init
    /\ font = Nothing       \/ Font!Init
    /\ flag = Nothing       \/ Flag!Init
    /\ point = Nothing      \/ Point!Property!Init
    /\ sizePolicy = Nothing \/ Policy!Property!Init
    /\ color = Nothing      \/ Color!Property!Init
    /\ Cardinality({k \in 1 .. Len(vars) : vars[k] # Nothing}) = 1

Next ==
    \/ IsRect   /\ Rect!Next   /\ UNCHANGED <<size, locale, font, flag, point, sizePolicy, color>>
    \/ IsSize   /\ Size!Next   /\ UNCHANGED <<rect, locale, font, flag, point, sizePolicy, color>>
    \/ IsLocale /\ Locale!Next /\ UNCHANGED <<rect, size, font, flag, point, sizePolicy, color>>
    \/ IsFont   /\ Font!Next   /\ UNCHANGED <<rect, size, locale, flag, point, sizePolicy, color>>
    \/ IsFlag   /\ Flag!Next   /\ UNCHANGED <<rect, size, locale, font, point, sizePolicy, color>>
    \/ IsPoint  /\ Point!Property!Next
                /\ UNCHANGED <<rect, size, locale, font, flag, sizePolicy, color>>
    \/ IsPolicy /\ Policy!Property!Next
                /\ UNCHANGED <<rect, size, locale, font, flag, point, color>>
    \/ IsColor  /\ Color!Property!Next
                /\ UNCHANGED <<rect, size, locale, font, flag, point, sizePolicy>>

Spec == Init /\ [][Next]_vars

-----------------------------------------------------------------------------
(* Nested properties are updated automatically, as the docs of the         *)
(* setValue() have it: after each call the parts that are left show the    *)
(* value and have the ranges and names that go with it.                    *)
PartsFollow ==
    /\ IsRect   => Rect!PartsFollow
    /\ IsSize   => Size!PartsFollow
    /\ IsLocale => Locale!PartsFollow
    /\ IsFont   => Font!PartsFollow
    /\ IsFlag   => Flag!PartsFollow
    /\ IsPoint  => Point!Property!PartsFollow
    /\ IsPolicy => Policy!Property!PartsFollow
    /\ IsColor  => Color!Property!PartsFollow

(* The value stays in the constraint, the range, the names or the tables   *)
(* that are given for it, whichever of the two changes.                    *)
ValueFits ==
    /\ IsRect   => Rect!Inside
    /\ IsSize   => Size!Inside
    /\ IsLocale => Locale!Inside
    /\ IsFont   => Font!Inside
    /\ IsFlag   => Flag!Inside
    /\ IsPolicy => Policy!Inside
    /\ IsColor  => Color!Inside

(* The value that valueChanged() carried last, of the property and of each *)
(* of its parts, is the present one: a signal that is sent from within the *)
(* handling of another one never leaves a listener with an older value.    *)
ListenersKnow ==
    /\ IsRect   => Rect!ListenersKnow
    /\ IsSize   => Size!ListenersKnow
    /\ IsLocale => Locale!ListenersKnow
    /\ IsFont   => Font!ListenersKnow
    /\ IsFlag   => Flag!ListenersKnow
    /\ IsPoint  => Point!Property!ListenersKnow
    /\ IsPolicy => Policy!Property!ListenersKnow
    /\ IsColor  => Color!Property!ListenersKnow

(* setValue() with a value that fits sets that value, although the parts   *)
(* answer each change with a setValue() of their own.                      *)
SetValueObeys ==
    /\ IsRect   => Rect!Obeys
    /\ IsSize   => Size!Obeys
    /\ IsLocale => Locale!Obeys
    /\ IsFont   => Font!Obeys
    /\ IsFlag   => Flag!Obeys
    /\ IsPoint  => Point!Property!Obeys
    /\ IsPolicy => Policy!Property!Obeys
    /\ IsColor  => Color!Property!Obeys

(* A change of the font database leaves a font alone whose family was      *)
(* known and still is installed, although its part is set to the first     *)
(* family in between.                                                      *)
DatabaseKeepsFamily == [][IsFont => Font!KeepsFamily]_vars
=============================================================================

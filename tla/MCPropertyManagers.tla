------------------------ MODULE MCPropertyManagers --------------------------
(* PropertyManagers with a few rectangles, sizes, languages and families.  *)
EXTENDS PropertyManagers

SomeRects     == [x : 0..3, w : 0..2, y : 0..1, h : 0..1]
SomeSizes     == [w : 0..2, h : 0..1]
SomeNumbers   == 0 .. 3
SomeLanguages == <<"Afar", "C", "German", "Ladin", "Romansh">>
SomeCountries == [Afar |-> <<"Djibouti", "Ethiopia">>, C |-> <<"Any">>,
                  German |-> <<"Austria", "Germany", "Switzerland">>,
                  Ladin |-> <<"Austria", "Switzerland">>,
                  Romansh |-> <<"Austria", "Switzerland">>]
UsualCountry  == [Afar |-> "Ethiopia", C |-> "Any", German |-> "Germany",
                  Ladin |-> "Austria", Romansh |-> "Switzerland"]
SomeDatabases == {<<"a", "b">>, <<"b", "c">>, <<"c">>, <<"a", "b", "c">>}
SomeFlagLists == {<<>>, <<"a">>, <<"a", "b">>, <<"b", "a", "c">>}
SomePoints    == [x : 0..2, y : 0..2]
SomePolicyNames == <<"Fixed", "Maximum", "Ignored">>
SomePolicies  == [hPolicy : {"Fixed", "Ignored"}, vPolicy : {"Fixed", "Maximum"},
                  hStretch : {0, 255}, vStretch : {0, 1}]
SomeColors    == [spec : {"Rgb"}, red : {0, 255}, green : {0, 1}, blue : {0, 255}, alpha : {0, 255}]
=============================================================================

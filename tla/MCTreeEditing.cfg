SPECIFICATION Spec
CONSTANTS
    Property = {"p", "q"}
    Item = {"above", "below", "beside"}
    Editor = {1, 2}
    None = "0"
    Parent <- MCParent
    PropertyOf <- MCPropertyOf
    Values = {0, 1}
    Overlapping = FALSE
INVARIANTS
    FlagsFollow
    OpenEditorsValid
    EditorsAgree
    CurrentAgrees

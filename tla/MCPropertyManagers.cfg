\* Parts are destroyed where the managers are prepared for it.
SPECIFICATION Spec
CONSTANTS
  Rects <- SomeRects
  Numbers <- SomeNumbers
  RectDestroyable = {"x", "y"}
  Sizes <- SomeSizes
  Lengths <- SomeNumbers
  Languages <- SomeLanguages
  Countries <- SomeCountries
  Usual <- UsualCountry
  C = "C"
  LocaleDestroyable = {"country"}
  Families = {"a", "b", "c", "d"}
  PointSizes = {1, 2}
  Databases <- SomeDatabases
  FontDestroyable = {"size", "bold"}
  FlagLists <- SomeFlagLists
  Points <- SomePoints
  PolicyNames <- SomePolicyNames
  SizePolicies <- SomePolicies
  Colors <- SomeColors
  Components = {0, 1, 255, 256}
INVARIANTS PartsFollow ValueFits ListenersKnow SetValueObeys
PROPERTY DatabaseKeepsFamily

\* Four items.
SPECIFICATION Spec
CONSTANTS
  Item = {a, b, c, d}
  Root = Root
  First = First
  HeadersDie = FALSE
  ReusesExpanded = FALSE
SYMMETRY Interchangeable
INVARIANTS RowsInOrder WidgetsPlaced

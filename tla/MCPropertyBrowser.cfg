\* Four properties; callers insert first or after a top-level property.
SPECIFICATION Spec
CONSTANTS
  Property = {a, b, c, d}
  Browser = Browser
  None = None
  ForeignAfter = FALSE
SYMMETRY Interchangeable
INVARIANTS NoCycles ItemsMirrorProperties RegistersWhatItShows

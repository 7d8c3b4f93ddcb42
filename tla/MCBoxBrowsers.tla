--------------------------- MODULE MCBoxBrowsers ----------------------------
(* BoxBrowsers with interchangeable items.                                 *)
EXTENDS BoxBrowsers, TLC

Interchangeable == Permutations(Item)
=============================================================================

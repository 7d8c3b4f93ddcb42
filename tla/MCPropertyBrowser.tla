-------------------------- MODULE MCPropertyBrowser -------------------------
(* PropertyBrowser with interchangeable properties.                        *)
EXTENDS PropertyBrowser, TLC

Interchangeable == Permutations(Property)
=============================================================================

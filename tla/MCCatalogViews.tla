--------------------------- MODULE MCCatalogViews ---------------------------
(* CatalogViews on small sets of sources and slots, which are              *)
(* interchangeable.                                                        *)
EXTENDS CatalogViews, TLC

Symmetry == Permutations(Slots)
=============================================================================

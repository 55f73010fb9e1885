-------------------------- MODULE MCCatalogReaders --------------------------
(* Two performances that may be in either of two areas, and pages of one.  *)
EXTENDS CatalogReaders, TLC

CONSTANTS p1, p2, east, west

Symmetry == Permutations(Perfs) \cup Permutations(Venues)
=============================================================================

--------------------------- MODULE MCCatalogSystem ---------------------------
(* Instances of CatalogSystem for TLC: refreshers are interchangeable, and *)
(* so are snapshot ids.                                                    *)
EXTENDS CatalogSystem, TLC

Symmetric == Permutations(Refreshers) \cup Permutations(Snapshots)
=============================================================================

------------------------------ MODULE MCArchives ------------------------------
(* Instances of CatalogArchives for TLC: refreshers, snapshot ids and data  *)
(* sets are interchangeable.                                                *)
EXTENDS CatalogArchives, TLC

Symmetric == Permutations(Refreshers) \cup Permutations(Snapshots) \cup Permutations(Datasets)
===============================================================================

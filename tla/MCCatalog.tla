------------------------------ MODULE MCCatalog ------------------------------
(* Instance of Catalog. *)
EXTENDS Catalog, TLC

Symmetry == Permutations(Workers)
==============================================================================

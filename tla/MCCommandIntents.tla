-------------------------- MODULE MCCommandIntents --------------------------
(* Small instances of CommandIntents. *)
EXTENDS CommandIntents, TLC

Symmetry == Permutations(Keys) \cup Permutations(Requests) \cup Permutations(Hooks)
=============================================================================

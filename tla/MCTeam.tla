------------------------------- MODULE MCTeam -------------------------------
(* Small instances of Team. *)
EXTENDS Team, TLC

Symmetry == Permutations(Owners) \cup Permutations(Users \ Owners)
              \cup Permutations(Invitations) \cup Permutations(Workers)
=============================================================================

---------------------------- MODULE MCDeliveries ----------------------------
(* Small instances of Deliveries. *)
EXTENDS Deliveries, TLC

Symmetry == Permutations(Workers) \cup Permutations(Jobs) \cup Permutations(DeliveryIds)
=============================================================================

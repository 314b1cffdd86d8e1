----------------------------- MODULE MCBilling -----------------------------
(* Small instances of Billing. *)
EXTENDS Billing, TLC

Symmetry == Permutations(Checkouts) \cup Permutations(Handlers)
              \cup Permutations(Customers) \cup Permutations(Subscriptions)
=============================================================================

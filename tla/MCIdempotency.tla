--------------------------- MODULE MCIdempotency ---------------------------
(* executeIdempotent with two kinds of callers: any that stop sending a key in   *)
(* time (Idempotency), and the form of the web client (CommandIntents), which    *)
(* submits one command here and retries it.                                     *)
EXTENDS CommandIntents, FiniteSets, TLC

VARIABLE caller

MCInit == IntentInit /\ caller \in {"any", "form"}
OneCommand == Cardinality({k \in Keys : firstSent'[k] # NotSent}) <= 1
MCNext ==
  /\ UNCHANGED caller
  /\ \/ caller = "any" /\ Next /\ UNCHANGED browser
     \/ caller = "form" /\ IntentNext /\ OneCommand
MCSpec == MCInit /\ [][MCNext]_<<intentVars, caller>>

Symmetry == Permutations(Keys) \cup Permutations(Payloads) \cup Permutations(Requests)
=============================================================================

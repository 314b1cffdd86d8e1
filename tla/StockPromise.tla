------------------------------ MODULE StockPromise ------------------------------
(***************************************************************************)
(* What the stock and order commands promise, with no transactions and no   *)
(* locks: each command happens at once, on all of its lines or not at all.  *)
(* StockOrders implements this module (StockOrders!PromiseKept): whatever   *)
(* its transactions interleave, the committed rows go through these steps.  *)
(***************************************************************************)
EXTENDS Integers

CONSTANTS Products, Orders, Receipts, Quantities, MaxOnHand, OpeningStock

VARIABLES
  onHand,    \* on-hand quantity of each product
  reserved,  \* quantity promised to confirmed orders
  status,    \* status of each order
  lines,     \* its quantity of each product
  receipts   \* receipt numbers applied so far

vars == <<onHand, reserved, status, lines, receipts>>

LineSets == [Products -> Quantities \cup {0}]

Init ==
  /\ onHand = OpeningStock
  /\ reserved = [p \in Products |-> 0]
  /\ status = [o \in Orders |-> "NONE"]
  /\ lines = [o \in Orders |-> [p \in Products |-> 0]]
  /\ receipts = {}

Plus(f, g)  == [p \in Products |-> f[p] + g[p]]
Minus(f, g) == [p \in Products |-> f[p] - g[p]]

\* A draft is created with its lines, or its lines are replaced.
Draft(o, ls) ==
  /\ status[o] \in {"NONE", "DRAFT"}
  /\ status' = [status EXCEPT ![o] = "DRAFT"]
  /\ lines' = [lines EXCEPT ![o] = ls]
  /\ UNCHANGED <<onHand, reserved, receipts>>

Move(o, to) ==
  /\ status' = [status EXCEPT ![o] = to]
  /\ UNCHANGED <<lines, receipts>>

\* All lines are available and all are reserved.
Confirm(o) ==
  /\ status[o] = "DRAFT"
  /\ \A p \in Products : lines[o][p] > 0 => lines[o][p] <= onHand[p] - reserved[p]
  /\ reserved' = Plus(reserved, lines[o])
  /\ onHand' = onHand
  /\ Move(o, "CONFIRMED")

\* All reserved lines leave the stock.
Fulfill(o) ==
  /\ status[o] = "CONFIRMED"
  /\ onHand' = Minus(onHand, lines[o])
  /\ reserved' = Minus(reserved, lines[o])
  /\ Move(o, "FULFILLED")

\* What the order had reserved, if it was confirmed, is available again.
Cancel(o) ==
  /\ status[o] \in {"DRAFT", "CONFIRMED"}
  /\ reserved' = IF status[o] = "CONFIRMED" THEN Minus(reserved, lines[o]) ELSE reserved
  /\ onHand' = onHand
  /\ Move(o, "CANCELLED")

\* A receipt number is applied once.
Receive(r, ls) ==
  /\ r \notin receipts
  /\ onHand' = Plus(onHand, ls)
  /\ \A p \in Products : onHand'[p] <= MaxOnHand
  /\ receipts' = receipts \cup {r}
  /\ UNCHANGED <<reserved, status, lines>>

\* Stock that is reserved cannot be adjusted away.
Adjust(p, delta) ==
  /\ reserved[p] <= onHand[p] + delta /\ onHand[p] + delta <= MaxOnHand
  /\ onHand' = [onHand EXCEPT ![p] = @ + delta]
  /\ UNCHANGED <<reserved, status, lines, receipts>>

Next ==
  \/ \E o \in Orders, ls \in LineSets : Draft(o, ls)
  \/ \E o \in Orders : Confirm(o) \/ Fulfill(o) \/ Cancel(o)
  \/ \E r \in Receipts, ls \in LineSets : Receive(r, ls)
  \/ \E p \in Products, q \in Quantities : Adjust(p, q) \/ Adjust(p, -q)

Spec == Init /\ [][Next]_vars
=============================================================================

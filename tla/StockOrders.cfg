SPECIFICATION Spec
CONSTANTS
  Products = {1, 2}
  Orders = {o1, o2}
  Receipts = {r1}
  Workers = {w1, w2}
  None = None
  Quantities = {1}
  ReorderPoints = {}
  MaxOnHand = 1
  MaxLedger = 2
  Stocked <- HalfStocked
  OpeningStock <- HalfStock
  OpeningReorder <- HalfReorder
SYMMETRY Symmetry
INVARIANTS TypeOK NeverOversold ReservedIsConfirmed SoldOnce WaitsUphill LedgerReplays AlertsMatch
PROPERTIES PromiseKept

SPECIFICATION FairSpec
CONSTANTS
  Products = {1, 2}
  Orders = {o1}
  Receipts = {}
  Workers = {w1, w2}
  None = None
  Quantities = {1}
  ReorderPoints = {0}
  MaxOnHand = 3
  MaxLedger = 0
  Stocked <- AllStocked
  OpeningStock <- AllStock
  OpeningReorder <- AllReorder
PROPERTIES AlertsCatchUp EveryCommandEnds

SPECIFICATION Spec
CONSTANTS
  Workers = {w1, w2, w3}
  TableNames = {"records", "runs", "audit", "movements", "balances", "products"}
  FixtureSku = "A"
  PreviewSku = "B"
  CsvSkus = {"B", "C"}
  Free = Free
  MaxRequests = 3
SYMMETRY Symmetry
INVARIANTS WholeOrNotAtAll LedgerStands ImageStored
CHECK_DEADLOCK FALSE

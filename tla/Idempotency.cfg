SPECIFICATION MCSpec
CONSTANTS
  Keys = {k1, k2}
  Payloads = {p1, p2}
  Requests = {r1, r2}
  Hooks = {h1}
  None = None
  Retention = 3
  RetryWindow = 2
  MaxDelay = 1
  MaxTime = 6
  Recovery = 1
  Tolerance = 0
  Skew = 1
SYMMETRY Symmetry
INVARIANTS AtMostOnce OwnAnswer KeptUntilKnown ReportsAreTrue
PROPERTIES ServerUse
CHECK_DEADLOCK FALSE

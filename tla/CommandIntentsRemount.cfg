SPECIFICATION IntentSpec
CONSTANTS
  Keys = {k1}
  Payloads = {p1}
  Requests = {r1, r2}
  Hooks = {h1, h2}
  None = None
  Retention = 3
  RetryWindow = 2
  MaxDelay = 1
  MaxTime = 5
  Recovery = 1
  Tolerance = 0
  Skew = 1
SYMMETRY Symmetry
INVARIANTS KeptUntilKnown
CHECK_DEADLOCK FALSE

SPECIFICATION Spec
CONSTANTS
  V6Bits = 5
  V4Bits = 4
  MappedOffset = 16
  TrustedProxies <- ProxyRanges
  Proxy <- ReverseProxy
  Clients <- OneClient
  Forged <- Headers
  Users = {alice, bob}
  DemoUsers = {alice}
  Workers = {w1, w2}
  None = None
  MaxWrites = 2
  RateWindow = 2
  MaxBuckets = 2
  SweepInterval = 2
  FailureLimit = 1
  FailureWindow = 3
  FailureBlock = 3
  MaxKeys = 1
  MaxActive = 1
  SessionTtl = 2
  Horizon = 4
  MaxRequests = 4
SYMMETRY Symmetry
INVARIANTS GuessesBounded BurstBounded SessionsBounded
CHECK_DEADLOCK FALSE

SPECIFICATION FairSpec
CONSTANTS
  DeliveryIds = {d1}
  Workers = {w1, w2}
  Jobs = {j1, j2}
  None = None
  MaxAttempts = 2
  RetryLimit = 1
  MaxManual = 1
  MaxWebhooks = 2
  MaxCrashes = 1
INVARIANTS OneOrder EveryAttemptCounted
PROPERTIES FailedIsRetried
CHECK_DEADLOCK FALSE

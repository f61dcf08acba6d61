SPECIFICATION FairSpec
CONSTANTS
  r1 = r1  r2 = r2  w1 = w1  w2 = w2
  Records = {r1}
  Workers = {w1, w2}
  Tokens = {1, 2, 3}
  MaxAttempts = 2
  Lease = 1
  Limits = {1}
  MaxRevision = 2
  MaxRequeues = 1
  NoToken = NoToken
INVARIANTS
  BudgetRespected
  VectorOfItsRevision
  ClosedNotProcessing
PROPERTIES
  LiveLeaseHonoured
  JobsSettle
CHECK_DEADLOCK FALSE

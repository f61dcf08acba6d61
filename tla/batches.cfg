SPECIFICATION FairSpec
CONSTANTS
  r1 = r1  r2 = r2  w1 = w1  w2 = w2
  Records = {r1, r2}
  Workers = {w1}
  Tokens = {1, 2, 3}
  MaxAttempts = 2
  Lease = 1
  Limits = {1, 2}
  MaxRevision = 1
  MaxRequeues = 1
  NoToken = NoToken
PROPERTIES
  JobsSettle
CHECK_DEADLOCK FALSE

SPECIFICATION FairSpec
CONSTANTS
  Jobs = {j1, j2}
  Workers = {w1, w2}
  MaxAttempts = 2
  UseRedis = TRUE
  Calls = {}
  MaxEdits = 0
  Failures = {}
  MaxFailures = 0
  None = None
  j1 = j1
  j2 = j2
  w1 = w1
  w2 = w2
PROPERTIES
  JobsSettle
CHECK_DEADLOCK FALSE

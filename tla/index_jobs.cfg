SPECIFICATION Spec
CONSTANTS
  Jobs = {j1, j2}
  Workers = {w1, w2}
  MaxAttempts = 2
  UseRedis = TRUE
  Calls = {c1}
  MaxEdits = 1
  Failures = {"crash", "redis", "slow"}
  MaxFailures = 1
  None = None
  j1 = j1
  j2 = j2
  w1 = w1
  w2 = w2
  c1 = c1
SYMMETRY MCSymmetry
CONSTRAINT MCBound
INVARIANTS
  ActiveIsWhole
  IndexingMeansBuilding
  CancelWins
  SucceededByLastClaim
PROPERTIES
  IndexMovesForward
CHECK_DEADLOCK FALSE

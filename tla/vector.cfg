SPECIFICATION FairSpec
CONSTANTS
  a = a
  b = b
  c = c
  w1 = w1
  w2 = w2
  Chunks <- MCChunks
  ChunksOf <- MCChunksOf
  LastRevision = 3
  Workers = {w1, w2}
  MaxAttempts = 2
  Deployments <- MCDeployments
  None = None
INVARIANTS
  LabelsAreTrue
  DeliveredIsSearchable
PROPERTIES
  DeliveryIsFinal
  EventsSettle
CHECK_DEADLOCK FALSE

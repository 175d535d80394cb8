SPECIFICATION PoolSpec
CONSTANTS
  edit = edit
  test = test
  security_review = security_review
  verify = verify
  Api = Api
  None = None
  Error = Error
  Tasks <- MCTasksChain
  DependsOn <- MCDependsOn
  Order <- MCOrder
  Workers = {w1}
  ApiOps = {"cancel"}
  MaxApiCalls = 1
  MaxCrashes = 0
  MaxAttempts = 2
  Concurrency = 1
  w1 = w1
PROPERTIES
  CancelIsFinal

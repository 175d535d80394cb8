SPECIFICATION MCSpec
CONSTANTS
  Parts = {"tasks", "jobs", "pretrain"}
  edit = edit
  test = test
  security_review = security_review
  verify = verify
  Api = Api
  None = None
  Error = Error
  Tasks <- MCTasksDiamond
  DependsOn <- MCDependsOn
  Order <- MCOrder
  Workers = {w1}
  ApiOps = {}
  MaxApiCalls = 0
  MaxCrashes = 1
  MaxAttempts = 2
  Concurrency = 2
  w1 = w1
  h1 = h1
  Handlers = {h1}
  Jobs <- MCJobs
  Plans <- MCPlans
  MaxTrainerDeaths = 2
INVARIANTS
  ResumeIsExact
PROPERTIES
  KeepsLifecycle
  RunSettles
  JobEnds
CHECK_DEADLOCK FALSE

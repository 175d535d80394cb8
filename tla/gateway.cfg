SPECIFICATION MCSpec
CONSTANTS
  Parts = {"tasks", "review", "calibration", "pipeline", "crawl", "serving", "campaign", "experiment"}
  edit = edit
  test = test
  security_review = security_review
  verify = verify
  Api = Api
  None = None
  Error = Error
  Tasks <- MCTasksChain
  DependsOn <- MCDependsOn
  Order <- MCOrder
  Workers = {w1}
  ApiOps = {"advance", "complete", "fail", "cancel"}
  MaxApiCalls = 2
  MaxCrashes = 1
  MaxAttempts = 2
  Concurrency = 2
  w1 = w1
  i1 = i1
  i2 = i2
  Items = {i1, i2}
  Reviewers = {"reviewer", "other"}
  Adjudicators = {"reviewer", "adjudicator"}
  Stores = {"sqlite", "postgres"}
  MaxGovernance = 1
  MaxCalibrations = 2
  MaxFinalizations = 2
  Runs = {"one", "two"}
  MaxKills = 1
  u1 = u1
  u2 = u2
  u3 = u3
  Urls = {u1, u2, u3}
  Seeds = {u1}
  Links <- MCLinks
  Text <- MCText
  Accepted = {"one"}
  Processes = {"cli", "worker", "supervisor"}
  Crawling <- MCCrawling
  Crawlers <- MCCrawlers
  MaxDocs = 2
  MaxDepth = 1
  RetryLimit = 2
  MaxCycleFailures = 2
  Requests = {"first", "second", "third"}
  MaxConcurrent = 2
  MaxQueueDepth = 2
  MaxDepartures = 2
  StageCount = 2
  Segment = 3
  ImprovementFrom = 3
  CheckpointEvery = 2
  Scores = {0, 1}
  MaxStageDeaths = 1
  Arms = {1, 2}
  ArmScores = {1, 3}
  Superior = 2
  EvidenceDirs = {"arm-evidence"}
  Analysts = {"one", "two"}
  MaxAnalystDeaths = 1
INVARIANTS
  RetryBudget
  CompletedGraphIsComplete
  CompletedKeepsOutput
  ReviewsAreBlind
  PassedStaysReplayable
  VersionIsOfOneRun
  FetchesWithinLimit
  GenerationsDoNotOverlap
  StagesAreEarned
  PromotionIsOnAdmittedEvidence
PROPERTIES
  VerdictStands

SPECIFICATION MCSpec
CONSTANTS
  Parts = {"tasks", "patches"}
  edit = edit
  test = test
  security_review = security_review
  verify = verify
  Api = Api
  None = None
  Error = Error
  Tasks <- MCTasksOne
  DependsOn <- MCDependsOn
  Order <- MCOrder
  Workers = {w1, w2}
  ApiOps = {"cancel"}
  MaxApiCalls = 1
  MaxCrashes = 1
  MaxAttempts = 2
  Concurrency = 1
  w1 = w1
  w2 = w2
  f1 = f1
  f2 = f2
  Files = {f1, f2}
  Existing = {f1}
  Proposals <- MCProposals
  Agents = {"agent"}
  Clients = {"client"}
  MaxPatches = 2
  MaxRevisions = 1
  MaxPatchFaults = 2
INVARIANTS
  LeaseHeldIffRunning
  CancelledNeverRuns
  OutputMatchesBoard
  TestedIsApplied
  FilesMatchPatches
SYMMETRY MCSymmetry

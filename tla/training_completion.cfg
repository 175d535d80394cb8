SPECIFICATION MCSpec
CONSTANTS
  Parts = {"jobs"}
  h1 = h1
  h2 = h2
  Handlers = {h1, h2}
  Jobs <- MCJobs
  r1 = r1
  r2 = r2
  Ranks = {r1, r2}
  MaxEmitted <- MCMaxEmitted
  DurableSets <- MCDurableSets
  QueueCapacity = 1
  BatchSize = 2
  Requests = {h1, h2}
  ChunkEvents = 1
  Faults = {"timeout", "redis", "gateway", "worker", "archiver"}
  MaxFaults = 1
  NoSlot = NoSlot
  Servers = {h1, h2}
  u1 = u1
  Uris = {u1}
  c1 = c1
  c2 = c2
  Contents = {c1, c2}
  Steps = {1, 2}
  MinimumStep = 2
  e1 = e1
  Evaluations = {e1}
  Unset = Unset
  Gateways = {h1, h2}
  k1 = k1
  k2 = k2
  k3 = k3
  k4 = k4
  Keys = {k1, k2, k3, k4}
  Milestone <- MCMilestone
  Quota = 1
  MaxRevived = 1
  NoKey = NoKey
INVARIANTS
  CompletionIsRecorded
CHECK_DEADLOCK FALSE

SPECIFICATION DispatchingSpec
CHECK_DEADLOCK FALSE
CONSTANTS
  Owners = {o1, o2}
  NoPid = NoPid
  MemoryLevels = {24, 26}
  SoftFloor = 25
  Headroom = 1
  Estimate <- MCEstimate
  WorkerLimit = 0
  Cores = 4
  MaxSubagentDepth = 2
  Ttls = {1}
  Grace = 1
  WaitTimeout = 1
  Uses <- TwoKinds
  MaxId = 4
  Tasks = {1, 2}
  MaxAttempts = 1
  Lease = 2
  DependsOn <- NoDependencies
  Provable = {1, 2}
  OwnerMoves <- Enqueue
  Overlap = {}
  Limit = 2
  MaxCrashes = 0
  Prompt = TRUE
  Neighbours = TRUE
  LsProcs = {p1, p2}
  LsMaxCount = 2
  LsMaxCrashes = 0
  LsNone = None
  LsDead = Dead
INVARIANTS
  OneLanding LostClaimNeverLands
PROPERTIES
  NoRequeueAfterLanding BatchEnds LiveLeaseSurvives WaiterResolved LsCallEnds

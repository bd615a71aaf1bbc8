SPECIFICATION MachineSpec
SYMMETRY MachineSymmetry
CHECK_DEADLOCK FALSE
CONSTANTS
  Owners = {x1, x2, x3}
  NoPid = NoPid
  MemoryLevels = {24, 27}
  SoftFloor = 25
  Headroom = 1
  Estimate <- MCEstimate
  WorkerLimit = 0
  Cores = 4
  MaxSubagentDepth = 2
  Ttls = {1}
  Grace = 0
  WaitTimeout = 0
  Uses <- WorkerOnly
  MaxId = 4
  Tasks = {1, 2}
  MaxAttempts = 1
  Lease = 2
  DependsOn <- NoDependencies
  Provable = {1, 2}
  OwnerMoves <- Enqueue
  Overlap <- OneTwo
  Limit = 2
  MaxCrashes = 1
  Prompt = FALSE
  Neighbours = FALSE
  GwExecs = {x1, x2}
  GwLeases = {l1}
  GwDecisions = {d1}
  GwSessions = {1}
  GwExpiry = 1
  GwMaxTime = 2
  GwActivated = {TRUE, FALSE}
  GwExpects = {"succeeded", "cancelled"}
  GwNone = None
  LimaProcs = {x1, x2}
  LimaRuns = {r1, r2}
  LimaFiles = {f1}
  LimaMaxEdits = 1
  LimaMaxCrashes = 1
  LimaPastTheft = FALSE
  LimaNone = None
  CsLabels = {"edit", "execute", "delete"}
  CsTexts = {"plain", "push", "destructive"}
  CsModels = {m1, m2}
  CsAsks = 2
  CsNone = None
  TpProcs = {x1, x2}
  TpNeeded = 3
  TpMaxRuns = 3
  TpMaxWrites = 4
  TpNone = None
INVARIANTS
  DispatchSafe CsSafe TpSafe
PROPERTIES
  AdmissionInOrder ClaimsSpec GwSafe LimaSafe

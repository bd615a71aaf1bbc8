SPECIFICATION RecoverySpec
CHECK_DEADLOCK FALSE
CONSTANTS
  Daemons = {d1}
  Foregrounds = {}
  Graders = {g1}
  Sources = {s1, s2}
  None = None
  Dead = Dead
  MAX_INDEPENDENT_REVIEW_ATTEMPTS = 1
  OwnerWaits = TRUE
  MaxClaims = 1
  MaxDispatches = 1
  MaxEpoch = 1
  MaxCrashes = 1
  GwExecs = {e1}
  GwLeases = {l1}
  GwDecisions = {}
  GwSessions = {1}
  GwExpiry = 1
  GwMaxTime = 2
  GwActivated = {TRUE, FALSE}
  GwExpects = {"succeeded"}
  GwNone = None
  LockProcs = {p1, p2}
  MaxOps = 2
  StaleAge = 1
  Deadline = 2
  CrashFree = FALSE
  LockPrompt = TRUE
INVARIANTS
  NoLostUpdate
PROPERTIES
  CommittedIsShown GwStopDrains

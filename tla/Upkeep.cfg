SPECIFICATION UpkeepSpec
SYMMETRY UpkeepSymmetry
CHECK_DEADLOCK FALSE
CONSTANTS
  InShas = {a, b}
  InFirst = a
  InProcs = {x1, x2}
  InKinds = {"install", "rollback"}
  InMaxHistory = 2
  InMaxLessons = 1
  InMaxCrashes = 1
  InNone = None
  InDead = Dead
  McShas = {a, b, c}
  McFirst = a
  McCleaners = {x1, x2}
  McRuns = 2
  McKeepNewest = 1
  McMaxHistory = 3
  McTogether = FALSE
  McNone = None
  PnMaxInstalls = 2
  PnNone = None
  PnForeign = Foreign
  SfLeases = {1, 2}
  SfCases = {"claude", "create", "resume", "cancel", "failure", "recovery"}
  SfEdits = 1
  SfNone = "none"
  RpUpdates = {u1}
  RpDone = {u1}
  RpProcs = {x1, x2, x3}
  RpForeign = {x3}
  RpLease = 1
  RpMaxTime = 1
  RpMaxEdits = 1
  RpMaxAttempts = 2
  RpNone = None
  SlTasks = {a, b}
  SlOverlapping = {b}
  SlGoals = {1, 2, 3}
  SlProcs = {x1, x2}
  SlTrial = 1
  SlMaxCandidates = 2
  SlMaxUses = 1
  SlNone = None
  KnSessions = {x1, x2}
  KnGoals = {a, b}
  KnRoutes = {"native", "legacy", "bad"}
  KnSlots = 1
  KnTurns = 1
  KnEdits = 1
  KnBoots = 2
  KnNone = None
INVARIANTS
    PnSafe SfSafe RpSafe SlSafe 

SPECIFICATION GoalsSpec
SYMMETRY GoalsSymmetry
CHECK_DEADLOCK FALSE
CONSTANTS
  Daemons = {d1}
  Foregrounds = {}
  Graders = {g1}
  Sources = {s1, s2}
  None = None
  Dead = Dead
  MAX_INDEPENDENT_REVIEW_ATTEMPTS = 2
  OwnerWaits = TRUE
  MaxClaims = 2
  MaxDispatches = 1
  MaxEpoch = 0
  MaxCrashes = 1
  Tasks = {1, 2}
  MaxAttempts = 2
  Lease = 2
  DependsOn <- Chain
  Provable = {1}
  OwnerMoves <- Status
  GoGoals = {g1}
  GoRepos = {"app", "app-wt"}
  GoIdentity <- OneIdentity
  GoBase <- BaseNames
  GoSessions = {x1, x2}
  GoStale = 1
  GoNone = None
  CyTexts = {1, 2}
  CyPids = {x1, x2}
  CyGiveUp = 2
  CyHopLimit = 2
  CyNone = None
  WfProcs = {x1, x2}
  WfMaxCrashes = 1
  WfNone = None
  WfDead = Dead
  LqSteps = {l1, l2}
  LqProcs = {x1, x2}
  LqMaxAttempts = 2
  LqMaxCrashes = 1
  LqNone = None
  LqLost = Lost
  LsProcs = {x1, x2}
  LsMaxCount = 2
  LsMaxCrashes = 1
  LsNone = None
  LsDead = Dead
  CpProcs = {x1, x2}
  CpMaxRevision = 2
  CpMaxUses = 2
  CpMaxCrashes = 1
  PvNamed = {n1}
  PvDefault = def
  PvDispatchers = {x1, x2}
  PvNone = None
  RtAccounts = {"claude", "codex", "codex#2"}
  RtProvider <- AccountProvider
  RtModelClass <- AccountClass
  RtName <- AccountName
  RtDefault <- DefaultAccount
  RtNone = "none"
  AcEntries = 3
  SkBundles = {b1, b2, b3}
  SkProcs = {p1}
  SkRetained = 1
  SkMaxFaults = 2
  SkMaxCrashes = 1
  SkNone = None
INVARIANTS
  CompletionIsGraded LivePidWorks ClaimDecidedOnce ClaimOwnsTask DependenciesFirst
  LqSafe CpSafe  RtSafe
PROPERTIES
  FencedStatus GoSafe CySafe    SkSafe

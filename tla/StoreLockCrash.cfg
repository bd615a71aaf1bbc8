CONSTANTS
  LockProcs = {p1, p2, p3}
  MaxOps = 1
  StaleAge = 1
  Deadline = 1
  CrashFree = FALSE
  LockPrompt = TRUE
SPECIFICATION LockSpec
SYMMETRY ProcsSymmetry
CHECK_DEADLOCK FALSE
INVARIANTS
  NoLostUpdate

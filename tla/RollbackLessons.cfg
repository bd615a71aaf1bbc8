SPECIFICATION InSpec
CHECK_DEADLOCK FALSE
CONSTANTS
  InShas = {a, b}
  InFirst = a
  InProcs = {p1}
  InKinds = {"install", "rollback"}
  InMaxHistory = 3
  InMaxLessons = 1
  InMaxCrashes = 0
  InNone = None
  InDead = Dead
INVARIANT InLessonsKept

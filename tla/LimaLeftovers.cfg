SPECIFICATION LimaSpec
CHECK_DEADLOCK FALSE
CONSTANTS
  LimaProcs = {p1, p2}
  LimaRuns = {r1, r2}
  LimaFiles = {f1}
  LimaMaxEdits = 0
  LimaMaxCrashes = 0
  LimaPastTheft = FALSE
  LimaNone = None
INVARIANT LimaLeftoversReadable

SPECIFICATION McSpec
CHECK_DEADLOCK FALSE
CONSTANTS
  McShas = {a, b, c}
  McFirst = a
  McCleaners = {c1, c2}
  McRuns = 1
  McKeepNewest = 1
  McMaxHistory = 3
  McTogether = FALSE
  McNone = None
INVARIANT McColdIsKept

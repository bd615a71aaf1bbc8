SPECIFICATION GoSpec
CHECK_DEADLOCK FALSE
CONSTANTS
  GoGoals = {g1}
  GoRepos = {"app", "app-wt"}
  GoIdentity <- OneIdentity
  GoBase <- BaseNames
  GoSessions = {u1, u2}
  GoStale = 1
  GoNone = None
PROPERTY GoLeaseRespected

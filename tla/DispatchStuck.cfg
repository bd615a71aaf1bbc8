SPECIFICATION FairSpec
CONSTANTS
  Tasks = {1}
  MaxAttempts = 1
  Lease = 2
  DependsOn <- NoDependencies
  Provable = {1}
  OwnerMoves <- Enqueue
  Overlap = {}
  Limit = 2
  MaxCrashes = 1
  Prompt = TRUE
  Neighbours = FALSE
PROPERTY LapsedClaimRecovered

SPECIFICATION Spec
CONSTANTS
  Daemons = {d1}
  Foregrounds = {}
  Graders = {}
  Sources = {s1, s2}
  None = None
  Dead = Dead
  MAX_INDEPENDENT_REVIEW_ATTEMPTS = 2
  OwnerWaits = FALSE
  MaxClaims = 1
  MaxDispatches = 2
  MaxEpoch = 1
  MaxCrashes = 1
INVARIANTS ReviewedObjective

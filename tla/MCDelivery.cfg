SPECIFICATION Spec
CONSTANTS
  Commits = {"u1"}
  MaxApplies = 2
  MaxStagings = 2
  MaxCleanups = 1
  Environment = {"commit", "edit", "policy", "move", "crash"}
CHECK_DEADLOCK FALSE
INVARIANTS
  DeliversVerified
  SucceededWasDelivered
  PolicyConfirmed
  InFlightKeepsTree
PROPERTIES
  TargetMovesExplicitly

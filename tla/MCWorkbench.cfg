SPECIFICATION MCSpec
CONSTANTS
  Existing = {"w1"}
  Created = {"w2"}
  Offered = {"StartRunner", "ReviewExecution", "Cancel"}
  AckRetries = 1
  MaxKeys = 3
  MaxFacts = 2
INVARIANTS
  ApprovedWasPreviewed
  RunnerIsTracked
PROPERTIES
  ExitWaitsForPause
  KeysUnlock
  PauseExitSettles
CHECK_DEADLOCK FALSE

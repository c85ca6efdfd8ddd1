SPECIFICATION Spec
CONSTANTS
  Nodes <- OneObserved
  Kind <- MCKind
  Deps <- MCDeps
  TaskOf <- MCTaskOf
  RetryBudget <- TwoRetries
  Rank <- MCRank
  Conflicts <- NoConflicts
  MaxConcurrency = 1
  MaxRuns = 3
  Faults = {"interrupt", "chain_error", "crash", "orphan"}
  Adopted = {TRUE, FALSE}
CHECK_DEADLOCK FALSE
INVARIANTS
  TypeOK
  OneActiveRun
  RunningAttemptIsNewest
  CancelledIsQuiet
  ClosedAtRest
  RetriesWithinBudget
  SucceededDeliversAll

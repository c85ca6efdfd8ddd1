SPECIFICATION Spec
CONSTANTS
  Nodes <- TwoNodes
  Kind <- MCKind
  Deps <- MCDeps
  TaskOf <- MCTaskOf
  RetryBudget <- NoRetry
  Rank <- MCRank
  Conflicts <- NoConflicts
  MaxConcurrency = 2
  MaxRuns = 2
  Faults = {"interrupt", "crash"}
  Adopted = {TRUE, FALSE}
CHECK_DEADLOCK FALSE
INVARIANTS
  HeadIsVerified
  MergesAreSerial
PROPERTIES
  CancelAllocatesNothing

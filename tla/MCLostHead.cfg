SPECIFICATION Spec
CONSTANTS
  Nodes <- TwoNodes
  Kind <- MCKind
  Deps <- MCDeps
  TaskOf <- MCTaskOf
  RetryBudget <- OneRetry
  Rank <- MCRank
  Conflicts <- NoConflicts
  MaxConcurrency = 2
  MaxRuns = 1
  Faults = {}
  Adopted = {TRUE}
CHECK_DEADLOCK FALSE
INVARIANTS
  MergedIsInHead

SPECIFICATION LoopSpec
CONSTANTS
  Nodes <- GraphNodes
  Kind <- MCKind
  Deps <- MCDeps
  TaskOf <- MCTaskOf
  RetryBudget <- MCRetry
  Rank <- MCRank
  Conflicts <- MCConflicts
  MaxConcurrency = 2
CHECK_DEADLOCK FALSE
INVARIANTS
  LoopsComputeBatch

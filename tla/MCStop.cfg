SPECIFICATION FairSpec
CONSTANTS
  Nodes <- TwoObserved
  Kind <- MCKind
  Deps <- MCDeps
  TaskOf <- MCTaskOf
  RetryBudget <- RetryA
  Rank <- MCRank
  Conflicts <- NoConflicts
  MaxConcurrency = 2
  MaxRuns = 1
  Faults = {"interrupt"}
  Adopted = {TRUE}
CHECK_DEADLOCK FALSE
INVARIANTS
  FindingOutranksStop
PROPERTIES
  StopsConverge

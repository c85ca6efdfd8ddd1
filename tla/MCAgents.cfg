SPECIFICATION Spec
CONSTANTS
  ProviderIds = {"p1"}
  MaxFrames <- MCMaxFrames
  PipeCap = 1
  Budget = 2
  EventCap = 1
  Bindings = 2
  MaxRuns = 2
INVARIANTS
  JudgedOnWholeOutput
  PassedIsCurrent
  EndedHasEvidence
PROPERTIES
  RunSettles
CHECK_DEADLOCK FALSE

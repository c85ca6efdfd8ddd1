SPECIFICATION AdoptionSpec
CONSTANTS
  MaxRev = 2
  MaxFaults = 2
  MaxHead = 3
  MaxReviews = 3
INVARIANTS
  ApprovedWasChecked
  OnePlanThroughout
  AdoptedPassedGates
CHECK_DEADLOCK FALSE

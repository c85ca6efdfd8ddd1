SPECIFICATION Spec
CONSTANTS
    Kind <- MCKind
    MaxContent = 2
    MaxVersion = 3
    MaxFaults = 3
INVARIANTS
    NothingLost
    AdvancedMeansLanded
    RecoveryAgreesWithExecute
PROPERTIES
    PreparedAdvances
CHECK_DEADLOCK FALSE

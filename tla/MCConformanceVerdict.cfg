SPECIFICATION Spec
CONSTANTS
    absent = absent
    Absent <- absent
    OptionSets <- AllOptions
    Inventories <- AllInventories
    Served <- ServedKinds
    MaxChanges = 1
INVARIANTS TypeOK SuccessIsSound FailureIsObserved UnobservedIsNeverAccepted
    AcceptedSubmission ExitMatchesResult ReportsAreValid
PROPERTIES RunReturns GoroutineEnds
CHECK_DEADLOCK FALSE

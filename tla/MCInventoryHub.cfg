CONSTANTS
    s1 = s1  s2 = s2  none = none
    Chars <- AllChars
    Managers <- AllManagers
    Limit = 2
    LabelLimit = 4
    SuffixLen = 2
    Seeders <- TwoSeeders
    Flags <- SomeFlags
    Agents <- OneAgent
    MaxWrites = 3
    MaxRuns = 2
    None = none
SPECIFICATION Spec
INVARIANTS SuccessMeansSeeded UndisturbedRunSucceeds
PROPERTIES KeepsLedger OnlyV1alpha2LosesCredentials
CHECK_DEADLOCK FALSE

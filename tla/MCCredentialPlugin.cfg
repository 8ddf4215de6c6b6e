CONSTANTS
    none = none
    Starts <- AllStarts
    Namespaces <- AllNamespaces
    Contents <- FewContents
    MaxChanges = 2
    None = none
SPECIFICATION Spec
INVARIANTS ExitZeroIsCredential FailureIsJustified
CHECK_DEADLOCK FALSE

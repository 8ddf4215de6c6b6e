CONSTANTS
    none = none
    Starts <- AllStarts
    Namespaces <- AllNamespaces
    Contents <- FewContents
    MaxChanges = 2
    None = none
SPECIFICATION Spec
INVARIANT DocumentedSecretIsRead
CHECK_DEADLOCK FALSE

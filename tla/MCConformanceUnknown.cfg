SPECIFICATION Spec
CONSTANTS
    absent = absent
    Absent <- absent
    OptionSets <- FewOptions
    Inventories <- FewInventories
    Served <- ServedKinds
    MaxChanges = 1
INVARIANT UnknownMeansAccessError
CHECK_DEADLOCK FALSE

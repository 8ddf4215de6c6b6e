CONSTANTS
    none = none  c1 = c1
    Informers <- AllInformers
    Objects <- TwoObjects
    Consumers = {c1}
    MaxChanges = 1
    MaxBreaks = 1
    None = none
SPECIFICATION Spec
INVARIANTS ReadOnlyObjectsUntouched OnlySelected
PROPERTY CacheConverges
CHECK_DEADLOCK FALSE

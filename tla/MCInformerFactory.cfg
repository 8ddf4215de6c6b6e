CONSTANTS
    t1 = t1  t2 = t2  unknown = unknown  s1 = s1  s2 = s2  u1 = u1  u2 = u2
    none = none
    Types <- AllTypes
    Unknown = unknown
    Stops <- AllStops
    Users <- Both
    Scripts <- AllScripts
    None = none
SPECIFICATION Spec
INVARIANTS TypeOK OneInformerPerType RunsOnce SyncReportIsTrue
PROPERTIES KeepsLifecycle CallsReturn
CHECK_DEADLOCK FALSE

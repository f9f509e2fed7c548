SPECIFICATION Spec
CONSTANTS
    c1 = c1
    c2 = c2
    Tab = {c1, c2}
    Turn = {"t1"}
    MaxTools = 1
    MaxRevision = 5
    Fault <- FailuresAndCrashes
    Gone = Gone
    Nothing = Nothing
SYMMETRY AnyTab
INVARIANTS LogFollowsRecord
PROPERTIES NoSilentOverwrite
CHECK_DEADLOCK FALSE

SPECIFICATION Spec
CONSTANTS
    Procs = {p1, p2}
    Keys = {k1, k2}
    Incidents = {i1}
    MaxDispatch = 3
    MaxFaults = 1
    MaxCancels = 1
    MaxCrashes = 1
INVARIANTS AtMostOnce
PROPERTIES ImplementsLedger
SYMMETRY Symmetry
CHECK_DEADLOCK FALSE

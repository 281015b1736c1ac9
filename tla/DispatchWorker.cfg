SPECIFICATION FairSpec
CONSTANTS
    Procs = {p1}
    Keys = {k1, k2, k3}
    Incidents = {i1}
    MaxDispatch = 3
    MaxFaults = 1
    MaxCancels = 2
    MaxCrashes = 0
INVARIANTS HandledInTurn QueueIsExact
PROPERTIES EverySettled EveryAdmittedIsAttempted
CHECK_DEADLOCK FALSE

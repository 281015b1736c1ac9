SPECIFICATION Spec
CONSTANTS
    Procs = {p1}
    Nobody = Nobody
    MaxIncidents = 1
    MaxNotes = 2
    MaxFaults = 0
    MaxCrashes = 1
INVARIANT CrashIsRecovered
CHECK_DEADLOCK FALSE

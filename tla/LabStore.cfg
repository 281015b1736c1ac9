SPECIFICATION Spec
CONSTANTS
    Procs = {p1, p2}
    Nobody = Nobody
    MaxIncidents = 2
    MaxNotes = 2
    MaxFaults = 2
    MaxCrashes = 3
INVARIANTS NothingLost Reopens WriterIsCurrent
PROPERTIES ImplementsLog
CHECK_DEADLOCK FALSE

SPECIFICATION Spec
CONSTANTS
    Contents = {rel, fix, bug}
    Release = rel
    Sound = {rel, fix}
    Blind = {bug}
    None = None
    Requests = {q1, q2}
    Plans = 1
    MaxIncidents = 3
    MaxMonitors = 4
    MaxFaults = 0
    MaxReports = 0
PROPERTY ResetDrains
CHECK_DEADLOCK FALSE

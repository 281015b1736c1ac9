SPECIFICATION FairSpec
CONSTANTS
    Contents = {rel, fix, bug}
    Release = rel
    Sound = {rel, fix}
    Blind = {bug}
    None = None
    Requests = {q1}
    Plans = 2
    MaxIncidents = 2
    MaxMonitors = 2
    MaxFaults = 1
    MaxReports = 1
INVARIANTS NothingLeaks
PROPERTIES ExactApproval ResolvedIsSound TakenBack EverythingEnds
CHECK_DEADLOCK FALSE

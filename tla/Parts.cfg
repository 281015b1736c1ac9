SPECIFICATION PartsSpec
CONSTANTS
    Incidents = {i1, i2}
    MaxCalls = 2
    MaxMutations = 2
    MaxConcurrent = 2
    Threshold = 2
    Askers = {q1}
    MaxEnds = 3
    MaxResets = 1
    Processes = {p1, p2}
    MaxAppends = 4
    AuditCuts = 2
    BufferSize = 2
    QueueSize = 1
    MaxEvents = 4
    MaxGroups = 2
    GroupSize = 2
    JournalCuts = 1
    GroupInterrupts = 1
    MaxInvokes = 4
    Runners = {p1, p2}
    Limit = 1
    MaxTries = 2
    MaxInterrupts = 2
    MaxKills = 1
    Threads = {t1, t2, t3}
    Experiments = {x1, x2}
SYMMETRY PartsSymmetry
INVARIANTS OpenForCause QuotaKept FaultIsAccounted BudgetHolds SpentIsRecorded AuditIsExact StreamIsSeamless CallbacksAreSerial JournalIsHonest
CHECK_DEADLOCK FALSE

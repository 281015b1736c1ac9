SPECIFICATION FairSpec
CONSTANTS
    Incidents = {r1, r2}
    Actions = {a1}
    MaxCalls = 3
    MaxMutations = 1
    MaxConcurrent = 1
    Threshold = 1
    MaxTurns = 1
    MaxFaults = 0
    MaxCancels = 0
    MaxCrashes = 1
    MaxPauses = 0
    MaxResets = 1
PROPERTY EveryRunSettles
CHECK_DEADLOCK FALSE

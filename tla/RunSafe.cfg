SPECIFICATION Spec
CONSTANTS
    Incidents = {r1, r2}
    Actions = {a1}
    MaxCalls = 3
    MaxMutations = 2
    MaxConcurrent = 2
    Threshold = 2
    MaxTurns = 2
    MaxFaults = 1
    MaxCancels = 1
    MaxCrashes = 1
    MaxPauses = 1
    MaxResets = 0
SYMMETRY MCSymmetry
INVARIANTS UnknownIsSaid ActiveIsExact NoOverwrite ResolvedIsEarned OpenBreakerHolds
PROPERTY StartsAreInformed
CHECK_DEADLOCK FALSE

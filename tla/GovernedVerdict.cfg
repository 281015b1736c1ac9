SPECIFICATION GovernedSpec
CONSTANTS
    Runners = {p1, p2}
    Experiments = {x1, x2}
    Limit = 1
    MaxTries = 2
    MaxInterrupts = 2
    MaxKills = 1
INVARIANT VerdictIsKnown
CHECK_DEADLOCK FALSE

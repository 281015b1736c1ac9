SPECIFICATION FairSpec
CONSTANTS
    Incidents = {i1, i2, i3}
    Actions = {a1, a2}
    Operators = {o1}
    NoAction = NoAction
    Nobody = Nobody
    Targeted = {a1}
    Legacy = {i3}
    Timeout = 1
    MaxTime = 3
    MaxRequests = 2
    MaxCancels = 1
    MaxJumps = 1
INVARIANTS ApprovedOnce AnswerStands IndexesAgree
PROPERTIES DecisionIsFinal EveryWaiterReturns
CHECK_DEADLOCK FALSE

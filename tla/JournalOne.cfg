SPECIFICATION Spec
CONSTANTS
    Procs = {p1}
    Execs = {e1, e2}
    Nobody = Nobody
    MaxEvents = 4
    MaxFaults = 2
    MaxCrashes = 3
SYMMETRY MCSymmetry
INVARIANTS ChainIntact UncertainIsSaid
PROPERTIES TerminalIsFinal StartSettles
CHECK_DEADLOCK FALSE

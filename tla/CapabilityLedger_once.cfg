SPECIFICATION Spec
CONSTANTS
    Turns = {t1, t2}
    MaxCalls = 2
    MaxFaults = 2
    None = None
SYMMETRY Symmetry
INVARIANTS
    ActsOnce
    ToldIsDone
CHECK_DEADLOCK FALSE

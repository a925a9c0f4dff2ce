SPECIFICATION FairSpec
CONSTANTS
    Manuals = {m1}
    Unplanned = {u1, u2}
    Worker = worker
    NoRun = NoRun
    MaxTime = 2
    MaxEdits = 1
    MaxCrashes = 1
    Setups <- FewTasks
INVARIANTS
    EffectOnce
PROPERTIES
    DueIsServed
    RunsEnd
CHECK_DEADLOCK FALSE

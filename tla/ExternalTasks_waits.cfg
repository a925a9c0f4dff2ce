SPECIFICATION FairSpec
CONSTANTS
    MaxTasks = 2
    MaxTurns = 3
    MaxCrashes = 1
    Worker = Worker
    Caller = Caller
    NoTask = NoTask
    Setups <- FewSetups
INVARIANTS
    HandsOver
PROPERTIES
    ImplementsContract
    WaitEnds
    Settles
CHECK_DEADLOCK FALSE

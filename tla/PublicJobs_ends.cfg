SPECIFICATION FairSpec
CONSTANTS
    Requests = {r1, r2}
    NoJob = NoJob
    MaxCrashes = 1
    MaxCancels = 1
INVARIANTS
    KeyAgrees
    StreamIsComplete
PROPERTIES
    ImplementsContract
    JobEnds
CHECK_DEADLOCK FALSE

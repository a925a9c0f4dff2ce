SPECIFICATION FairSpec
CONSTANTS
    Replies = {r1}
    Files = {}
    Add = Add
    Remove = Remove
    None = None
    MaxAttempts = 2
    MaxFaults = 2
    MaxRequests = 2
INVARIANTS
    AtMostOnce
    OneMark
    CallerOwnsRow
    DeletedLeavesNoMark
    ReceiptCleared
PROPERTIES
    ImplementsContract
    DeletedIsQuiet
    StagedEnds
CHECK_DEADLOCK FALSE

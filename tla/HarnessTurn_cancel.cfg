SPECIFICATION LiveSpec
CONSTANTS
    Turns = {t1}
    Workers = {w1, w2}
    Cancellers = {c1}
    TTL = 1
    MaxFrames = 1
    MaxActions = 1
    MaxCrashes = 1
    None = None
INVARIANTS
    CancelExcludesReply
    OneExecutor
PROPERTIES
    ImplementsContract
    TerminalChangesOnlyToFailed
    AnsweredOrCancelled

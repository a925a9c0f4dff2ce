SPECIFICATION FairSpec
CONSTANTS
    Turns = {t1, t2}
    Workers = {w1, w2}
    Cancellers = {}
    TTL = 1
    MaxFrames = 1
    MaxActions = 2
    MaxCrashes = 1
    None = None
INVARIANTS
    OneLiveRun
PROPERTIES
    ClaimedTurnEnds

SPECIFICATION FairSpec
CONSTANTS
    Children = {c1, c2, c3}
    NoChild = NoChild
    MaxTroubles = 2
INVARIANTS
    OneChild
PROPERTIES
    Converges
CHECK_DEADLOCK FALSE

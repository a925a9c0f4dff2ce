SPECIFICATION FairSpec
CONSTANTS
    e1 = e1
    e2 = e2
    Events = {e1, e2}
    None = None
    Setups <- FewSetups
INVARIANTS
    OneWorker
    TurnIsOwned
    FailedIsTold
PROPERTIES
    ImplementsContract
    EventsEnd
CHECK_DEADLOCK FALSE

SPECIFICATION FairSpec
CONSTANTS
    Deliveries = {d1}
    NoDelivery = NoDelivery
    Threads = {t1}
    Nobody = Nobody
    MaxHandOvers = 1
    MaxCrashes = 0
INVARIANTS
    OutcomePersisted
CHECK_DEADLOCK FALSE

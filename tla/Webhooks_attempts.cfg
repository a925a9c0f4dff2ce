SPECIFICATION FairSpec
CONSTANTS
    Deliveries = {d1, d2}
    NoDelivery = NoDelivery
    Threads = {t1, t2}
    Nobody = Nobody
    MaxHandOvers = 1
    MaxCrashes = 1
PROPERTIES
    Attempted
CHECK_DEADLOCK FALSE

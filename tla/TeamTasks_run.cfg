SPECIFICATION FairSpec
CONSTANTS
    m1 = m1
    m2 = m2
    t1 = t1
    t2 = t2
    Tasks = {t1, t2}
    Members = {m1, m2}
    NoTask = NoTask
    Sweeper = Sweeper
    Human = Human
    Limit = 1
    MaxOrders = 1
    MaxTroubles = 1
    Setups <- FewSetups
INVARIANTS
    MemberSerial
    AnswerOnce
PROPERTIES
    TasksEnd
    RunEnds
CHECK_DEADLOCK FALSE

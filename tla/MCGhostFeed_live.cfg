SPECIFICATION FairSpec
CONSTANTS
    w1 = w1
    w2 = w2
    p1 = p1
    p2 = p2
    Workers <- BothWorkers
    Feeds <- OnlyW1
    MayFail <- NoWorkers
    People <- OnePerson
    Limit = 2
    MaxTime = 1
    MaxEvents = 2
PROPERTIES EveryEventProcessed HeldIsReleased
CHECK_DEADLOCK FALSE

SPECIFICATION Spec
CONSTANTS
    w1 = w1
    w2 = w2
    p1 = p1
    p2 = p2
    Workers <- OnlyW1
    Feeds <- OnlyW1
    MayFail <- NoWorkers
    People <- OnePerson
    Limit = 3
    MaxTime = 2
    MaxEvents = 3
PROPERTIES ReleaseRespectsWindows
CHECK_DEADLOCK FALSE

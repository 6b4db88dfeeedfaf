SPECIFICATION Spec
CONSTANTS
    w1 = w1
    w2 = w2
    p1 = p1
    p2 = p2
    Workers <- BothWorkers
    Feeds <- BothWorkers
    MayFail <- BothWorkers
    People <- TwoPeople
    Limit = 2
    MaxTime = 1
    MaxEvents = 2
SYMMETRY Symmetry
INVARIANTS
    TypeOK
    FeedExact
    OnePerWorker
PROPERTIES
    EarlierBoundaryHolds
CHECK_DEADLOCK FALSE

SPECIFICATION FairSpec
CONSTANTS
    Amounts = {1, 2}
    Currencies = {"USD"}
    Words = {"baby", "away"}
    Bodies = {b1}
    Notes = {"raise"}
    Requests = {r1, r2, r3}
    Names = {"john", "mary"}
    Entities = {"Budget", "Constraint"}
    Utterances <- Crossing
    InitialNodes <- Both
    FirstNode = 3
    Accepted <- NoValue
    Redirects = {}
    Concurrency = 3
PROPERTY EveryRequestEnds
CHECK_DEADLOCK FALSE

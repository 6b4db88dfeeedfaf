SPECIFICATION Spec
CONSTANTS
    Amounts = {1, 2}
    Currencies = {"USD"}
    Words = {"baby", "away"}
    Bodies = {b1}
    Notes = {"raise"}
    Requests = {r1, r2, r3, r4, r5}
    Names = {"john", "mary"}
    Entities = {"Budget", "Constraint"}
    Utterances <- Mixed
    InitialNodes <- Nobody
    FirstNode = 1
    Accepted <- NoValue
    Redirects = {}
    Concurrency = 1
SYMMETRY Symmetry
INVARIANTS
    StagedExact
CHECK_DEADLOCK FALSE

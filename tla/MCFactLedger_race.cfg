SPECIFICATION Spec
CONSTANTS
    Amounts = {1, 2}
    Currencies = {"USD"}
    Words = {"baby", "away"}
    Bodies = {b1}
    Notes = {"raise"}
    Requests = {r1, r2, r3, r4}
    Names = {"john", "mary"}
    Entities = {"Budget", "Constraint"}
    Utterances <- Talk
    InitialNodes <- Both
    FirstNode = 3
    Accepted <- HighOnly
    Redirects = {}
    Concurrency = 4
SYMMETRY Symmetry
INVARIANTS
    TypeOK
    SupersededByLater
    OutboxExact
    ChallengeGrounded
PROPERTIES
    NoSilentOverwrite
    ImplementsBook
    VerifiedStands
CHECK_DEADLOCK FALSE

SPECIFICATION FairSpec
CONSTANTS
    Amounts = {1, 2}
    Currencies = {"USD"}
    Words = {"baby", "busy"}
    Bodies = {b1}
    Notes = {"raise"}
    d1 = d1
    d2 = d2
    d3 = d3
    Sessions = {d1, d2, d3}
    Names = {"john", "jon", "mary", "mark"}
    Similarity <- Alike
    Recency <- Fading
    Entities = {"Budget", "LifeEvent", "Constraint"}
    Utterances <- Talk
    Accepted <- HighOnly
    Limit = 2
    MaxTime = 3
INVARIANTS
    TypeOK
    FeedExact
    NamesApart
PROPERTIES
    BornQuiet
    ImplementsBook
    EverythingSurfaces
CHECK_DEADLOCK FALSE

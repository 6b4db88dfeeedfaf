SPECIFICATION PageFairSpec
CONSTANTS
    r1 = r1
    r2 = r2
    r3 = r3
    Requests <- MCRequests
    Outcomes <- MCOutcomes
    MaxTurns = 2
    Concurrency = 2
INVARIANTS
    PageTypeOK
    OneAtATime
    PageInSync
    TwiceOnlyIfTold
PROPERTIES
    AnsweredThroughPage
    WaitEnds
CHECK_DEADLOCK FALSE

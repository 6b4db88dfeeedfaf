SPECIFICATION Spec
CONSTANTS
    r1 = r1
    r2 = r2
    r3 = r3
    r4 = r4
    r5 = r5
    Requests <- Five
    Outcomes <- AllOutcomes
    MaxTurns = 2
    Concurrency = 1
SYMMETRY Symmetry
INVARIANTS
    AsksWhileInterviewing
    TranscriptIsUserTurns
    ClosedOrCut
    TurnCap
CHECK_DEADLOCK FALSE

SPECIFICATION Spec
CONSTANTS
    f1 = f1
    n1 = n1
    n2 = n2
    q1 = q1
    q2 = q2
    Facts <- MCFacts
    Notes <- MCNotes
    Requests <- MCRequests
    Pages <- MCPages
    Profile <- MCProfile
    MaxTokens = 2
SYMMETRY Symmetry
INVARIANTS
    TypeOK
    BoundaryListed
PROPERTIES
    ImplementsNotes
    ValidSessionKept
CHECK_DEADLOCK FALSE

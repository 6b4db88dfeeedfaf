SPECIFICATION FairSpec
CONSTANTS
    i1 = i1
    i2 = i2
    c1 = c1
    c2 = c2
    Items <- MCItems
    Clicks <- MCClicks
INVARIANTS TypeOK ClickedAgree
PROPERTIES HandledCardGoes

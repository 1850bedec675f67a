SPECIFICATION Spec
CONSTANTS
    Absent = Absent
    Base = 5
    HighBit = 2
    BadTags = {0, 4}
    Constructed = {2}
    MaxData = 9
    MaxNames = 3
    MaxSpecs = 3
    MaxEntries = 3
    Keys <- MCKeys
    Depth <- MCDepth
INVARIANTS
    DerIsExact
    IssuerIsChosen
    RequestIsMerged
    NothingHidden
CHECK_DEADLOCK FALSE

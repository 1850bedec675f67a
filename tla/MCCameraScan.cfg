SPECIFICATION Spec
CONSTANTS
    Indices <- MCIndices
    Timeouts = {0, 4, 5}
    ReadTime = 2
INVARIANTS
    CamerasReleased
    RoundsAreWhole
CHECK_DEADLOCK FALSE

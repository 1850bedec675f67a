SPECIFICATION Spec
CONSTANTS
    Absent = Absent
    MaxBytes = 4
    ReadSize = 3
    Loopback = {"localhost"}
    Presentations <- MCPresentations
    Replies <- MCReplies
    Settings <- MCSettings
INVARIANTS
    TypeOK
    RefusedForCause
PROPERTIES
    PermitsAreExplicit
    ImplementsGate
CHECK_DEADLOCK FALSE

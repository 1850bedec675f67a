SPECIFICATION Spec
CONSTANTS
    MIN_CHUNK_SIZE = 2
    MAX_CHUNK_SIZE = 3
    MaxMessages = 2
    MaxEmpty = 1
    NoMessage = NoMessage
    EmptyValue = EmptyValue
    Request <- MCRequest
    Responses <- MCResponses
    Mtus <- MCMtus
INVARIANTS
    TypeOK
    ScriptFollowed
    LeavesNothingOpen
PROPERTIES
    ResolvedOnce
    VerdictStands
    ImplementsContract
CHECK_DEADLOCK FALSE

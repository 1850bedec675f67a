SPECIFICATION Spec
CONSTANTS
    MIN_CHUNK_SIZE = 2
    MAX_CHUNK_SIZE = 3
    MaxVisits = 2
    MaxMessages = 3
    NoMessage = NoMessage
    Request <- MCRequest
    Responses <- MCResponses
INVARIANTS
    ReturnsFirst
    AskedBeforeReturn
    StopsServer
PROPERTIES
    FuturesResolvedOnce
    Terminates
CHECK_DEADLOCK FALSE

SPECIFICATION Spec
CONSTANTS
    MIN_CHUNK_SIZE = 2
    MAX_CHUNK_SIZE = 4
    MaxMessages = 2
    Messages <- MCMessages
    Mtus <- MCMtus
INVARIANTS
    TypeOK
    ChunksFit
    LoopIsClosedForm
    RoundTrip
PROPERTY
    Arrives
CHECK_DEADLOCK FALSE

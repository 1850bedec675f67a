SPECIFICATION Spec
CONSTANTS
    MIN_CHUNK_SIZE = 2
    MAX_CHUNK_SIZE = 6
    Cycles = 4
    Request <- MCRequest
    Mtus <- MCMtus
    Fractions <- MCFractions
INVARIANT
    TailDropped
PROPERTY
    EveryCycleReported
CHECK_DEADLOCK FALSE

SPECIFICATION Spec
CONSTANTS
    Absent = Absent
    PdpTimeout = 2
    ExchangeTime = 2
    EcKeys <- MCEcKeys
    EdKeys <- MCEdKeys
    Session <- MCSession
    Requests <- MCRequests
    SessionData <- MCSessionData
INVARIANTS
    TypeOK
    NothingUnverifiedLeaves
    PermittedOneByOne
    AllOrNothing
    BoundedStaleness
PROPERTIES
    NoAskingAfterRefusal
    ImplementsGate
CHECK_DEADLOCK FALSE

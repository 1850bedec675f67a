SPECIFICATION Spec
CONSTANTS
    Absent = Absent
    Now = 0
    EcKeys <- MCEcKeys
    EdKeys <- MCEdKeys
    Session <- MCSession
    Requests <- MCRequests
    SessionData <- MCSessionData
INVARIANT
    FailClosed
CHECK_DEADLOCK FALSE

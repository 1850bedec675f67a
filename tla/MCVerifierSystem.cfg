SPECIFICATION Spec
CONSTANTS
    Absent = Absent
    Verifiers = {v1, v2}
    Settings <- MCSettings
    Mdocs <- MCMdocs
    Touched <- MCTouched
    EstablishmentSize = 3
    MaxReplies = 2
SYMMETRY Symmetric
INVARIANTS
    TypeOK
    OwnSession
    SidesAgree
    ScenarioSpoils
CHECK_DEADLOCK FALSE

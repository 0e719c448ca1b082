SPECIFICATION Spec
CONSTANTS
    Part <- MCPart
    Apps <- MCApps
    Routes <- MCRoutes
    Payload <- MCPayload
    None = "null"
    MaxPending = 3
INVARIANTS
    TypeOK
    ViewIsConsistent
PROPERTIES
    NoneIsLost
    EveryAnswerArrives

SPECIFICATION Spec
CONSTANTS
    N = 4
    MaxSize = 3
    MaxFaults = 2
INVARIANTS
    TypeOK
    AnswersMatch
    NoIdleWhileQueued
    NoJobStranded
    ExitIsHonest
PROPERTIES
    Terminates

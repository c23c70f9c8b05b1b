SPECIFICATION Spec
CONSTANTS
    MaxBuffer = 3
    MaxHistory = 5
INVARIANTS
    TypeOK
    NewestConditionsKept
    NoRepeatedTransition
CHECK_DEADLOCK FALSE

SPECIFICATION Spec
CONSTANTS
    Limit = 7
    PushLimit = 2
    Bound = 3
    MaxPhases = 2
    MaxAge = 14
    MaxLate = 2
INVARIANTS
    PhaseKeepsItsAlarm
    PhaseIsNotCutShort
CHECK_DEADLOCK FALSE

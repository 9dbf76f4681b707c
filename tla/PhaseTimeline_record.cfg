SPECIFICATION Spec
CONSTANTS
    PhaseId = {p1, p2}
    Code = {}
    Sweeper = {s1}
    None = None
    MaxPhases = 2
    MaxTime = 3
    MaxRounds = 1
PROPERTY
    PlanChangeRecorded
CHECK_DEADLOCK FALSE

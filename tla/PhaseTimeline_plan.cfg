SPECIFICATION Spec
CONSTANTS
    PhaseId = {p1, p2, p3}
    Code = {}
    Sweeper = {s1}
    None = None
    MaxPhases = 3
    MaxTime = 3
    MaxRounds = 1
SYMMETRY Symmetry
INVARIANTS
    TypeOK
    PlanShape
    TimesInOrder
    DraftNeverRan
    ProjectionFollows
PROPERTIES
    HistoryIsFixed
CHECK_DEADLOCK FALSE

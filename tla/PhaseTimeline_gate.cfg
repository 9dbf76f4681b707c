SPECIFICATION Spec
CONSTANTS
    PhaseId = {p1, p2}
    Code = {c}
    Sweeper = {s1, s2}
    None = None
    MaxPhases = 2
    MaxTime = 3
    MaxRounds = 1
SYMMETRY Symmetry
INVARIANTS
    EnteredOnce
    ArchivedIsOver
    CandidatesExact
PROPERTIES
    SweepIsInvisible
    EndedPhaseFrozen
    DiaryKept
CHECK_DEADLOCK FALSE

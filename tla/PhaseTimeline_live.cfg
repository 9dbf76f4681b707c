SPECIFICATION FairSpec
CONSTANTS
    PhaseId = {p1, p2}
    Code = {}
    Sweeper = {s1}
    None = None
    MaxPhases = 2
    MaxTime = 3
    MaxRounds = 1
PROPERTIES
    PastStaysPast
    BoundariesRatified
CHECK_DEADLOCK FALSE

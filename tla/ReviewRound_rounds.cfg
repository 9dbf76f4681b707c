SPECIFICATION Spec
CONSTANTS
    p1 = p1
    p2 = p2
    p3 = p3
    p4 = p4
    n1 = n1
    e1 = e1
    e2 = e2
    e3 = e3
    People = {p1, p2, p3, p4}
    Own = p1
    Normal <- MCNormal
    Escalation <- MCEscalation
    Panels = {e2}
    Nearest = {e1}
    Lineages <- MCLineages
    Staffings <- MCStaffings
    Posts <- MCPosts
    Changes = 2
    Asks = 1
    None = None
INVARIANTS
    TypeOK
    OneSitting
    NobodyJudgesTwice
    EveryStepAnswers
    OnlyChairsRefuse
    ChairIsKept
PROPERTIES
    StateFollowsStaffing
    HeardEverySeat
    WalkKept
    LifeKept
CHECK_DEADLOCK FALSE

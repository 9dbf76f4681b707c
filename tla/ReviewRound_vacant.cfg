SPECIFICATION Spec
CONSTANTS
    p1 = p1
    p2 = p2
    p3 = p3
    p4 = p4
    n1 = n1
    e1 = e1
    e2 = e2
    e3 = e3
    People = {p1, p2, p3, p4}
    Own = p1
    Normal <- MCNormal
    Escalation <- MCEscalation
    Panels = {e1}
    Nearest = {e1}
    Lineages <- MCLineages
    Staffings <- MCStaffings
    Posts <- MCPosts
    Changes = 1
    Asks = 0
    None = None
INVARIANT
    JudgeIsHeard
CHECK_DEADLOCK FALSE

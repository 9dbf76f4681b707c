SPECIFICATION Spec
CONSTANTS
    Value = {v}
    Rule = {{v}}
    None = None
    MaxRounds = 3
    MaxRecs = 2
    MaxRevisions = 2
    MaxEvents = 0
    MaxItemRevs = 2
    MaxProofs = 1
INVARIANTS
    TypeOK
    StandsOnItsRound
    NeverStranded
    OneAppealPerConclusion
    QuietOnceClosed
PROPERTIES
    WorkNeverWithdrawn
    LivesKept
CHECK_DEADLOCK FALSE

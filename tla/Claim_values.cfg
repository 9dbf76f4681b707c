SPECIFICATION Spec
CONSTANTS
    Value = {v1, v2}
    Rule = {{v1, v2}, {v1}}
    None = None
    MaxRounds = 2
    MaxRecs = 2
    MaxRevisions = 1
    MaxEvents = 1
    MaxItemRevs = 2
    MaxProofs = 1
INVARIANTS
    ApprovedIsScorable
PROPERTIES
    EffectIsTrue
CHECK_DEADLOCK FALSE

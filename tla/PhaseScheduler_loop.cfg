SPECIFICATION FairSpec
CONSTANTS
    Batch = {1, 2, 3}
    None = None
    Limit = 2
    Margin = 1
    Retry = 2
    Fallback = 3
    Broken = {1}
    MaxAhead = 3
INVARIANTS
    NeverOversleeps
PROPERTIES
    BoundaryWritten
    DiariesKept
CHECK_DEADLOCK FALSE

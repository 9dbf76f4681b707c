CONSTANTS
    Batch = {1, 2}
    None = None
    Limit = 2
    Margin = 1
    Retry = 2
    Fallback = 3
    Broken = {1}
    MaxAhead = 3
SPECIFICATION Spec
PROPERTIES RereadOnSubscription
CHECK_DEADLOCK FALSE

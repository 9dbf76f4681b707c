SPECIFICATION CastSpec
CONSTANTS
    o1 = o1
    t1 = t1
    t2 = t2
    Tickets = {t1, t2}
    Owner <- OneOwner
    Versioned = {t1}
    Sweepers = {s1, s2}
    MaxFile = 2
    ReservedRoom = 3
    StagedRoom = 3
    StoredRoom = 4
    TenantRoom = 4
    GrantTtl = 1
    Grace = 1
    StagedTtl = 2
    Lease = 0
    Writes = 2
    Faults = 2
    None = None
INVARIANTS
    QuotaNeverOversold
    KeptReadsBack
PROPERTIES
    LedgerKept
    NothingLingers
CHECK_DEADLOCK FALSE

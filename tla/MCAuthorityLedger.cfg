SPECIFICATION LedgerSpec
CONSTANTS
    Workers = {w1, w2, w3}
    Dispatchers = {d1, d2}
    Campaigns = {c1, c2}
    MaxAttempts = 3
    None = None
INVARIANTS
    LedgerTypeOK
    RecordValid
    OutboxValid
    DispatchedOnlyWhenCreated
PROPERTIES
    FenceIsPermanent
    CreatedIsFinal
    FailedOnlyHeals
CHECK_DEADLOCK FALSE

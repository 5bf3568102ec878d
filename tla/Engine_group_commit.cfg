CONSTANTS
    Callers = {c1, c2, c3}
    c1 = c1
    c2 = c2
    c3 = c3
    Kinds = {"write", "txn", "read", "snapshot"}
    Bypass = TRUE
    MaxInflight = 2
    MaxBatch = 2
    MaxCalls = 1
    MaxRestarts = 1
    SyncMayFail = FALSE
SPECIFICATION FairSpec
INVARIANTS
    DurableUnlessSkipped
    ShownDurable
    InflightBounded
PROPERTY CallsReturn
CHECK_DEADLOCK FALSE

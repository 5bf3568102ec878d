CONSTANTS
    Callers = {c1}
    c1 = c1
    c2 = c2
    c3 = c3
    Kinds = {"write"}
    Bypass = FALSE
    MaxInflight = 1
    MaxBatch = 2
    MaxCalls = 2
    MaxRestarts = 1
    SyncMayFail = FALSE
SPECIFICATION Spec
INVARIANT AckedDurable
CHECK_DEADLOCK FALSE

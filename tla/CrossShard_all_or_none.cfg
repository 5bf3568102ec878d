CONSTANTS
    t1 = t1
    t2 = t2
    r1 = r1
    r2 = r2
    K = 3
    Txns = {t1, t2}
    Slices <- SharedRow
    InitRow <- FirstPresent
    Sessions = {t1}
    Routers = {r1}
    Restarted = {r1}
    NoTxn = NoTxn
    MaxSeq = 3
    Tries <- OneRetries
    Shared = {}
    MaxFaults = 1
SPECIFICATION Spec
INVARIANT AllOrNone
CHECK_DEADLOCK FALSE

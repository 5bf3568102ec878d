CONSTANTS
    t1 = t1
    t2 = t2
    r1 = r1
    r2 = r2
    K = 3
    Txns = {t1, t2}
    Slices <- SharedRow
    InitRow <- FirstPresent
    Sessions = {t1}
    Routers = {r1, r2}
    Restarted = {r1}
    NoTxn = NoTxn
    MaxSeq = 3
    Tries <- OneRetries
    Shared = {3}
    MaxFaults = 1
SPECIFICATION FairSpec
INVARIANTS
    OneDecision
    AnswerHonest
    AppliedOnce
    BlockedOnlyIfStale
PROPERTY RecoverCompletes
CHECK_DEADLOCK FALSE

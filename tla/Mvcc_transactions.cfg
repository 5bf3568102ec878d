CONSTANTS
    x = x
    y = y
    t1 = t1
    t2 = t2
    t3 = t3
    r1 = r1
    Keys = {x, y}
    Txs = {t1, t2, t3}
    Footprints <- Shapes
    TxnRows <- Pairs
    MaxMembers = 2
    Replicas = {r1}
    MaxAge = 2
    MaxOp = 4
    MaxRestarts = 1
SPECIFICATION Spec
SYMMETRY Interchangeable
INVARIANTS
    FirstCommitterWins
    PivotSeen
    FreshSnapshots
PROPERTY ReadsRepeat
CHECK_DEADLOCK FALSE

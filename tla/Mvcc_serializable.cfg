CONSTANTS
    x = x
    y = y
    t1 = t1
    t2 = t2
    t3 = t3
    r1 = r1
    Keys = {x, y}
    Txs = {t1, t2, t3}
    Footprints <- Shapes
    TxnRows <- Pairs
    MaxMembers = 2
    Replicas = {}
    MaxAge = 4
    MaxOp = 3
    MaxRestarts = 0
SPECIFICATION Spec
SYMMETRY Interchangeable
INVARIANT Serializable
CHECK_DEADLOCK FALSE

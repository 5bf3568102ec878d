CONSTANTS
    x = x
    y = y
    t1 = t1
    t2 = t2
    t3 = t3
    r1 = r1
    Keys = {x, y}
    Txs = {t1}
    Footprints <- Shapes
    TxnRows <- Thrice
    MaxMembers = 3
    Replicas = {}
    MaxAge = 4
    MaxOp = 3
    MaxRestarts = 0
SPECIFICATION Spec
SYMMETRY Interchangeable
INVARIANT AckedReadable
CHECK_DEADLOCK FALSE

CONSTANTS
    a = a
    b = b
    w1 = w1
    w2 = w2
    None = None
    K = 2
    Ids = {1, 2, 3}
    ShardOf <- ThreeRows
    Values = {1, 2}
    Contents <- Tables
    Callers = {a, b}
    Requests <- TwoRoles
    Workers = {w1, w2}
    PoolBound = 1
SPECIFICATION FairSpec
INVARIANTS
    AsIfUnsharded
    CatalogsAgree
PROPERTY CallsReturn
CHECK_DEADLOCK FALSE

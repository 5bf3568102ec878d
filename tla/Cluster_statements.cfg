CONSTANTS
    s1 = s1
    s2 = s2
    s3 = s3
    N = 2
    Stmts = {s1, s2, s3}
    Kind <- Mixed
    Column <- TwoColumns
    Columns = {"a", "b"}
    Sessions = {s1}
    NoStmt = NoStmt
    MaxView = 1
    Budgets <- OneRetry
SPECIFICATION Spec
INVARIANTS
    AnsweredOwn
    NoLostWakeup
    UpdatesKept
CHECK_DEADLOCK FALSE

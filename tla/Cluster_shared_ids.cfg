CONSTANTS
    s1 = s1
    s2 = s2
    s3 = s3
    N = 2
    Stmts = {s2, s3}
    Kind <- Plain
    Column <- OneColumn
    Columns = {"a", "b"}
    Sessions = {}
    NoStmt = NoStmt
    MaxView = 1
    Budgets <- Once
SPECIFICATION Spec
INVARIANT AnsweredExecuted
CHECK_DEADLOCK FALSE

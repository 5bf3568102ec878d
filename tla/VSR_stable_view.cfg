CONSTANTS
    N = 3
    c1 = c1
    c2 = c2
    Clients = {c1, c2}
    MaxReq = 1
    MaxView = 0
    MaxLog = 2
    MaxDvc = 2
    Redeliver = TRUE
    Timers = {0}
    Contacts <- Primary0
    Alive = {}
SPECIFICATION Spec
SYMMETRY ClientSymmetry
INVARIANTS
    NumberedLogs
    ReplyBacked
PROPERTY ImplementsReplicatedLog

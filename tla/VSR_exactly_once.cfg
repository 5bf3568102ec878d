CONSTANTS
    N = 3
    c1 = c1
    c2 = c2
    Clients = {c1}
    MaxReq = 1
    MaxView = 0
    MaxLog = 2
    MaxDvc = 2
    Redeliver = FALSE
    Timers = {0}
    Contacts <- Primary0
    Alive = {}
SPECIFICATION Spec
INVARIANT ExactlyOnce

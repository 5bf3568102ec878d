CONSTANTS
    N = 3
    c1 = c1
    c2 = c2
    Clients = {c1}
    MaxReq = 0
    MaxView = 1
    MaxLog = 0
    MaxDvc = 3
    Redeliver = TRUE
    Timers = {1, 2}
    Contacts <- Anywhere
    Alive = {1, 2}
SPECIFICATION FairSpec
PROPERTY ViewChangeCompletes

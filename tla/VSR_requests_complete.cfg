CONSTANTS
    N = 3
    c1 = c1
    c2 = c2
    Clients = {c1}
    MaxReq = 1
    MaxView = 0
    MaxLog = 1
    MaxDvc = 2
    Redeliver = TRUE
    Timers = {0}
    Contacts <- Anywhere
    Alive = {0, 1}
SPECIFICATION FairSpec
PROPERTIES
    RequestsComplete
    BackupsCatchUp

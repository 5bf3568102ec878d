CONSTANTS
    N = 3
    c1 = c1
    c2 = c2
    Clients = {c1, c2}
    MaxReq = 1
    MaxView = 1
    MaxLog = 1
    MaxDvc = 2
    Redeliver = TRUE
    Timers = {1, 2}
    Contacts <- OneEach
    Alive = {}
SPECIFICATION Spec
INVARIANTS
    ViewDiscipline
    StalledLacksQuorum
    SafeUnlessMisinstalled
    Durable
CONSTRAINTS
    Quiet
    SmallNetwork

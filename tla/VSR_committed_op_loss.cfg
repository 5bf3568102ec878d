CONSTANTS
    N = 3
    c1 = c1
    c2 = c2
    Clients = {c1, c2}
    MaxReq = 1
    MaxView = 1
    MaxLog = 1
    MaxDvc = 3
    Redeliver = FALSE
    Timers = {0, 2}
    Contacts <- At1
    Alive = {}
SPECIFICATION Spec
SYMMETRY ClientSymmetry
INVARIANT Agreement

CONSTANTS
    Keys = {1, 2}
    Versioned = {2}
    Values = {"a"}
    Size <- ShortTombstone
    Threshold = 0
    Autosync = {TRUE, FALSE}
    MaxOp = 1
    MaxFrames = 3
    MaxSst = 1
    MaxStops = 2
    Stops = {"crash", "exit"}
    PartialTail = FALSE
    TornManifest = FALSE
SPECIFICATION Spec
INVARIANTS
    Openable
PROPERTY ImplementsDurableMap
CHECK_DEADLOCK FALSE

CONSTANTS
    Keys = {1, 2}
    Versioned = {2}
    Values = {"a"}
    Size <- ShortTombstone
    Threshold = 2
    Autosync = {TRUE}
    MaxOp = 2
    MaxFrames = 2
    MaxSst = 3
    MaxStops = 1
    Stops = {"crash", "exit"}
    PartialTail = TRUE
    TornManifest = TRUE
SPECIFICATION Spec
INVARIANTS
    CursorCovers
    UndamagedReadsSame
PROPERTY CompactionInvisible
CHECK_DEADLOCK FALSE

CONSTANTS
    Keys = {1, 2}
    Versioned = {2}
    Values = {"a"}
    Size <- SameSize
    Threshold = 2
    Autosync = {TRUE}
    MaxOp = 2
    MaxFrames = 3
    MaxSst = 3
    MaxStops = 0
    Stops = {"crash"}
    PartialTail = FALSE
    TornManifest = FALSE
SPECIFICATION Spec
INVARIANT ReopenReadsSame

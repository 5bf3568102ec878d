CONSTANTS
    Ids <- MCIds
    Declared <- MCDeclared
    SerialField <- MCSerialField
    SerialMax = 1
    Inputs <- MCInputs
    Sets <- MCSets
    FkOptions <- MCFks
    Indexable <- MCIndexable
    Composites <- MCComposites
    Batches <- MCBatches
    Capacity = 1
    MaxField = 2
    MaxEvents = 2
SPECIFICATION Spec
INVARIANTS
    IndexExact
    UniqueHolds
    NoDangling
    CacheCoherent
    SerialNeverReused
PROPERTY CascadeOnlyReferrers
CHECK_DEADLOCK FALSE

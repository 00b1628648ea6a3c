SPECIFICATION Spec
CONSTANTS
    Keys <- Keys7
    LeafCap = 3
    InternalCap = 4
    PurgeAt = 1
    MaxPages = 5
    Appending = TRUE
    Deleting = TRUE
    Sparing = TRUE
INVARIANTS
    TypeOK
    SpaceIsReused
PROPERTY
    RowsAreSeen
CHECK_DEADLOCK FALSE

SPECIFICATION Spec
CONSTANTS
    Keys <- Keys8
    LeafCap = 4
    InternalCap = 8
    PurgeAt = 1
    MaxPages = 9
    Appending = FALSE
    Deleting = FALSE
    Sparing = FALSE
INVARIANT
    KeyExistsFindsRows
CHECK_DEADLOCK FALSE

SPECIFICATION Spec
CONSTANTS
    Keys <- Keys5
    LeafCap = 3
    InternalCap = 3
    PurgeAt = 2
    MaxPages = 5
    Appending = FALSE
    Deleting = TRUE
    Sparing = FALSE
INVARIANT
    PagesInOrder
PROPERTY
    RowsStayOnPages
CONSTRAINT
    NoneReused
CHECK_DEADLOCK FALSE

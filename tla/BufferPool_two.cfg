SPECIFICATION Spec
CONSTANTS
    Pages <- TwoTables
    NoPage = NoPage
    Values = {v0, v1}
    NumFrames = 2
    MaxAccess = 5
INVARIANTS
    TypeOK
    PageInOneFrame
    CleanFrameMatchesDisk
    PeekedPageStays
PROPERTIES
    ImplementsPageStore

SPECIFICATION Spec
CONSTANTS
    Keys <- ThreeKeys
    Sizes = {1, 2}
    LeafCap = 3
    MaxRowId = 5
    MaxPages = 4
INVARIANTS
    TypeOK
    RowIdsStayFresh
PROPERTY
    NextEngineFindsTheTable
CHECK_DEADLOCK FALSE

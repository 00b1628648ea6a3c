SPECIFICATION TestSpec
CONSTANT Geometries <- SmallAndTests
INVARIANTS
    TypeOK
    EntriesKept
    PagesAccounted
    BalancedTree
    EntriesAreFound
    TestsPass
PROPERTY BalanceGoesUp
CHECK_DEADLOCK FALSE

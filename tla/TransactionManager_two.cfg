SPECIFICATION FairSpec
CONSTANTS
    Callers = {c1, c2}
    MaxCalls = 2
INVARIANTS
    TypeOK
    ReturnsAfterRun
    OwnException
    SerialInQueueOrder
PROPERTIES
    CallReturns
    ShutdownCompletes

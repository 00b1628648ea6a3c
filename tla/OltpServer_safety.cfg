SPECIFICATION Spec
CONSTANTS
    Dbs = {d1, d2}
    None = none
    MaxConns = 2
    Quota <- TwoOne
    Kinds <- SelectAndQuery
INVARIANTS
    TypeOK
    WorkerPointerValid
    OneTaskPerPending
PROPERTY
    SessionsAreIsolated

SPECIFICATION FairSpec
CONSTANTS
    Dbs = {d1}
    None = none
    MaxConns = 1
    Quota <- Three
    Kinds <- AllButBlank
INVARIANTS
    StatementsConserved
PROPERTY
    EveryStatementAnswered

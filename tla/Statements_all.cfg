SPECIFICATION Spec
CONSTANTS
    Keys <- SomeKeys
    Vals <- Flags
    Wheres <- AllClauses
    SetLists <- SetClauses
    LeafPages <- TwoPages
INVARIANTS
    TypeOK
    ExactlyMatchingRows
    AppliedAtOnce
    UpdateKeepsRows

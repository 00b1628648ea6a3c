SPECIFICATION Spec
CONSTANTS
    Keys <- OneByteKeys
    Vals <- Flags
    Wheres <- FewClauses
    SetLists <- SetClauses
    LeafPages <- TwoPages
INVARIANT
    WhereIsApplied

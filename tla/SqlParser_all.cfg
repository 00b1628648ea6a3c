SPECIFICATION Spec
CONSTANTS
    Identifiers <- Words
    Numbers <- AllNumbers
    Strings <- Texts
    OutOfRange <- TooBig
    TooLong <- Long
    Calls <- SmallCalls
INVARIANTS
    TestsPass
    StatementsAreTheText
    ExpressionsOfTheGrammar
    SuggestionsWork
CHECK_DEADLOCK FALSE

SPECIFICATION QuerySpec
CONSTANTS
    Logged <- MCLogged
    Words <- MCWords
    Within <- MCWithin
    MaxTokens = 5
INVARIANTS
    MeansGrammar
    
CHECK_DEADLOCK FALSE

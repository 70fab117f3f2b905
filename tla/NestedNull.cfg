\* Arrays, maps and null in the declared version of a block.
SPECIFICATION Spec
CONSTANTS
    Unknown = unknown
    MaxNesting = 5
    MaxInt = 7
    Test <- TestExpressions
    InvalidPatterns = {"("}
    Quoted = {}
    Inputs <- NullInputs
    LaterInputs <- MCLaterInputs
    Singles <- MCSingles
    Extensions <- MCExtensions
    BlockScopes <- MCBlockScopes
    Registered <- MCRegistered
    TokenTables <- MCTokenTables
    TokenFacts <- MCTokenFacts
    LoadedKeys <- MCLoadedKeys
    MaxItems = 2
INVARIANT
    DeclaresWhatItHolds
CHECK_DEADLOCK FALSE

\* The life of blocks and authorizers, from their text to their answers.
SPECIFICATION Spec
CONSTANTS
    Unknown = unknown
    MaxNesting = 5
    MaxInt = 7
    Test <- TestExpressions
    InvalidPatterns = {"("}
    Quoted = {}
    Inputs <- MCInputs
    LaterInputs <- MCLaterInputs
    Singles <- MCSingles
    Extensions <- MCExtensions
    BlockScopes <- MCBlockScopes
    Registered <- MCRegistered
    TokenTables <- MCTokenTables
    TokenFacts <- MCTokenFacts
    LoadedKeys <- MCLoadedKeys
    MaxItems = 2
INVARIANTS
    ExpressionsMeanWhatTheySay
    AnswersCombineBindings
    RulesBindTheirVariables
    ReadsBackAsPrinted
    PanicsOnlyOnNestedParameters
    WireKeepsBlocks
    VersionCoversFeatures
    LoadKeepsMeaning
PROPERTIES
    BuildersOnlyGrow
    RestoringKeepsStatements
    ImplementsRun
CHECK_DEADLOCK FALSE

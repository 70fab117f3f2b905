\* A C program with two threads.
SPECIFICATION Spec
CONSTANTS
    Threads = {t1, t2}
    Handles = {h1, h2, h3}
    Statements <- MCStatements
    Contexts <- MCContexts
    Keys <- MCKeys
    Secp256r1 <- MCSecp
    Received <- MCReceived
    MaxIndex = 2
    MaxSpent = 7
    MaxBlocks = 2
    None = none
    NoId = noid
    TheAuthorizer = authorizer
INVARIANTS
    TypeOK
    ErrorIsOfTheLastFailure
    OnlyRefusalsEmptyBuilders
    AccessorsNameTheFailedChecks
PROPERTIES
    BuiltFromAllThatWasAsked
SYMMETRY Symmetric
CHECK_DEADLOCK FALSE

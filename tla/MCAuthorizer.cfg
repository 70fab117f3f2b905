\* The calls of a program on an authorizer, on small tokens.
SPECIFICATION Spec
CONSTANTS
    AuthorizerId = authorizer
    NoKey = nokey
    None = none
    Keys = {"k1", "k2"}
    Facts <- MCFacts
    Tokens <- MCTokens
    Contents <- MCContents
    LimitChoices <- MCLimits
    Queries <- MCQueries
    Groups <- MCGroups
    TimeCap = 2
    OverflowChecks = TRUE
INVARIANTS
    TypeOK
    CompleteWhenRecorded
    DecisionJustified
    AnswerJustified
PROPERTIES
    CoalitionsAreIsolated
    WorldGrows
    CallsReturn

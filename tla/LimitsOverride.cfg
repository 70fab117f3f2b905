\* A call is stopped by an iteration limit other than the one it was given.
SPECIFICATION Spec
CONSTANTS
    AuthorizerId = authorizer
    NoKey = nokey
    None = none
    Keys = {"k1", "k2"}
    Facts <- MCFacts
    Tokens <- MCTokens
    Contents <- MCContents
    LimitChoices <- MCLimits
    Queries <- MCQueries
    Groups <- MCGroups
    TimeCap = 2
    OverflowChecks = TRUE
INVARIANT
    OverrideIsUsed

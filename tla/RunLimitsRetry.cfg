\* The iteration limit is compared with the passes of each run, not with their sum.
SPECIFICATION Spec
CONSTANTS
    AuthorizerId = authorizer
    NoKey = nokey
    None = none
    Keys = {"k1", "k2"}
    Facts <- MCFacts
    Tokens <- MCTokens
    Contents <- MCContents
    LimitChoices <- MCLimits
    Queries <- MCQueries
    Groups <- MCGroups
    TimeCap = 2
    OverflowChecks = TRUE
INVARIANT
    LimitsCoverAllExecutions

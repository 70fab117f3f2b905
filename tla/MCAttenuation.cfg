\* A token is decided upon, attenuated, and decided upon again.
SPECIFICATION AttenuationSpec
CONSTANTS
    AuthorizerId = authorizer
    NoKey = nokey
    None = none
    Keys = {"k1", "k2"}
    Facts <- MCFacts
    Tokens <- GrowingTokens
    Contents <- MCContents
    LimitChoices <- TwoLimits
    Queries <- OneQuery
    Groups <- OneGroup
    Appended <- MCAppended
    TimeCap = 2
    OverflowChecks = FALSE
INVARIANTS
    AttenuationOnlyRestricts

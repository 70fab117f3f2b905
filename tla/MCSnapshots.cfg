\* An authorizer called, saved and restored in any order.
SPECIFICATION SnapshotSpec
CONSTANTS
    AuthorizerId = authorizer
    NoKey = nokey
    None = none
    Keys = {"k1", "k2"}
    Facts <- MCFacts
    Tokens <- MCTokens
    Contents <- MCContents
    LimitChoices <- MCLimits
    Queries <- MCQueries
    Groups <- MCGroups
    DefaultNames <- MCDefaultNames
    External <- MCExternal
    TimeCap = 2
    OverflowChecks = TRUE
INVARIANTS
    SnapshotsAddNothing
    RestoredIsJustified
    RestoredIsComplete
PROPERTIES
    RestoreIsTransparent

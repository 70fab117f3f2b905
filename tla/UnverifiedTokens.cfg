\* Tokens that also pass through UnverifiedBiscuit, which checks less.
SPECIFICATION Spec
CONSTANTS
    None = none
    Unknown = unknown
    RootKey <- MCRootKey
    Services <- MCServices
    Contents <- MCContents
    Algorithms = {"ed25519", "secp256r1"}
    Forms = {"verified", "unverified"}
    MaxKeyPairs = 3
    MaxTokens = 3
    MaxExchanges = 1
INVARIANTS
    BiscuitsVerify
    ResponsesAreBound
    VersionsNeverDecrease
    

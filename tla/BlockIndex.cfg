\* The error that is documented for the index of a block.
SPECIFICATION Spec
CONSTANTS
    None = none
    Unknown = unknown
    RootKey <- MCRootKey
    Services <- MCServices
    Contents <- MCContents
    Algorithms = {"ed25519"}
    Forms = {"verified"}
    MaxKeyPairs = 2
    MaxTokens = 2
    MaxExchanges = 1
INVARIANT
    InvalidIndexIsAnError

\* The comment on third-party blocks and the main symbol table.
SPECIFICATION Spec
CONSTANTS
    None = none
    Unknown = unknown
    RootKey <- MCRootKey
    Services <- MCServices
    Contents <- FewerContents
    Algorithms = {"ed25519"}
    Forms = {"verified", "unverified"}
    MaxKeyPairs = 3
    MaxTokens = 4
    MaxExchanges = 1
INVARIANT
    BlocksKeepTheirMeaning

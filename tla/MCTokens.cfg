\* Tokens that are made, extended and read back through Biscuit alone.
SPECIFICATION Spec
CONSTANTS
    None = none
    Unknown = unknown
    RootKey <- MCRootKey
    Services <- MCServices
    Contents <- MCContents
    Algorithms = {"ed25519"}
    Forms = {"verified"}
    MaxKeyPairs = 3
    MaxTokens = 4
    MaxExchanges = 1
INVARIANTS
    TypeOK
    RevocationIdsIdentify
PROPERTIES
    ImplementsLedger

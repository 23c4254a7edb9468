SPECIFICATION FairSpec
CONSTANTS
    Tenant <- MCTenant
    None = None
    MaxEvents = 2
    MaxMints = 1
INVARIANTS
    OkMeansProvisioned
    TokenLostOnlyByCut
PROPERTIES
    RetriesProvision

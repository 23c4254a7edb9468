SPECIFICATION FairSpec
CONSTANTS
    N = 3
    Id <- MCId
    Slug <- MCSlug
    MaxEdits = 2
    MaxFaults = 1
INVARIANTS
    TypeOK
    OkMeansServed
    BehindOnlyAfterFailure
    ForeignGateOnlyAfterMove
PROPERTY
    GatesComeUp

SPECIFICATION Spec
CONSTANTS
    Order <- MCOrder
    Globs <- MCGlobs
    None = None
    MaxEvents = 3
INVARIANTS
    OkMeansProvisioned
    BehindOnlyIfOwed

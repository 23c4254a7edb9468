SPECIFICATION DataFairSpec
CONSTANTS
    Order <- MCOrder
    Nodes <- MCNodes
    None = None
    MaxEvents = 2
INVARIANTS
    OkMeansReady
    GapsHaveACause
PROPERTIES
    RetriesProvision

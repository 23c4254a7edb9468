SPECIFICATION FairSpec
CONSTANTS
    u1 = u1
    u2 = u2
    conf = conf
    vhost = vhost
    None = None
    Torn = Torn
    Quadlets <- MCQuadlets
    Configs <- MCConfigs
    Fragments <- MCFragments
    Paths <- MCPaths
    Leaves <- MCLeaves
    HealthUnits <- MCHealth
    ReloadHook = TRUE
    Version = {v1, v2}
    MaxEdits = 1
    MaxFaults = 2
INVARIANTS
    OkMeansDelivered
    RestartedMeansCurrent
    StaleOnlyAfterAbort
    EdgeServesItsFragments
PROPERTIES
    ImplementsReconciler
    FailsOnlyAfterAbort
    NoopRunRestartsNothing
    StartsWithItsInputs
    RetriesDeliverFiles

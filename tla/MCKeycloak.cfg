SPECIFICATION FairSpec
CONSTANTS
    Groups <- MCGroups
    User = {u1, u2}
    None = None
    MaxEvents = 2
INVARIANTS
    OkMeansReconciled
PROPERTIES
    RetriesReconcile

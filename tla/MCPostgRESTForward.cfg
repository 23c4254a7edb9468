SPECIFICATION FairSpec
CONSTANTS
    N = 3
    MaxEdits = 1
    MaxFaults = 0
INVARIANT
    ForwardReachesContainer

SPECIFICATION FairSpec
CONSTANTS
    N = 3
    MaxEdits = 2
    MaxFaults = 1
INVARIANTS
    TypeOK
    OkMeansServed
    OthersDataOnlyAfterFailure
PROPERTY
    RetriesSucceedUnlessClash

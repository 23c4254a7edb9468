SPECIFICATION FairSpec
CONSTANTS
    Order <- MCOrder
    Base = "edge"
    BaseAddr = "eip"
    Pool = {"10.0.0.1", "10.0.0.11"}
    Inside <- MCInside
    None = None
    MaxEvents = 2
INVARIANTS
    OkMeansUp
    ForeignOnlyIfStrayed
PROPERTIES
    RetriesBringUp

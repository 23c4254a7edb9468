SPECIFICATION RolloutSpec
CONSTANTS
    o1 = o1
    o2 = o2
    s1 = s1
    s2 = s2
    r1 = r1
    r2 = r2
    Operator = {o1, o2}
    ApiKeys = 7
    SigningKey = {s1, s2}
    Roster = {r1, r2}
    Unset = Unset
    MaxEvents = 1
SYMMETRY MCSymmetry
INVARIANTS
    RolloutTypeOK
    OkMeansServed
    DeadKeyOnlyAfterInterference
    OneSigningKey

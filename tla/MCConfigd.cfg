SPECIFICATION FairSpec
CONSTANTS
    r1 = r1
    r2 = r2
    k1 = k1
    None = None
    Request = {q1, q2}
    Realm = {r1, r2}
    Key = {k1}
    RealmOf <- MCRealmOf
    TTL = 2
    Timeout = 1
INVARIANTS
    TypeOK
    NoStaleRefusal
PROPERTIES
    AcceptedKeyIsRecent
    MintedForOwnTenant
    AllAnswered

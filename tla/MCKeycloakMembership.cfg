SPECIFICATION Spec
CONSTANTS
    Groups <- MCGroups
    User = {u1, u2}
    None = None
    MaxEvents = 1
INVARIANTS
    MembershipReconciled

SPECIFICATION Spec
CONSTANTS
    Replicas = {p1, p2}
    Lifetimes = {2, 3}
    RefreshThreshold = 1
    MaxTime = 2
    MaxKeys = 2
    Invites = {i1, i2}
    Names = {alice, admin}
    Reserved = {admin}
    Requests = {r1, r2}
    InviteHours = 1
    NoInvite = NoInvite
    MaxEvents = 3
SYMMETRY Symmetry
INVARIANTS TypeOK InviteAccounted SessionKept
PROPERTY AccountNotReplaced
CHECK_DEADLOCK FALSE

CONSTANTS
    u1 = u1
    x1 = x1
    l1 = l1
    t1 = t1
    t2 = t2
    t3 = t3
    h1 = h1
    h2 = h2
    None = None
    Users <- MCUsers
    AdminUsers <- MCAdminUsers
    Sessions <- MCSessions
    Links <- MCLinks
    Tokens <- MCTokens
    Requests <- MCRequests
SPECIFICATION Spec
SYMMETRY Symmetry
INVARIANT TypeOK
INVARIANT OneUse
INVARIANT RotationRetires
INVARIANT OnlyOpenedLinksLogIn
INVARIANT DeletionEndsSessions
INVARIANT TheftEndsSessions
CHECK_DEADLOCK FALSE

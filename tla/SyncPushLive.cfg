CONSTANTS
    u1 = u1
    u2 = u2
    c1 = c1
    c2 = c2
    s1 = s1
    s2 = s2
    r1 = r1
    r2 = r2
    settings = settings
    NoRow = NoRow
    NoUser = NoUser
    SettingsId = settings
    Users <- LiveUsers
    Cars <- LiveCars
    Services <- LiveServices
    Times <- MCTimes
    Requests <- MCRequests
    Pushes <- LivePushes
SPECIFICATION FairSpec
PROPERTY EveryRequestAnswered

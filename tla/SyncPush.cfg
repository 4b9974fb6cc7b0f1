CONSTANTS
    u1 = u1
    u2 = u2
    c1 = c1
    c2 = c2
    s1 = s1
    s2 = s2
    r1 = r1
    r2 = r2
    settings = settings
    NoRow = NoRow
    NoUser = NoUser
    SettingsId = settings
    Users <- MCUsers
    Cars <- MCCars
    Services <- MCServices
    Times <- MCTimes
    Requests <- MCRequests
    Pushes <- MCPushes
SPECIFICATION Spec
SYMMETRY Symmetry
INVARIANT TypeOK
INVARIANT Isolation
PROPERTY AckedPushStored
PROPERTY PushesAreSerial
PROPERTY RowsOnlyGetNewer

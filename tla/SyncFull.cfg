CONSTANTS
    u1 = u1
    u2 = u2
    c1 = c1
    s1 = s1
    d1 = d1
    d2 = d2
    r1 = r1
    r2 = r2
    NoRequest = NoRequest
    Users <- MCUsers
    Cars <- MCCars
    Services <- MCServices
    Owner <- MCOwner
    CarOf <- MCCarOf
    Devices <- MCDevices
    UserOf <- MCUserOf
    Requests <- MCRequests
    Incremental = FALSE
    MaxClock = 2
    MaxFaults = 1
SPECIFICATION FairSpec
PROPERTY EveryChangeArrives

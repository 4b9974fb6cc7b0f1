CONSTANTS
    u1 = u1
    u2 = u2
    c1 = c1
    s1 = s1
    d1 = d1
    d2 = d2
    r1 = r1
    r2 = r2
    NoRequest = NoRequest
    Users <- LiveUsers
    Cars <- MCCars
    Services <- MCServices
    Owner <- MCOwner
    CarOf <- MCCarOf
    Devices <- MCDevices
    UserOf <- LiveUserOf
    Requests <- MCRequests
    Incremental = TRUE
    MaxClock = 4
    MaxFaults = 0
SPECIFICATION Spec
INVARIANT PullGathersAll

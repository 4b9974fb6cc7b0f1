CONSTANTS
    u1 = u1
    u2 = u2
    d1 = d1
    d2 = d2
    t1 = t1
    t2 = t2
    c1 = c1
    j1 = j1
    j2 = j2
    None = None
    Users <- MCUsers
    Devices <- MCDevices
    Tokens <- MCTokens
    Cars <- MCCars
    OwnerOf <- MCOwnerOf
    Jobs <- MCJobs
    Slots = 1
SPECIFICATION FairSpec
INVARIANT TypeOK
INVARIANT SlotsAreHeld
INVARIANT EveryoneElseIsTold
INVARIANT NobodyElseIsTold
PROPERTY RenewedIsKept

PROPERTY SlotsComeBack

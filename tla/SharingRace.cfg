CONSTANTS
    e1 = e1
    e2 = e2
    c1 = c1
    h1 = h1
    h2 = h2
    NoAccount = NoAccount
    NoShare = NoShare
    MaxAccounts = 2
    Emails <- MCEmails
    Cars <- MCCars
    Calls <- MCCalls
SPECIFICATION Spec
SYMMETRY Symmetry
PROPERTY OnlyPendingIsAccepted
CHECK_DEADLOCK FALSE

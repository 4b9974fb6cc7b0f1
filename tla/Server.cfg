CONSTANTS
    id = id
    content = content
    a = a
    b = b
    blank = blank
    s1 = s1
    s2 = s2
    k1 = k1
    None = None
    Statements = 2
    ConfigTable = 2
    Keys <- MCKeys
    IdKeys <- MCIdKeys
    ContentKey = content
    Forms <- MCForms
    Blank <- MCBlank
    Unusable <- MCUnusable
    Saves <- MCSaves
    MaxCrashes = 2
    Clients <- MCClients
    Token = 2
    Capacity = 2
    Rate = 1
    MaxAge = 2
SPECIFICATION FairSpec
INVARIANT TypeOK
INVARIANT SchemaInOrder
INVARIANT StoredIsOneForm
INVARIANT ClientIsStored
PROPERTY ActsAsTokenBucket
PROPERTY StartsAgain

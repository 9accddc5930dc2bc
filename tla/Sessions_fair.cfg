SPECIFICATION FairSpec
CONSTANTS
    Users = {u1}
    Tokens = {t1, t2}
    Reqs = {r1, r2}
    RefreshTTL = 4
    Milli = 2
    MaxTime = 5
    Faults = FALSE
    NoToken = NoToken
    NoPayload = NoPayload
    NoRecord = NoRecord
    Forever = Forever
INVARIANTS
    CookieWorks
PROPERTIES
    ImplementsFairSessionLife

SPECIFICATION Spec
CONSTANTS
    Users = {u1}
    Tokens = {t1, t2, t3}
    Reqs = {r1, r2}
    RefreshTTL = 1
    Milli = 1
    MaxTime = 2
    Faults = FALSE
    NoToken = NoToken
    NoPayload = NoPayload
    NoRecord = NoRecord
    Forever = Forever
INVARIANTS
    EveryRecordExpires

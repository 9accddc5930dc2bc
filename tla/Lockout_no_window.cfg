SPECIFICATION Spec
CONSTANTS
    alice = alice
    ALICE = ALICE
    bob = bob
    ka = ka
    kb = kb
    NoTTL = NoTTL
    NoEmail = NoEmail
    Emails <- OneEmails
    Registered <- OneRegistered
    KeyOf <- OneKeyOf
    Keys = {ka}
    Reqs = {r1, r2}
    MaxLoginFailures = 2
    LockoutWindow = 1
    Second = 3
    GuessCap = 5
    CountCap = 3
    Faults = TRUE
INVARIANTS
    CounterHasWindow

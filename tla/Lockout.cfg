SPECIFICATION ModesSpec
CONSTANTS
    alice = alice
    ALICE = ALICE
    bob = bob
    ka = ka
    kb = kb
    NoTTL = NoTTL
    NoEmail = NoEmail
    Emails <- MCEmails
    Registered <- MCRegistered
    KeyOf <- MCKeyOf
    Keys = {ka, kb}
    Reqs = {r1, r2}
    MaxLoginFailures = 2
    LockoutWindow = 1
    Second = 3
    GuessCap = 5
    CountCap = 3
    Faults = FALSE
INVARIANTS
    TypeOK
    WindowWithoutFaults
    BudgetWithoutFaults
PROPERTIES
    OnlyOwnerOrTimeClears
    RetryAfterIsClose
    LocksEndWithoutFaults

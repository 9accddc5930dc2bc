SPECIFICATION Spec
CONSTANTS
    Emails = {e1, e2}
    Ids = {i1, i2, i3}
    Reqs = {r1, r2, r3}
    Faults = TRUE
    NoEmail = NoEmail
    NoId = NoId
SYMMETRY Symmetry
INVARIANTS
    TypeOK
PROPERTIES
    ImplementsAtomicRegister

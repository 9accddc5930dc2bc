SPECIFICATION Spec
CONSTANTS
    Users = {u1}
    Roles = {user, admin}
    Gone = Gone
    Requests = {q1}
    Clients = {c1}
    Idle = Idle
    NoToken = NoToken
    TTL = 1
    WriteTimeout = 1
    Skew = 1
    MaxTime = 5
INVARIANTS
    TypeOK
PROPERTIES
    ImplementsRoleLease

SPECIFICATION FairSpec
CONSTANTS
    Replicas = {a1, a2}
    Reqs = {q1, q2}
    Retries = 2
    Versions = 2
    Nobody = Nobody
INVARIANTS
    TypeOK
    DrainIsComplete
    SchemaReady
PROPERTIES
    ExitCutsNoQuery
    StopsWhenTold
    StartupSettles

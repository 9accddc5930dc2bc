SPECIFICATION Spec
CONSTANTS
    Workers = {w1, w2}
    Cap = 1
    Warmup = 1
    Duration = 2
    Setup = 0
    Strikes = 2
    MaxTime = 4
    Idle = Idle
    Exited = Exited
CHECK_DEADLOCK FALSE
INVARIANTS
    VerdictCountsWhatWasSent

SPECIFICATION Spec
CONSTANTS
    Plans <- MCPlans
    N = 2
    Loads = {0, 3}
    Latencies = {10, 60}
    Timeout = 100
    Lags = {30}
    Warmup = 1
    Duration = 1
    Drift = 1
    MaxEvents = 2
    MaxCounts = 1100
    MaxTime = 4
    None = None
CHECK_DEADLOCK FALSE
INVARIANTS
    TypeOK
    SummaryAddsUp
    NothingFlatters
    CpuFiguresWereRead
    RanksAreNearest

SPECIFICATION RunSpec
CONSTANTS
    Workers = {w1, w2}
    Cap = 1
    Warmup = 1
    Duration = 2
    Setup = 1
    Strikes = 2
    MaxTime = 3
    Idle = Idle
    Exited = Exited
    Users = 2
    Addresses = 1
    Accounts = 1
    Ramp = 2
    Cooldown = 6
    Naps = {2}
    Timeout = 1
    Window = 4
    Limit = 2
    ClosedWarmup = 0
    ClosedDuration = 2
    ClosedTime = 20
    Replicas = {r1, r2}
    Threshold = 3
    Samples = 1
    Discarded = 1
    Probes = {0, 8}
    Fallback = 12
    Lookups = {1}
    Verifies = {7, 12}
    Records = {1}
CHECK_DEADLOCK FALSE
INVARIANTS
    WellTyped
    EverySlotOnce
    FullRunMissesOnlySetup
    EverySendKept
    DeadlineCutsNothing
    ComputeUnthrottled
    PathsTakeTheSameTime
    NeverStoppedByALock
PROPERTIES
    AbortsOnlyWhenBehind
    EveryRunEnds

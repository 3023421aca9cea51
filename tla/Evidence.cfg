SPECIFICATION FairSpec
CONSTANTS
    NoOne = NoOne
    Refs = {r1}
    EvWorkers = {w1, w2}
    Lease = 2
    MaxAttempts = 2
    BackoffBase = 1
    BackoffMax = 1
    JitterPct = 0
    BatchSize = 1
    MaxCycle = 3
    MaxFaults = 2
INVARIANTS
    OnePackagePerRequest
PROPERTIES
    RightfulMoves
    ResolvedOrStuck

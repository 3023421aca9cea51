SPECIFICATION FairSpec
CONSTANTS
    NoOne = NoOne
    Lease = 1
    MaxAttempts = 1
    BackoffBase = 1
    BackoffMax = 1
    JitterPct = 0
    BatchSize = 1
    MaxLag = 0
    Count = 2
    ClaimIdle = 2
    Events = {e1, bad}
    Malformed = {bad}
    Bridges = {b1}
    MaxStream = 2
    MaxFaults = 1
PROPERTIES
    StuckIsRedelivered

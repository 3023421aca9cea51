SPECIFICATION FairSpec
CONSTANTS
    NoOne = NoOne
    BackoffBase = 1
    BackoffMax = 1
    JitterPct = 0
    Count = 2
    ClaimIdle = 1
    Lease = 2
    MaxAttempts = 2
    BatchSize = 1
    MaxLag = 0
    Events = {e1, e2, e3}
    Foreign = {e2, e3}
    Malformed = {e2}
    Registered = {e1}
    Wired = {e1}
    Workers = {w1}
    Bridges = {b1}
    Consumers = {c1, c2}
    Resends = 0
    MaxFaults = 1
INVARIANTS
    PublishedIsInFlight
PROPERTIES
    ImplementsExactlyOnce
    EventuallyDelivered

SPECIFICATION FairSpec
CONSTANTS
    NoOne = NoOne
    Events = {e1, e2}
    Workers = {w1, w2}
    Lease = 2
    MaxAttempts = 2
    BackoffBase = 2
    BackoffMax = 2
    JitterPct = 50
    BatchSize = 2
    MaxLag = 1
    Resends = 0
    MaxFaults = 1
PROPERTIES
    LeaseIsExclusive
    OnlyOwnerSettles
    TerminalIsFinal
    BudgetSpentBeforeBurial
    EventuallySettled

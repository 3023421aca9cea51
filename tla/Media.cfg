CONSTANTS
    Media = {1, 2}
    Requests = {r1, r2}
    Workers = {w1}
    Keys = {k1}
    Held = {2}
    Temporary = {1}
    BatchSize = 2
    MaxCrashes = 1
    OrphanDeletion = TRUE
    None = None
SPECIFICATION Spec
INVARIANTS
    OneMediaPerKey
PROPERTIES
    FollowsMediaLifecycle
    BytesAreKept
    EverythingIsSettled
CHECK_DEADLOCK FALSE

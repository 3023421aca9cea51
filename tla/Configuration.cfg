SPECIFICATION Spec
CONSTANTS
    r1 = r1
    r2 = r2
    camera = camera
    zone = zone
    nothing = nothing
    Requests = {r1, r2}
    MaxVersions = 2
    Entities = {camera}
    NumTables = 1
    TableOf <- OneTable
    Acceptable <- OnlyCamera
    NoResult <- Unchecked
    ResultStored = TRUE
INVARIANTS
    PublicationsAreSerial
PROPERTIES
    FollowsLifecycle
    EveryRequestEnds

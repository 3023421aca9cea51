SPECIFICATION Spec
CONSTANTS
    a = a
    b = b
    None = None
    Bad = Bad
    ReorderWindow = 1
    EntryConfirmation = 1
    ExitConfirmation = 1
    MinimumDwell = 0
    ExitGrace = 0
    OcclusionTolerance = 0
    MoveThreshold = 0
    MoveEnter = 1
    MoveExit = 1
    MoveQualification = 0
    WaitQualification = 0
    WaitingContext = TRUE
    DwellMinimum = 1
    EngineVersion = "v1"
    Revision = "r1"
    Aggregate = "aggregate"
    Tracks = {a, b}
    Timed = {a}
    Distances = {0, 2}
    Session = "s1"
    Cfg = "c1"
    Zone = "z1"
    Configurations <- MCConfigurations
    MaxTime = 2
    MaxLog = 4
    MaxCrashes = 1
INVARIANTS
    EpisodesKeepTheirEvents
    ReportedWhileOpen
    LinkedToItsRequest
    MachinesEmitCleanFacts
PROPERTIES
    ReplayAddsNothing
CHECK_DEADLOCK FALSE

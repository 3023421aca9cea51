SPECIFICATION TemporalSpec
CONSTANTS
    None = None
    ReorderWindow = 1
    EntryConfirmation = 2
    ExitConfirmation = 2
    MinimumDwell = 2
    ExitGrace = 1
    OcclusionTolerance = 1
    MoveThreshold = 0
    MoveEnter = 1
    MoveExit = 1
    MoveQualification = 1
    WaitQualification = 1
    WaitingContext = TRUE
    Tracks = {a, b}
    Timed = {a}
    Distances = {0, 1, 2}
    Horizon = 2
    MaxAdvance = 1
INVARIANTS
    MachinesAgree
    CountsWhoIsPresent

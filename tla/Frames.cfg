SPECIFICATION VisionSpec
CONSTANTS
    MaxFrames = 3
    QueueSize = 1
    MaxAttempts = 1
    MaxDecodeErrors = 2
    Failures <- Errors
    None = None
    Untracked = Untracked
    Registry <- MCRegistry
    Artifacts <- MCArtifacts
    MaxDetections = 1
    MaxTracks = 2
    AllowClassSwitch = FALSE
    Equipment <- MCEquipment
    Hosts <- MCHosts
    Outputs <- MCOutputs
    Skew = 2
INVARIANTS
    FramesAccounted
    RunIsTruthful
PROPERTIES
    ObservationsAreSound
    RunEnds

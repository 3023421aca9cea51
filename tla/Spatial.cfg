SPECIFICATION SpatialSpec
CONSTANTS
    None = None
    Unit = 4
    CameraStatus <- MCCameraStatus
    Physical = "camera"
    MaxFrames = 3
    Spaces = {"venue_local", "image_normalized"}
    Layouts <- MCContents
    Positions <- MCPositions
INVARIANTS
    ValidatedEvaluates
    PrivacyIsSupreme
    CrossingsBalance
CHECK_DEADLOCK FALSE

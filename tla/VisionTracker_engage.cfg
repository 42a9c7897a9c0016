SPECIFICATION Spec
CONSTANTS
    Ids <- MCIds
    OutpostId = 6
    RMin = 12
    RInit = 25
    RMax = 35
    MaxMatchDistance = 20
    MaxMatchYawDiff = 3
    JumpYawDiff = 4
    MaxTrackingW = 6
    TrackingThresh = 2
    Observations <- MCObservations
    TransferThresh = 2
    SpinSpeeds <- MCSpinSpeeds
    FireInterval = 5
    ControllerDelay = TRUE
    Gaps <- MCGaps
    LostTime = 6
INVARIANTS
    TypeOK
    CountersMatchState
    TrackedIsConfirmed
    BlindBounded
    GeometryKept
    FireSpaced
    ModeFollowsSpin
PROPERTIES
    ModeSwitchJustified
    ImplementsEngagement

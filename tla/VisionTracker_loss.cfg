SPECIFICATION FairSpec
CONSTANTS
    Ids <- MCIds
    OutpostId = 6
    RMin = 12
    RInit = 25
    RMax = 35
    MaxMatchDistance = 20
    MaxMatchYawDiff = 3
    JumpYawDiff = 4
    MaxTrackingW = 6
    TrackingThresh = 1
    Observations <- MCMatchOrMiss
    TransferThresh = 0
    SpinSpeeds <- MCFast
    FireInterval = 0
    ControllerDelay = FALSE
    Gaps <- MCGaps
    LostTime = 14
PROPERTIES
    LossIsResolved

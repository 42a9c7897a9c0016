SPECIFICATION FairSpec
CONSTANTS
    Ports = 1
    Supported <- MCSupported
    Default = "115200-8N1"
    NodeSettings <- MCEither
    DataSize = 4
    Looks <- MCLooks
    Chunks <- MCChunks
    MaxFrames = 3
    MaxLost = 1
INVARIANTS
    DeliveredIsSent
PROPERTIES
    EveryFrameArrives
CHECK_DEADLOCK FALSE

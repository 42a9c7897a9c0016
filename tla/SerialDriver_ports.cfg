SPECIFICATION Spec
CONSTANTS
    Ports = 4
    Supported <- MCSupported
    Default = "115200-8N1"
    NodeSettings <- MCAny
    DataSize = 2
    Looks <- MCNone
    Chunks <- MCChunks
    MaxFrames = 1
    MaxLost = 0
INVARIANTS
    PortSound
CHECK_DEADLOCK FALSE

SPECIFICATION FairSpec
CONSTANTS
    MaxOrphans <- MCOrphans
INVARIANTS
    HandleSound
PROPERTIES
    StreamIsLeftAlone
    Connects

SPECIFICATION Spec
CONSTANTS
    Shows <- MCShows
    NoScene = "nothing"
    Images <- MCImages
    ColorParams <- MCColorParams
    Patterns <- MCPatterns
    MaxDetection = 2
    LostCounts <- MCLostCounts
INVARIANTS
    DescribesOneArmor

SPECIFICATION Spec
CONSTANTS
    Places <- MCPlaces
    Rests <- MCOneRest
    Rvecs = {r1, r2}
    Ids = {6}
    OptimizeLength = 5
    MaxDifference = 2
INVARIANTS
    WindowCoherent
PROPERTIES
    SteadyIsReported
    ImplementsSteadyReports

SPECIFICATION FairSpec
CONSTANTS
    FpsCycle = 3
    Second = 2
    Timeout = 7
    MinRate = 2
    MaxRate = 3
    StartTicks <- MCStart
    BootTicks = 1
    CtorTicks = 2
    Layout <- InTerminals
    FirstGuard = "home"
INVARIANTS
    OneGuardActs
    WindowsSound
PROPERTIES
    HealthyIsLeftAlone
    Recovers

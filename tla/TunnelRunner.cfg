SPECIFICATION FairSpec
CONSTANTS
    FailThreshold <- MCFailThreshold
    MaxShift <- MCMaxShift
    MaxRecent <- MCMaxRecent
INVARIANTS
    RunningIsBacked
    HealthFlagMatches
PROPERTIES
    NoOverlap
    ImplementsLifecycle
    CancelTerminates
    RestartHonoured
    OutageIsRetried

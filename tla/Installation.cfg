SPECIFICATION FairSpec
CONSTANTS
    Versions = {v1, v2}
    Nothing = Nothing
    Teardowns = {0, 1, 49, 51, 70, 71}
    Lingers = {0, 10, 20, 21}
INVARIANTS
    InstallRidesOutTeardown
PROPERTIES
    InstalledMeansRunning
    CommandsEnd

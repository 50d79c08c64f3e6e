SPECIFICATION FairSpec
CONSTANTS
    Names <- MCNames
    Forwards <- MCForwards
    Ports <- MCPorts
    Configs <- MCConfigs
    MaxGen = 2
INVARIANTS
    RegistryMatchesConfig
    RetiredAreStopped
    StopLeavesNothing
PROPERTIES
    StopTerminates
    RetiredReleasesPort

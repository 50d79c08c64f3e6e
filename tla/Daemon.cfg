SPECIFICATION FairSpec
CONSTANTS
    Files <- MCFiles
    Boot <- Two
    None = None
    Names <- MCNames
    Hosts <- MCHosts
    toKey <- MCtoKey
    Ports = {1, 2}
    Handlers = {h1}
    SignalLoop = SignalLoop
    Clients = {c1}
    NoOne = NoOne
    MaxEdits = 1
INVARIANTS
    SettledRoutes
PROPERTIES
    ForwardedToOwnTunnel
    LoneReloadAgrees
    ReloadKeepsUnchanged
    HupApplied
CHECK_DEADLOCK FALSE

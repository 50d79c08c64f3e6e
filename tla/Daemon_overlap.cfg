SPECIFICATION Spec
CONSTANTS
    Files <- MCFiles
    Boot <- Two
    None = None
    Names <- MCNames
    Hosts <- MCHosts
    toKey <- MCtoKey
    Ports = {1, 2}
    Handlers = {h1}
    SignalLoop = SignalLoop
    Clients = {}
    NoOne = NoOne
    MaxEdits = 1
INVARIANT RoutesFollowRunners
CHECK_DEADLOCK FALSE

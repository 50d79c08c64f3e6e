SPECIFICATION FairSpec
CONSTANTS
    Snapshots <- MCSnapshots
    NoTunnel = "-"
    Entries <- MCEntries
    Accepted <- MCAccepted
    NoText = ""
    Searches = {"timeout"}
    Filters = {"level:error"}
    maxEntries = 2
    WireCap = 1
INVARIANTS
    PaneIsCurrent
PROPERTIES
    SelectionFollowsTunnel
    StatusShown

SPECIFICATION Spec
CONSTANTS
    Writers = {w1, w2}
    Readers = {r1}
    Tunnels = {"web"}
    NoTunnel = ""
    AskedFor = {"web", "gone"}
    Levels = {"info", "error"}
    Filters = {{"error"}, {"info", "error"}}
    Tails = {1, 2}
    tunnelCap = 2
    MaxWrites = 2
INVARIANTS
    NothingLost
    AnswerMissesOldest

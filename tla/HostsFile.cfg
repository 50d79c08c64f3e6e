SPECIFICATION Spec
CONSTANTS
    HostLists <- MCHostLists
    Foreign = {"x", "y", "xCR", "blank", "quotes"}
    MaxForeign = 2
    MaxCalls = 3
    MaxEdits = 1
INVARIANTS
    OutsideKept
    BlockIsWanted
    Idempotent
CHECK_DEADLOCK FALSE

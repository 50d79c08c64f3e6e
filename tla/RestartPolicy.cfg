SPECIFICATION Spec
CONSTANTS
    Lasting = {0, 120, 1201}
    Jitters = {3}
    MaxTouched = 1
INVARIANTS
    UntouchedLoopNeverFails
PROPERTY FailingIsEarned

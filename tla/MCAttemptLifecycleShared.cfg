SPECIFICATION FairSpec
CONSTANTS
    a1 = a1  a2 = a2
    Attempts = {a1, a2}
    Capacity = 1
    Pooled = TRUE
    Prewarms = TRUE
    Patches = {"none"}
    Untouched = "none"
    Allowed = {}
    NoPatch = "no patch"
    MaxCrashes = 1
INVARIANT ResidualsCharged
PROPERTY AbortEnds
CHECK_DEADLOCK FALSE

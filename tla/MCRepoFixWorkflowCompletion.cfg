SPECIFICATION FairSpec
CONSTANTS
    Trees = {base, good, unsafe}
    Baseline = base
    Unsafe = {unsafe}
    None = None
    base = base
    good = good
    unsafe = unsafe
    WithLocalize = FALSE
    MaxRequests = 9
    MaxFaults = 2
PROPERTY OneTurnPerRecovery
CHECK_DEADLOCK FALSE

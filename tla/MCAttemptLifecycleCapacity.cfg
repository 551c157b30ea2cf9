SPECIFICATION Spec
CONSTANTS
    a1 = a1  a2 = a2
    Attempts = {a1, a2}
    Capacity = 1
    Pooled = FALSE
    Prewarms = FALSE
    Patches = {"none"}
    Untouched = "none"
    Allowed = {"none"}
    NoPatch = "no patch"
    MaxCrashes = 0
SYMMETRY MCSymmetry
INVARIANT WithinCapacity
CHECK_DEADLOCK FALSE

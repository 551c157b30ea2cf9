SPECIFICATION Spec
CONSTANTS
    a1 = a1  a2 = a2
    k1 = k1  k2 = k2
    Nobody = Nobody  Closer = Closer  Background = Background
    Attempts = {a1, a2}
    Keys = {k1, k2}
    Environment <- MCEnvironment
    Capacity = 2
    Limit = 2
    MaxOwners = 5
    MaxFaults = 1
    Inherited <- MCInherited
INVARIANTS OneUser AliveIsCharged AbortedHoldsNothing SleepersAreAwaited
SYMMETRY MCSymmetry
CHECK_DEADLOCK FALSE

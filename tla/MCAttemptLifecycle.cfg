SPECIFICATION Spec
CONSTANTS
    a1 = a1  a2 = a2
    Attempts = {a1}
    Capacity = 1
    Pooled = FALSE
    Prewarms = TRUE
    Patches = {"none", "bad", "fix", "better"}
    Untouched = "none"
    Allowed = {"fix", "better"}
    NoPatch = "no patch"
    MaxCrashes = 2
INVARIANTS GradedAsSealed EndedOwnsNothing
CHECK_DEADLOCK FALSE

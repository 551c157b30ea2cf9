SPECIFICATION FairSpec
CONSTANTS
    r1 = r1  r2 = r2
    m1 = m1  m2 = m2  m3 = m3
    None = None  Nobody = Nobody  Caller = Caller
    Runs = {r1, r2}
    Messages = {m1, m2}
    OneAtATime = TRUE
    Reentrant = FALSE
    MaxTurns = 1
    MaxStructural = 1
    MaxFaults = 1
INVARIANTS ContextIsBranch DeliveredOnce ReopenSameLeaf
PROPERTIES BranchGrows IdleAgain
CHECK_DEADLOCK FALSE

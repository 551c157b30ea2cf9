\* Three identities, a baseline, two slots, a queue of two.
CONSTANTS
    A1 = A1
    A2 = A2
    W1 = W1
    Owners <- ThreeOwners
    Resources <- ResourceNames
    Stages <- RoleStages
    Limit <- TwoResources
    Baseline <- UnitBaseline
    MaxActive = 2
    MaxWaiting = 2
    ExclusiveOwners = TRUE
    NoReservation = NoReservation
    NoCall = NoCall
SPECIFICATION FairSpec
INVARIANTS WithinBudget NoLostWakeup
PROPERTIES AdmitsInOrder CancelledGainsNothing AbstractSpec SleepersLeave

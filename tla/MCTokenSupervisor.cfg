SPECIFICATION FairSpec
CONSTANTS
    q1 = q1  q2 = q2  q3 = q3
    a = a  b = b
    Requests = {q1, q2, q3}
    Runs = {a, b}
    RunOf <- MCRunOf
    RunCap = 4
    ProjectCap = 6
    Estimates = {2, 3}
    Costs = {0, 3}
    MaxFaults = 2
INVARIANTS SpendingWithinCaps FileCoversBilling
PROPERTIES StreamsEnd
CHECK_DEADLOCK FALSE

SPECIFICATION FairSpec
CONSTANTS
    o1 = o1  o2 = o2
    tool = tool  other = other  abort = abort
    a1 = a1
    t1 = t1  t2 = t2 t3 = t3
    Operations = {o1, o2}
    Requests = {tool, other, abort}
    Threads = {t1, t2, t3}
    Attempts = {a1}
    AttemptOf <- MCAttemptOf
    Submissions <- MCSubmissions
    Responses <- MCOneResponse
    Aborts = {abort}
    Restarted = "controller_restarted"
    NoResponse = NoResponse
    NoRecord = NoRecord
    NoState = NoState
    Garbled = Garbled
    Faults <- SurvivedFaults
    MaxCrashes = 1
INVARIANTS AttemptSerial AlwaysLoadable AnswersAreFinal
PROPERTY KeepsPromise EveryCallReturns
CHECK_DEADLOCK FALSE

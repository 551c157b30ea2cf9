SPECIFICATION ToolsFairSpec
CONSTANTS
    r1 = r1  r2 = r2
    NoRun = NoRun
    AgentRuns = {r1, r2}
    N = 2
    MaxUpdates = 1
    MaxRaised = 2
INVARIANT ResultsInOrder
PROPERTIES AbortedNeverStarts RunsSettle
CHECK_DEADLOCK FALSE

--------------------------- MODULE MCRuntimeWrites ---------------------------
EXTENDS RuntimeWrites

CONSTANTS o1, o2, tool, other, abort, a1

\* o1 is sent with two requests, o2 aborts the same attempt.
MCAttemptOf == [r \in Requests |-> a1]
MCSubmissions == {<<o1, tool>>, <<o1, other>>, <<o2, abort>>}
MCOneResponse == {"completed", "controller_restarted"}
SurvivedFaults == {"lost", "unsynced"}
=============================================================================

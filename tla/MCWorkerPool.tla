---------------------------- MODULE MCWorkerPool ----------------------------
(* A small pool for WorkerPool: the runs name their attempts and keys.       *)
EXTENDS WorkerPool, TLC

CONSTANTS a1, a2, k1, k2

MCEnvironment == (a1 :> k1) @@ (a2 :> k1)

\* The attempts want the same environment, and are interchangeable.
MCSymmetry == Permutations({a1, a2})

MCInherited == {<<>>, <<k1, k2>>, <<k2, k2>>}
=============================================================================

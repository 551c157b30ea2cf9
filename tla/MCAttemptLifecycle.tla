-------------------------- MODULE MCAttemptLifecycle -------------------------
(* Small machines for AttemptLifecycle: the runs name their attempts.        *)
EXTENDS AttemptLifecycle, TLC

CONSTANTS a1, a2

\* The attempts are interchangeable where nothing is said about fairness.
MCSymmetry == Permutations({a1, a2})
=============================================================================

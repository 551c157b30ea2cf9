-------------------------- MODULE MCTokenSupervisor --------------------------
(* Three requests of two runs, with caps that one of each run exhausts.      *)
EXTENDS TokenSupervisor, TLC

CONSTANTS q1, q2, q3, a, b

MCRunOf == (q1 :> a) @@ (q2 :> a) @@ (q3 :> b)
MCSymmetry == Permutations({q1, q2})
=============================================================================

---------------------------- MODULE MCAgentHarness ----------------------------
(* Two runs and two messages, which start them or reach them on any other way. *)
EXTENDS AgentHarness

CONSTANTS r1, r2, m1, m2, m3

MCSymmetry == Permutations({r1, r2}) \cup Permutations({m1, m2, m3})
=============================================================================

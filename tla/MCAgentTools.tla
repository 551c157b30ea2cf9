----------------------------- MODULE MCAgentTools -----------------------------
(* Two runs of two calls: a call of the first can outlive it into the second.   *)
EXTENDS AgentTools, TLC

CONSTANTS r1, r2
=============================================================================

-------------------------- MODULE MCRepoFixWorkflow --------------------------
(* The six stages without LOCALIZE over three trees, one of them unsafe.      *)
EXTENDS RepoFixWorkflow, TLC

CONSTANTS base, good, unsafe
=============================================================================

----------------------------- MODULE MCBatchRunner -----------------------------
EXTENDS BatchRunner
=============================================================================

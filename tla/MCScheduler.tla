----------------------------- MODULE MCScheduler -----------------------------
(* Small instances of Scheduler for TLC; liveness rules out symmetry.        *)
EXTENDS Scheduler
=============================================================================

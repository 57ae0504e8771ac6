------------------------------- MODULE MCCron -------------------------------
(* Model-checking instances of Cron: executions are interchangeable. *)
EXTENDS Cron, TLC

Symmetry == Permutations(Runs) \cup Permutations(Jobs)
=============================================================================

--------------------------- MODULE MCDeployLease ---------------------------
(* Model-checking instances of DeployLease.  Ordinary requests, and the two
   brokers (production and nonproduction), are interchangeable. *)
EXTENDS DeployLease

(* What follows a robbery is outside the conditional properties (DeployLeaseSafe). *)
Unrobbed == ~robbed

Symmetry == Permutations(Brokers) \cup Permutations(Production) \cup Permutations(Requests \ Production)
=============================================================================

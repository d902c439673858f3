----------------------------- MODULE MCRecovery -----------------------------
(* Small instances of Recovery for TLC.                                     *)
EXTENDS Recovery, TLC

CONSTANTS i1, i2, e1, e2

SymmetricExecutors == Permutations(Executors)
SymmetricIncidents == Permutations(Incidents)
=============================================================================

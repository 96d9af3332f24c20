-------------------------- MODULE MCWorkerManager --------------------------
(* WorkerManager.tla on small instances. *)
EXTENDS WorkerInvariants, TLC

\* Instances are interchangeable in every property.
InstanceSymmetry == Permutations(Instances)
=============================================================================

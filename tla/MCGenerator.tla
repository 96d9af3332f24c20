---------------------------- MODULE MCGenerator ----------------------------
(* Generator.tla on small instances. *)
EXTENDS Generator, TLC

\* Callers are interchangeable: no property looks at which one got which ID.
CallerSymmetry == Permutations(Callers)
=============================================================================

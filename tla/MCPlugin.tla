------------------------------ MODULE MCPlugin -----------------------------
(* Plugin on small instances. *)
EXTENDS Plugin, TLC

\* Processes and callers are interchangeable in every property.
ProcessSymmetry == Permutations(Plugins) \union Permutations(Callers)
=============================================================================

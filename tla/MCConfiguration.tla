-------------------------- MODULE MCConfiguration --------------------------
(* Configuration.tla on boundary values. *)
EXTENDS Configuration
=============================================================================

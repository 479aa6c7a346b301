-------------------------- MODULE MCContextRestore --------------------------
(* Instances of ContextRestore for TLC. *)
EXTENDS ContextRestore, TLC
=============================================================================

---------------------------- MODULE MCMcpPolling ----------------------------
(* Instances of McpPolling for TLC. *)
EXTENDS McpPolling, TLC
=============================================================================

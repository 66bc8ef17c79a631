--------------------------- MODULE MCOrchestrator ---------------------------
(* An instance of Orchestrator for TLC. *)
EXTENDS Orchestrator
=============================================================================

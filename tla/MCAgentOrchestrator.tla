------------------------- MODULE MCAgentOrchestrator -------------------------
(* Instances of AgentOrchestrator for TLC: two processes of the application. *)
EXTENDS AgentOrchestrator
=============================================================================

------------------------- MODULE MCCanarySubmission -------------------------
(* Two runs of the canary over two executions and three sessions of one job. *)
(* No symmetry: ClaimSettles is a liveness property.                        *)
EXTENDS CanarySubmission
=============================================================================

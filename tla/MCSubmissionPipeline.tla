------------------------ MODULE MCSubmissionPipeline ------------------------
(* Instances of SubmissionPipeline for TLC. *)
EXTENDS SubmissionPipeline, TLC

Symmetric == Permutations(Executions) \cup Permutations(Jobs) \cup Permutations(Clicks) \cup Permutations(Workers)

=============================================================================

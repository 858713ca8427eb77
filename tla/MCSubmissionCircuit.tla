------------------------ MODULE MCSubmissionCircuit ------------------------
(* Instances of SubmissionCircuit for TLC: three workers and two slots for   *)
(* the promises, two workers and one slot for the two ways to lose a probe   *)
(* or a slot.                                                                *)
EXTENDS SubmissionCircuit
=============================================================================

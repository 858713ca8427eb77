--------------------------- MODULE ExecutionModel ---------------------------
(***************************************************************************)
(* The vocabulary of the application executor: the statuses of a row of    *)
(* application_executions (ExecutionStatus), the coarse state of a row of  *)
(* jobs (ApplicationState), which statuses end an execution, which ones    *)
(* the queue may claim, and how a status is mirrored onto the job row.     *)
(* Statuses that no code path ever writes to an execution                  *)
(* (SUBMISSION_CONFIRMED, SUBMISSION_FAILED, FORM_MAPPED) are left out.    *)
(***************************************************************************)

(* A definition marked MUTANT is a plausible bug of the definition after it: *)
(* the runs are checked to find it.                                          *)

NoStatus == "NONE"          \* the row does not exist yet

ExecutionStatus ==
  {"QUEUED", "STARTED", "FORM_DISCOVERED", "FORM_FILLED",
   "VALIDATION_REQUIRED", "NEEDS_USER_ACTION", "SUBMISSION_READY", "APPROVED",
   "SUBMITTING", "SUBMITTED", "APPLIED", "RETRYABLE_SUBMISSION_FAILURE",
   "PERMANENT_SUBMISSION_FAILURE", "DUPLICATE_APPLICATION_BLOCKED",
   "WITHDRAWN", "SUBMISSION_STATUS_UNKNOWN", "JOB_NO_LONGER_ACTIVE",
   "USER_COMPLETED_EXTERNALLY"}

\* MUTANT: what the comment above TERMINAL_STATUSES says.
TerminalAsCommented ==
  {"APPLIED", "PERMANENT_SUBMISSION_FAILURE", "DUPLICATE_APPLICATION_BLOCKED",
   "WITHDRAWN", "JOB_NO_LONGER_ACTIVE", "USER_COMPLETED_EXTERNALLY",
   "RETRYABLE_SUBMISSION_FAILURE", "SUBMISSION_STATUS_UNKNOWN"}

\* Reaching one of these flips application_executions.active to 0.
TerminalStatuses ==
  {"APPLIED", "PERMANENT_SUBMISSION_FAILURE", "DUPLICATE_APPLICATION_BLOCKED",
   "WITHDRAWN", "JOB_NO_LONGER_ACTIVE", "USER_COMPLETED_EXTERNALLY"}

\* MUTANT: the phase 8 set, which strands whatever a crash leaves behind.
ClaimableOnlyQueued == {"QUEUED"}

\* Statuses a worker can leave behind in the middle of the pipeline.
ClaimableStatuses ==
  {"QUEUED", "STARTED", "FORM_DISCOVERED", "FORM_FILLED", "SUBMITTING",
   "SUBMITTED", "RETRYABLE_SUBMISSION_FAILURE"}

\* MUTANT: the guard forgets the moment before the answer.
InFlightOnlySubmitted == {"SUBMITTED"}

\* provider.submit() may have been called and its answer is not recorded yet.
InFlightStatuses == {"SUBMITTING", "SUBMITTED"}

HandoffStatuses == {"APPROVED", "NEEDS_USER_ACTION"}

\* Statuses whose executions feed the submission circuit.
SubmitAttemptedStatuses ==
  {"SUBMITTED", "APPLIED", "SUBMISSION_STATUS_UNKNOWN", "PERMANENT_SUBMISSION_FAILURE",
   "RETRYABLE_SUBMISSION_FAILURE"}

(***************************************************************************)
(* ApplicationState.  READY_TO_APPLY stands also for REVIEW_REQUIRED,      *)
(* INTERVIEW for every state after APPLIED that is not a dead end          *)
(* (ASSESSMENT, INTERVIEW, OFFER), and SKIPPED for the SKIPPED_* family,   *)
(* CLAIM_VALIDATION_FAILED and REJECTED: the executor treats the members   *)
(* of each group alike.                                                    *)
(***************************************************************************)
JobStates ==
  {"READY_TO_APPLY", "EXECUTION_QUEUED", "NEEDS_USER_ACTION", "APPROVED",
   "SUBMITTING", "SUBMISSION_STATUS_UNKNOWN", "SUBMISSION_FAILED", "APPLIED",
   "INTERVIEW", "WITHDRAWN", "DUPLICATE_APPLICATION_BLOCKED",
   "JOB_NO_LONGER_ACTIVE", "COMPLETED_BY_USER", "SKIPPED"}

\* _JOB_STATE_MIRROR: the statuses with an image, and the image.
MirroredStatuses == ExecutionStatus \ {"FORM_DISCOVERED", "FORM_FILLED"}

MirrorOf(s) ==
  CASE s \in {"QUEUED", "STARTED", "SUBMISSION_READY"} -> "EXECUTION_QUEUED"
    [] s \in {"VALIDATION_REQUIRED", "NEEDS_USER_ACTION"} -> "NEEDS_USER_ACTION"
    [] s \in InFlightStatuses -> "SUBMITTING"
    [] s \in {"RETRYABLE_SUBMISSION_FAILURE", "PERMANENT_SUBMISSION_FAILURE"} ->
         "SUBMISSION_FAILED"
    [] s = "USER_COMPLETED_EXTERNALLY" -> "COMPLETED_BY_USER"
    [] OTHER -> s

\* Job states evaluate_executor_eligibility refuses for good, and accepts.
TerminalSkipStates ==
  {"SKIPPED", "WITHDRAWN", "DUPLICATE_APPLICATION_BLOCKED", "APPLIED"}

QueueableStates ==
  {"READY_TO_APPLY", "EXECUTION_QUEUED", "NEEDS_USER_ACTION", "APPROVED",
   "SUBMISSION_STATUS_UNKNOWN", "SUBMISSION_FAILED"}

\* The manual moves the tracker board offers from each job state.
ManualTransitions(s) ==
  CASE s = "READY_TO_APPLY" -> {"APPLIED", "SKIPPED"}
    [] s \in {"EXECUTION_QUEUED", "SUBMISSION_STATUS_UNKNOWN", "APPROVED"} ->
         {"APPLIED", "SKIPPED", "WITHDRAWN"}
    [] s = "NEEDS_USER_ACTION" ->
         {"READY_TO_APPLY", "APPLIED", "SKIPPED", "WITHDRAWN"}
    [] s = "SUBMITTING" -> {"APPLIED", "SUBMISSION_STATUS_UNKNOWN"}
    [] s = "SUBMISSION_FAILED" -> {"READY_TO_APPLY", "SKIPPED"}
    [] s = "DUPLICATE_APPLICATION_BLOCKED" -> {"SKIPPED"}
    [] s = "APPLIED" -> {"INTERVIEW", "SKIPPED", "WITHDRAWN"}
    [] s = "INTERVIEW" -> {"APPLIED", "SKIPPED", "WITHDRAWN"}
    [] OTHER -> {}
=============================================================================

------------------------- MODULE SubmissionPipeline -------------------------
(***************************************************************************)
(* The application executor: the execution queue and its leases            *)
(* (applications/queue.py), the pipeline every execution goes through      *)
(* (applications/executor.py), the application worker that drives it       *)
(* (applications/worker.py), the dashboard requests that drive it without  *)
(* a lease (Prepare, Retry, APPROVE & APPLY), and the human resolutions of *)
(* an execution (applications/reconcile.py, handoff.py, tracker.py).       *)
(*                                                                         *)
(* A process is either a worker thread, which runs one claimed execution   *)
(* at a time, or a dashboard request (also the CLI and the background      *)
(* scheduler).  Each step of a process is one database transaction or one  *)
(* provider call, so the steps of several processes interleave exactly     *)
(* where the code lets go of the database.  repo.update_execution() is TWO *)
(* transactions, the execution row and then the mirror onto the job row:   *)
(* the second is the step Mirror.                                          *)
(***************************************************************************)
EXTENDS Naturals, FiniteSets, ExecutionModel

CONSTANTS
  Jobs,            \* job rows, all of them ingests of one and the same posting
  Executions,      \* identities of execution rows
  Workers,         \* application worker threads
  Clicks,          \* dashboard, CLI and scheduler requests
  Modes,           \* execution modes a request may ask for
  MaxAttempts,     \* APPLICATION_SUBMIT_RETRY_MAX_ATTEMPTS
  Slots,           \* APPLICATION_PROVIDER_CONCURRENCY_DEFAULT
  AttemptCap,      \* bound on attempt_count when executions overlap
  MaxFaults,       \* bound on crashes and unexpected exceptions
  Sponsorships,    \* sponsorship statuses a refresh may assign to a job
  TrackerTargets,  \* states a human may give a job on the tracker board
  Regenerated,     \* jobs whose application files a human may regenerate
  LeaseMayLapse,   \* may a lease expire while its holder is still working?
  ClicksOverlap,   \* may a request and another process run one execution?
  None             \* no process, no execution, no job

Procs == Workers \cup Clicks

ASSUME PipelineAssumption ==
  /\ Workers \cap Clicks = {}
  /\ None \notin Procs \cup Executions \cup Jobs
  /\ Modes \subseteq {"ASSIST", "AUTO_PERMITTED"}
  /\ MaxAttempts \in Nat \ {0}
  /\ AttemptCap \in Nat /\ MaxAttempts < AttemptCap
  /\ MaxFaults \in Nat /\ Slots \in Nat \ {0}
  /\ Sponsorships \subseteq
       {"CONFIRMED_SPONSOR", "LIKELY_SPONSOR", "UNKNOWN", "NO_SPONSORSHIP"}
  /\ TrackerTargets \subseteq JobStates
  /\ Regenerated \subseteq Jobs
  /\ LeaseMayLapse \in BOOLEAN
  /\ ClicksOverlap \in BOOLEAN

VARIABLES
  status,       \* application_executions.status
  active,       \* application_executions.active
  jobOf,        \* application_executions.job_id
  mode,         \* application_executions.mode
  attempts,     \* application_executions.attempt_count
  leaseOwner,   \* the claim whose lease_attempt_id the row carries
  leaseLive,    \* lease_expires_at lies in the future
  approval,     \* an application_approvals row exists; the table is append-only
  jobState,     \* jobs.application_state
  sponsor,      \* jobs.sponsorship_status
  pc,           \* where each process is
  frame,        \* the local variables of the call each process is in
  pending,      \* the mirror write update_execution() has still to make
  received,     \* applications the provider got from an execution (0, 1, many)
  provider,     \* its circuit row: inflight slots taken, and whether a dead or
                \* failed call left the probe of a HALF_OPEN circuit taken
  faults        \* crashes and unexpected exceptions so far

rowVars   == <<status, active, jobOf, mode, attempts, approval>>
leaseVars == <<leaseOwner, leaseLive>>
jobVars   == <<jobState, sponsor>>
procVars  == <<pc, frame, pending>>
vars == <<rowVars, leaseVars, jobVars, procVars, received, provider, faults>>

Verdicts == {"HARD_SKIP", "BLOCKED", "REVIEW", "AUTO"}
Replies  == {"none", "confirmed", "unconfirmed", "unknown", "retryable", "permanent"}

\* The steps of process_execution(), and the rest of what a process can be at.
BeforeSubmit == {"start", "discover", "fill", "validate", "recheck", "gate", "mark", "submit"}
Running ==
  {"claimed", "record", "read", "outcome", "confirm", "finish", "release", "resolve"}
    \cup BeforeSubmit
Steps == {"idle", "queueing", "claiming"} \cup Running

\* What a pending mirror and a call frame look like.
NoMirror == [job |-> None, status |-> NoStatus]
ExecFrame(e, approved, target) ==
  [exec |-> e, job |-> None, verdict |-> "BLOCKED", approved |-> approved,
   allow |-> TRUE, tries |-> 0, reply |-> "none", target |-> target]
JobFrame(j, verdict) ==
  [exec |-> None, job |-> j, verdict |-> verdict, approved |-> FALSE,
   allow |-> TRUE, tries |-> 0, reply |-> "none", target |-> NoStatus]
NoFrame == ExecFrame(None, FALSE, NoStatus)

Frames ==
  [exec : Executions \cup {None}, job : Jobs \cup {None}, verdict : Verdicts,
   approved : BOOLEAN, allow : BOOLEAN, tries : 0..AttemptCap, reply : Replies,
   target : ExecutionStatus \cup {NoStatus}]

ProviderRows == [inflight : 0..Slots, probeLost : BOOLEAN]

Exec(p) == frame[p].exec

At(p, step) == pc[p] = step /\ pending[p] = NoMirror

\* Process p is in the middle of something about execution e.
Runs(p, e) == pc[p] \in Running /\ Exec(p) = e

-----------------------------------------------------------------------------
(* Eligibility (applications/eligibility.py) and duplicates (duplicate.py).*)

Eligibility(j) ==
  IF sponsor[j] = "NO_SPONSORSHIP" THEN "HARD_SKIP"
  ELSE IF sponsor[j] = "UNKNOWN" THEN "BLOCKED"
  ELSE IF jobState[j] \in TerminalSkipStates THEN "HARD_SKIP"
  ELSE IF jobState[j] \notin QueueableStates THEN "BLOCKED"
  ELSE IF sponsor[j] = "LIKELY_SPONSOR" THEN "REVIEW" ELSE "AUTO"

EntersQueue(verdict) == verdict \in {"REVIEW", "AUTO"}

\* MUTANT: the row itself is looked at instead of the others.
CheckDuplicateOfItself(j) == \E k \in Jobs \cap {j} : jobState[k] = "APPLIED"

\* Another row of the same posting has reached APPLIED.
CheckDuplicate(j) == \E k \in Jobs \ {j} : jobState[k] = "APPLIED"

ActiveFor(j) == {e \in Executions : active[e] /\ jobOf[e] = j}

-----------------------------------------------------------------------------
(* Steps shared by every operation.                                        *)

\* repo.update_execution(): an unconditional UPDATE of the row; the mirror of
\* a status that has one is still to come.
UpdateExecution(p, s) ==
  LET e == Exec(p) IN
  /\ status' = [status EXCEPT ![e] = s]
  /\ active' = [active EXCEPT ![e] = @ /\ s \notin TerminalStatuses]
  /\ pending' = [pending EXCEPT ![p] =
       IF s \in MirroredStatuses THEN [job |-> jobOf[e], status |-> s] ELSE NoMirror]

Goto(p, step) == pc' = [pc EXCEPT ![p] = step]

Return(p) == Goto(p, "idle") /\ frame' = [frame EXCEPT ![p] = NoFrame]

\* A step of process_execution() that writes status s and goes on to step.
Write(p, s, step) ==
  /\ UpdateExecution(p, s)
  /\ Goto(p, step)
  /\ UNCHANGED <<jobOf, mode, attempts, approval, leaseVars, jobVars, frame, received, provider, faults>>

\* release_execution_lease(expected_attempt_id): only the claim that still
\* holds the lease gives it up.
ReleaseLease(p, e) ==
  IF leaseOwner[e] = p
  THEN /\ leaseOwner' = [leaseOwner EXCEPT ![e] = None]
       /\ leaseLive' = [leaseLive EXCEPT ![e] = FALSE]
  ELSE UNCHANGED leaseVars

\* extend_execution_lease(); the callers release when it finds another claim,
\* which then releases nothing.
ExtendLease(p, e) ==
  /\ leaseLive' = [leaseLive EXCEPT ![e] = @ \/ leaseOwner[e] = p]
  /\ UNCHANGED leaseOwner

\* repo.mirror_job_state(), in a transaction of its own.
Mirror(p) ==
  /\ pending[p] # NoMirror
  /\ jobState' = [jobState EXCEPT ![pending[p].job] = MirrorOf(pending[p].status)]
  /\ pending' = [pending EXCEPT ![p] = NoMirror]
  /\ UNCHANGED <<rowVars, leaseVars, sponsor, pc, frame, received, provider, faults>>

-----------------------------------------------------------------------------
(* queue_application(): the job is read first, everything else after.      *)

\* A request reads the job row it wants to queue.
QueueApplication(c, j) ==
  /\ At(c, "idle")
  /\ Goto(c, "queueing")
  /\ frame' = [frame EXCEPT ![c] = JobFrame(j, Eligibility(j))]
  /\ UNCHANGED <<rowVars, leaseVars, jobVars, pending, received, provider, faults>>

\* ClicksOverlap = FALSE: a request starts only on an execution that no other
\* process is busy with.
MayRun(e) == ClicksOverlap \/ \A q \in Procs : ~Runs(q, e)

\* What the request does with the execution it got: Queue stops here, Prepare
\* goes on to process_execution().
QueueThen(c, e) ==
  \/ Return(c)
  \/ /\ MayRun(e)
     /\ Goto(c, "read")
     /\ frame' = [frame EXCEPT ![c] = ExecFrame(e, FALSE, NoStatus)]

\* The job already has an active execution (also the lost INSERT race).
QueueExisting(c) ==
  /\ At(c, "queueing")
  /\ \E e \in ActiveFor(frame[c].job) : QueueThen(c, e)
  /\ UNCHANGED <<rowVars, leaseVars, jobVars, pending, received, provider, faults>>

\* The job, as it was read, may not enter the queue.
QueueRefused(c) ==
  /\ At(c, "queueing")
  /\ ActiveFor(frame[c].job) = {}
  /\ ~EntersQueue(frame[c].verdict)
  /\ Return(c)
  /\ UNCHANGED <<rowVars, leaseVars, jobVars, pending, received, provider, faults>>

\* Another row of the posting is APPLIED: the job itself is marked, directly.
QueueDuplicate(c) ==
  LET j == frame[c].job IN
  /\ At(c, "queueing")
  /\ ActiveFor(j) = {}
  /\ EntersQueue(frame[c].verdict)
  /\ CheckDuplicate(j)
  /\ jobState' = [jobState EXCEPT ![j] = "DUPLICATE_APPLICATION_BLOCKED"]
  /\ Return(c)
  /\ UNCHANGED <<rowVars, leaseVars, sponsor, pending, received, provider, faults>>

\* repo.create_execution(): the partial unique index on (job_id) WHERE
\* active = 1 lets the INSERT through.
QueueCreate(c, e, m) ==
  LET j == frame[c].job IN
  /\ At(c, "queueing")
  /\ ActiveFor(j) = {}
  /\ EntersQueue(frame[c].verdict)
  /\ ~CheckDuplicate(j)
  /\ status[e] = NoStatus
  /\ status' = [status EXCEPT ![e] = "QUEUED"]
  /\ active' = [active EXCEPT ![e] = TRUE]
  /\ jobOf' = [jobOf EXCEPT ![e] = j]
  /\ mode' = [mode EXCEPT ![e] = m]
  /\ pending' = [pending EXCEPT ![c] = [job |-> j, status |-> "QUEUED"]]
  /\ QueueThen(c, e)
  /\ UNCHANGED <<attempts, approval, leaseVars, jobVars, received, provider, faults>>

-----------------------------------------------------------------------------
(* The other ways into process_execution().                                *)

\* MUTANT: a retry opens an execution that ended again.
RetryReopening(c, e) ==
  /\ At(c, "idle")
  /\ status[e] # NoStatus
  /\ MayRun(e)
  /\ active' = [active EXCEPT ![e] = TRUE]
  /\ Goto(c, "read")
  /\ frame' = [frame EXCEPT ![c] = ExecFrame(e, FALSE, NoStatus)]
  /\ UNCHANGED <<status, jobOf, mode, attempts, approval, leaseVars, jobVars, pending,
                 received, provider, faults>>

\* Retry Preparation: any active execution, no lease, not approved.
Retry(c, e) ==
  /\ At(c, "idle")
  /\ active[e]
  /\ MayRun(e)
  /\ Goto(c, "read")
  /\ frame' = [frame EXCEPT ![c] = ExecFrame(e, FALSE, NoStatus)]
  /\ UNCHANGED <<rowVars, leaseVars, jobVars, pending, received, provider, faults>>

\* approve_and_apply(): claims the execution with an atomic
\* SUBMISSION_READY -> STARTED (no lease, no mirror) ...
ClaimReadyExecution(c, e) ==
  /\ At(c, "idle")
  /\ active[e] /\ status[e] = "SUBMISSION_READY"
  /\ MayRun(e)
  /\ status' = [status EXCEPT ![e] = "STARTED"]
  /\ Goto(c, "record")
  /\ frame' = [frame EXCEPT ![c] = ExecFrame(e, TRUE, NoStatus)]
  /\ UNCHANGED <<active, jobOf, mode, attempts, approval, leaseVars, jobVars, pending,
                 received, provider, faults>>

\* ... and only then records the durable approval, before the pipeline runs.
RecordApproval(c) ==
  /\ At(c, "record")
  /\ approval' = [approval EXCEPT ![Exec(c)] = TRUE]
  /\ Goto(c, "read")
  /\ UNCHANGED <<status, active, jobOf, mode, attempts, leaseVars, jobVars, frame, pending,
                 received, provider, faults>>

\* claim_execution_batch(), the SELECT: active, claimable, unleased or lease expired.
Select(w, e) ==
  /\ At(w, "idle")
  /\ active[e] /\ status[e] \in ClaimableStatuses
  /\ ~leaseLive[e]
  /\ Goto(w, "claiming")
  /\ frame' = [frame EXCEPT ![w] = ExecFrame(e, FALSE, NoStatus)]
  /\ UNCHANGED <<rowVars, leaseVars, jobVars, pending, received, provider, faults>>

\* The UPDATE looks at the lease and at active again, not at the status.  The row
\* is handed over as it is by then; a worker passes approved=True exactly when it
\* finds RETRYABLE_SUBMISSION_FAILURE there.
Claim(w) ==
  LET e == Exec(w) IN
  /\ At(w, "claiming")
  /\ ClicksOverlap \/ \A c \in Clicks : ~Runs(c, e)
  /\ IF active[e] /\ ~leaseLive[e]
     THEN /\ leaseOwner' = [leaseOwner EXCEPT ![e] = w]
          /\ leaseLive' = [leaseLive EXCEPT ![e] = TRUE]
          /\ Goto(w, "claimed")
          /\ frame' = [frame EXCEPT ![w].approved = status[e] = "RETRYABLE_SUBMISSION_FAILURE"]
     ELSE Return(w) /\ UNCHANGED leaseVars
  /\ UNCHANGED <<rowVars, jobVars, pending, received, provider, faults>>

\* The submission circuit or the provider's slot limit refuses the item:
\* a cooldown, never a release.
CooldownSkip(w) ==
  /\ At(w, "claimed")
  /\ ExtendLease(w, Exec(w))
  /\ Return(w)
  /\ UNCHANGED <<rowVars, jobVars, pending, received, provider, faults>>

\* may_attempt() and acquire_inflight_slot() let the worker through (the circuit's
\* states are those of SubmissionCircuit; here it refuses for good only while a
\* probe it lost track of is taken); it reads its own DRAINING flag once, which an
\* operator may have set at any time, and calls process_execution().
Begin(w) ==
  /\ At(w, "claimed")
  /\ ~provider.probeLost /\ provider.inflight < Slots
  /\ provider' = [provider EXCEPT !.inflight = @ + 1]
  /\ \E draining \in BOOLEAN : frame' = [frame EXCEPT ![w].allow = ~draining]
  /\ Goto(w, "read")
  /\ UNCHANGED <<rowVars, leaseVars, jobVars, pending, received, faults>>

\* release_inflight_slot(): a worker's, a request has none.  lost: what it leaves
\* of the circuit's probe.
ReturnSlot(p, lost) ==
  IF p \in Workers
  THEN provider' = [inflight |-> IF provider.inflight = 0 THEN 0 ELSE provider.inflight - 1,
                    probeLost |-> lost]
  ELSE UNCHANGED provider

-----------------------------------------------------------------------------
(* process_execution(), step by step.                                      *)

\* An inactive execution, or one whose outcome is unknown, is left alone.
LeaveAlone(p) ==
  /\ At(p, "read")
  /\ ~active[Exec(p)] \/ status[Exec(p)] = "SUBMISSION_STATUS_UNKNOWN"
  /\ Goto(p, "release")
  /\ UNCHANGED <<rowVars, leaseVars, jobVars, frame, pending, received, provider, faults>>

\* MUTANT: an interrupted submission counts as a failed one.
ResumeAsFailed(p) ==
  /\ At(p, "read")
  /\ active[Exec(p)] /\ status[Exec(p)] \in InFlightStatuses
  /\ Write(p, "PERMANENT_SUBMISSION_FAILURE", "finish")

\* The resume guard: never submit() again after an interruption.
ResumeGuard(p) ==
  /\ At(p, "read")
  /\ active[Exec(p)] /\ status[Exec(p)] \in InFlightStatuses
  /\ Write(p, "SUBMISSION_STATUS_UNKNOWN", "finish")

\* MUTANT: an unknown outcome is run again.
ReadExecutionOfUnknown(p) ==
  LET e == Exec(p) IN
  /\ At(p, "read")
  /\ active[e]
  /\ status[e] \notin InFlightStatuses
  /\ frame' = [frame EXCEPT ![p].tries = attempts[e],
                            ![p].verdict = Eligibility(jobOf[e])]
  /\ Goto(p, "start")
  /\ UNCHANGED <<rowVars, leaseVars, jobVars, pending, received, provider, faults>>

\* Otherwise the call keeps what it read of the execution and of the job.
ReadExecution(p) ==
  LET e == Exec(p) IN
  /\ At(p, "read")
  /\ active[e]
  /\ status[e] \notin InFlightStatuses \cup {"SUBMISSION_STATUS_UNKNOWN"}
  /\ frame' = [frame EXCEPT ![p].tries = attempts[e],
                            ![p].verdict = Eligibility(jobOf[e])]
  /\ Goto(p, "start")
  /\ UNCHANGED <<rowVars, leaseVars, jobVars, pending, received, provider, faults>>

Start(p) == At(p, "start") /\ Write(p, "STARTED", "discover")

\* Eligibility as read at the top, the resume artifact, form discovery.
Discover(p) ==
  /\ At(p, "discover")
  /\ IF EntersQueue(frame[p].verdict)
     THEN \/ Write(p, "VALIDATION_REQUIRED", "finish")     \* resume missing or changed
          \/ Write(p, "FORM_DISCOVERED", "fill")
     ELSE Write(p, "PERMANENT_SUBMISSION_FAILURE", "finish")

Fill(p) ==
  /\ At(p, "fill")
  /\ \/ Write(p, "NEEDS_USER_ACTION", "finish")            \* form schema changed
     \/ Write(p, "FORM_FILLED", "validate")

Validate(p) ==
  /\ At(p, "validate")
  /\ \/ Write(p, "NEEDS_USER_ACTION", "finish")            \* validation not ok
     \/ /\ ~frame[p].allow
        /\ Write(p, "SUBMISSION_READY", "finish")          \* draining
     \/ /\ frame[p].allow
        /\ Goto(p, "recheck")
        /\ UNCHANGED <<rowVars, leaseVars, jobVars, frame, pending, received, provider, faults>>

\* The fresh read of the job, before the provider is asked about the posting.
Recheck(p) ==
  /\ At(p, "recheck")
  /\ frame' = [frame EXCEPT ![p].verdict = Eligibility(jobOf[Exec(p)])]
  /\ Goto(p, "gate")
  /\ UNCHANGED <<rowVars, leaseVars, jobVars, pending, received, provider, faults>>

\* _auto_submit_permitted and _approved_submit_permitted.  cleared: provider
\* capability and form validation; current: the latest approval still
\* matches what it was given for.
AutoSubmitPermitted(p, cleared) ==
  mode[Exec(p)] = "AUTO_PERMITTED" /\ frame[p].verdict = "AUTO" /\ cleared

ApprovedSubmitPermitted(p, cleared, current) ==
  /\ frame[p].approved
  /\ approval[Exec(p)] /\ current
  /\ EntersQueue(frame[p].verdict) /\ cleared

SubmitPermitted(p, cleared, current) ==
  AutoSubmitPermitted(p, cleared) \/ ApprovedSubmitPermitted(p, cleared, current)

\* The last checks before the submission, each on fresh data.
Gate(p) ==
  /\ At(p, "gate")
  /\ IF frame[p].verdict = "HARD_SKIP"
     THEN Write(p, "JOB_NO_LONGER_ACTIVE", "finish")
     ELSE
       \/ Write(p, "JOB_NO_LONGER_ACTIVE", "finish")       \* the posting is gone
       \/ \E cleared, current \in BOOLEAN :
            IF SubmitPermitted(p, cleared, current)
            THEN \/ Write(p, "NEEDS_USER_ACTION", "finish")    \* rate limited
                 \/ /\ CheckDuplicate(jobOf[Exec(p)])
                    /\ Write(p, "DUPLICATE_APPLICATION_BLOCKED", "finish")
                 \/ /\ ~CheckDuplicate(jobOf[Exec(p)])
                    /\ Goto(p, "mark")
                    /\ UNCHANGED <<rowVars, leaseVars, jobVars, frame, pending,
                                   received, provider, faults>>
            ELSE Write(p, IF frame[p].approved THEN "APPROVED" ELSE "SUBMISSION_READY",
                       "finish")

\* SUBMITTING, with attempt_count counted from the value read at the top.
Mark(p) ==
  /\ At(p, "mark")
  /\ frame[p].tries < AttemptCap
  /\ UpdateExecution(p, "SUBMITTING")
  /\ attempts' = [attempts EXCEPT ![Exec(p)] = frame[p].tries + 1]
  /\ Goto(p, "submit")
  /\ UNCHANGED <<jobOf, mode, approval, leaseVars, jobVars, frame, received, provider, faults>>

\* provider.submit(), outside any transaction.  A retryable or permanent
\* error is the provider's word that it took no application; after an
\* unknown or unconfirmed answer it may have taken one.
Submit(p) ==
  /\ At(p, "submit")
  /\ \E reply \in Replies \ {"none"}, taken \in BOOLEAN :
       /\ reply = "confirmed" => taken
       /\ reply \in {"retryable", "permanent"} => ~taken
       /\ frame' = [frame EXCEPT ![p].reply = reply]
       /\ received' = [received EXCEPT ![Exec(p)] = IF taken /\ @ < 2 THEN @ + 1 ELSE @]
  /\ Goto(p, "outcome")
  /\ UNCHANGED <<rowVars, leaseVars, jobVars, pending, provider, faults>>

\* MUTANT: one retry too many.
OutcomeOffByOne(p) ==
  LET reply == frame[p].reply IN
  /\ At(p, "outcome")
  /\ \/ /\ reply = "unknown"
        /\ Write(p, "SUBMISSION_STATUS_UNKNOWN", "finish")
     \/ /\ reply = "retryable" /\ frame[p].tries < MaxAttempts
        /\ Write(p, "RETRYABLE_SUBMISSION_FAILURE", "finish")
     \/ /\ reply = "permanent" \/ (reply = "retryable" /\ frame[p].tries >= MaxAttempts)
        /\ Write(p, "PERMANENT_SUBMISSION_FAILURE", "finish")
     \/ /\ reply \in {"confirmed", "unconfirmed"}
        /\ Write(p, "SUBMITTED", "confirm")

\* What the answer makes of the execution.
Outcome(p) ==
  LET reply == frame[p].reply IN
  /\ At(p, "outcome")
  /\ \/ /\ reply = "unknown"
        /\ Write(p, "SUBMISSION_STATUS_UNKNOWN", "finish")
     \/ /\ reply = "retryable" /\ frame[p].tries + 1 < MaxAttempts
        /\ Write(p, "RETRYABLE_SUBMISSION_FAILURE", "finish")
     \/ /\ reply = "permanent" \/ (reply = "retryable" /\ frame[p].tries + 1 >= MaxAttempts)
        /\ Write(p, "PERMANENT_SUBMISSION_FAILURE", "finish")
     \/ /\ reply \in {"confirmed", "unconfirmed"}
        /\ Write(p, "SUBMITTED", "confirm")

\* provider.verify_confirmation(): APPLIED only on evidence.
Confirm(p) ==
  /\ At(p, "confirm")
  /\ IF frame[p].reply = "confirmed"
     THEN Write(p, "APPLIED", "finish")
     ELSE Write(p, "SUBMISSION_STATUS_UNKNOWN", "finish")

\* process_execution() returned the row as it is now: a worker keeps the lease
\* as a backoff after a retryable failure and gives it up otherwise.
Finish(p) ==
  /\ At(p, "finish")
  /\ IF status[Exec(p)] = "RETRYABLE_SUBMISSION_FAILURE"
     THEN ExtendLease(p, Exec(p)) ELSE ReleaseLease(p, Exec(p))
  /\ ReturnSlot(p, FALSE)                    \* record_result(), release_half_open_probe()
  /\ Return(p)
  /\ UNCHANGED <<rowVars, jobVars, pending, received, faults>>

\* It returned the row untouched.
FinishUntouched(p) ==
  /\ At(p, "release")
  /\ ReleaseLease(p, Exec(p))
  /\ ReturnSlot(p, FALSE)
  /\ Return(p)
  /\ UNCHANGED <<rowVars, jobVars, pending, received, faults>>

-----------------------------------------------------------------------------
(* What a human does about an execution and about a job.                   *)

\* reconcile_execution(): looks whether the outcome is still unknown.  Whoever
\* answers (a human, or reconcile_worker from the provider's own records)
\* answers truthfully: "not submitted" only if no application arrived.
Reconcile(c, e, target) ==
  /\ At(c, "idle")
  /\ status[e] = "SUBMISSION_STATUS_UNKNOWN"
  /\ MayRun(e)
  /\ target \in {"APPLIED", "WITHDRAWN"}
  /\ target = "WITHDRAWN" => received[e] = 0
  /\ Goto(c, "resolve")
  /\ frame' = [frame EXCEPT ![c] = ExecFrame(e, FALSE, target)]
  /\ UNCHANGED <<rowVars, leaseVars, jobVars, pending, received, provider, faults>>

\* record_manual_outcome(): looks whether the execution is with the human.
Handoff(c, e, target) ==
  /\ At(c, "idle")
  /\ active[e] /\ status[e] \in HandoffStatuses
  /\ MayRun(e)
  /\ target \in {"APPLIED", "USER_COMPLETED_EXTERNALLY", "SUBMISSION_STATUS_UNKNOWN",
                 "WITHDRAWN"}
  /\ Goto(c, "resolve")
  /\ frame' = [frame EXCEPT ![c] = ExecFrame(e, FALSE, target)]
  /\ UNCHANGED <<rowVars, leaseVars, jobVars, pending, received, provider, faults>>

\* Both then write the outcome, whatever the row has become meanwhile.
Resolve(c) ==
  /\ At(c, "resolve")
  /\ UpdateExecution(c, frame[c].target)
  /\ Return(c)
  /\ UNCHANGED <<jobOf, mode, attempts, approval, leaseVars, jobVars, received, provider, faults>>

\* POST /jobs/{id}/state: the tracker board moves the job, never the execution.
UpdateState(j, target) ==
  /\ target \in ManualTransitions(jobState[j])
  /\ jobState' = [jobState EXCEPT ![j] = target]
  /\ UNCHANGED <<rowVars, leaseVars, sponsor, procVars, received, provider, faults>>

\* POST /jobs/{id}/regenerate: generate_assist_outputs() looks at the sponsorship
\* of the job and never at its state.
Regenerate(j) ==
  /\ j \in Regenerated
  /\ sponsor[j] \in {"CONFIRMED_SPONSOR", "LIKELY_SPONSOR"}
  /\ \E outcome \in {"READY_TO_APPLY", "SKIPPED"} :      \* SKIPPED: unsupported claims
       jobState' = [jobState EXCEPT ![j] = outcome]
  /\ UNCHANGED <<rowVars, leaseVars, sponsor, procVars, received, provider, faults>>

\* refresh_job_sponsorship(): new employer evidence, at any stage of a job.
RefreshSponsorship(j, s) ==
  /\ sponsor[j] # s
  /\ sponsor' = [sponsor EXCEPT ![j] = s]
  /\ UNCHANGED <<rowVars, leaseVars, jobState, procVars, received, provider, faults>>

-----------------------------------------------------------------------------
(* Faults and time.                                                        *)

\* An exception out of process_execution() around a provider call: the worker's
\* safety net releases the lease and the slot, and leaves the circuit as it is, its
\* probe taken if the call was the probe; a request just fails.  Around submit()
\* the provider may have taken the application (step "outcome") or not ("submit").
Raise(p) ==
  /\ faults < MaxFaults
  /\ pc[p] \in {"discover", "fill", "validate", "gate", "submit", "outcome", "confirm"}
  /\ pending[p] = NoMirror
  /\ ReleaseLease(p, Exec(p))
  /\ \E probe \in BOOLEAN : ReturnSlot(p, provider.probeLost \/ probe)
  /\ Return(p)
  /\ faults' = faults + 1
  /\ UNCHANGED <<rowVars, jobVars, pending, received>>

\* The process dies between two transactions; its lease, the slot it took and the
\* probe, if it was the probe, stay behind.
Crash(p) ==
  /\ faults < MaxFaults
  /\ pc[p] # "idle" \/ pending[p] # NoMirror
  /\ \E probe \in BOOLEAN :
       /\ probe => p \in Workers /\ pc[p] \in Running
       /\ provider' = [provider EXCEPT !.probeLost = @ \/ probe]
  /\ Return(p)
  /\ pending' = [pending EXCEPT ![p] = NoMirror]
  /\ faults' = faults + 1
  /\ UNCHANGED <<rowVars, leaseVars, jobVars, received>>

\* lease_expires_at passes.
LeaseExpires(e) ==
  /\ leaseLive[e]
  /\ LeaseMayLapse \/ ~Runs(leaseOwner[e], e)
  /\ leaseLive' = [leaseLive EXCEPT ![e] = FALSE]
  /\ UNCHANGED <<rowVars, leaseOwner, jobVars, procVars, received, provider, faults>>

-----------------------------------------------------------------------------
Init ==
  /\ status = [e \in Executions |-> NoStatus]
  /\ active = [e \in Executions |-> FALSE]
  /\ jobOf = [e \in Executions |-> None]
  /\ mode = [e \in Executions |-> "ASSIST"]
  /\ attempts = [e \in Executions |-> 0]
  /\ leaseOwner = [e \in Executions |-> None]
  /\ leaseLive = [e \in Executions |-> FALSE]
  /\ approval = [e \in Executions |-> FALSE]
  /\ jobState = [j \in Jobs |-> "READY_TO_APPLY"]
  /\ sponsor = [j \in Jobs |-> "CONFIRMED_SPONSOR"]
  /\ pc = [p \in Procs |-> "idle"]
  /\ frame = [p \in Procs |-> NoFrame]
  /\ pending = [p \in Procs |-> NoMirror]
  /\ received = [e \in Executions |-> 0]
  /\ provider = [inflight |-> 0, probeLost |-> FALSE]
  /\ faults = 0

\* process_execution(), from its first read to its return.
Process(p) ==
  \/ LeaveAlone(p) \/ ResumeGuard(p) \/ ReadExecution(p)
  \/ Start(p) \/ Discover(p) \/ Fill(p) \/ Validate(p) \/ Recheck(p) \/ Gate(p)
  \/ Mark(p) \/ Submit(p) \/ Outcome(p) \/ Confirm(p)
  \/ Finish(p) \/ FinishUntouched(p)
  \/ Mirror(p)

Worker(w) ==
  \/ \E e \in Executions : Select(w, e)
  \/ Claim(w) \/ CooldownSkip(w) \/ Begin(w)

Click(c) ==
  \/ \E j \in Jobs : QueueApplication(c, j)
  \/ QueueExisting(c) \/ QueueRefused(c) \/ QueueDuplicate(c)
  \/ \E e \in Executions, m \in Modes : QueueCreate(c, e, m)
  \/ \E e \in Executions : Retry(c, e) \/ ClaimReadyExecution(c, e)
  \/ RecordApproval(c)
  \/ \E e \in Executions, target \in TerminalStatuses \cup {"SUBMISSION_STATUS_UNKNOWN"} :
       Reconcile(c, e, target) \/ Handoff(c, e, target)
  \/ Resolve(c)

Environment ==
  \/ \E j \in Jobs, target \in TrackerTargets : UpdateState(j, target)
  \/ \E j \in Jobs : Regenerate(j)
  \/ \E j \in Jobs, s \in Sponsorships : RefreshSponsorship(j, s)
  \/ \E e \in Executions : LeaseExpires(e)

Next ==
  \/ \E p \in Procs : Process(p) \/ Raise(p) \/ Crash(p)
  \/ \E w \in Workers : Worker(w)
  \/ \E c \in Clicks : Click(c)
  \/ Environment

Spec == Init /\ [][Next]_vars

\* A live worker keeps polling and goes on with what it claimed; time passes; a
\* worker that again and again finds a slot and no lost probe is let through by
\* the submission circuit some time, whose cooldowns end.
Fairness ==
  /\ \A e \in Executions : WF_vars(LeaseExpires(e))
  /\ \A e \in Executions : WF_vars(\E w \in Workers : Select(w, e))
  /\ \A w \in Workers : WF_vars(Claim(w))
  /\ \A p \in Procs : WF_vars(Process(p))
  /\ \A c \in Clicks : WF_vars(RecordApproval(c) \/ Resolve(c))
  /\ \A w \in Workers : SF_vars(Begin(w))

FairSpec == Spec /\ Fairness

-----------------------------------------------------------------------------
(* Properties.                                                             *)

\* Every variable has its type.
TypeOK ==
  /\ status \in [Executions -> ExecutionStatus \cup {NoStatus}]
  /\ active \in [Executions -> BOOLEAN]
  /\ jobOf \in [Executions -> Jobs \cup {None}]
  /\ mode \in [Executions -> {"ASSIST", "AUTO_PERMITTED"}]
  /\ attempts \in [Executions -> 0..AttemptCap]
  /\ leaseOwner \in [Executions -> Workers \cup {None}]
  /\ leaseLive \in [Executions -> BOOLEAN]
  /\ approval \in [Executions -> BOOLEAN]
  /\ jobState \in [Jobs -> JobStates]
  /\ sponsor \in [Jobs -> {"CONFIRMED_SPONSOR", "LIKELY_SPONSOR", "UNKNOWN", "NO_SPONSORSHIP"}]
  /\ pc \in [Procs -> Steps]
  /\ frame \in [Procs -> Frames]
  /\ pending \in [Procs -> [job : Jobs, status : MirroredStatuses] \cup {NoMirror}]
  /\ received \in [Executions -> 0..2]
  /\ provider \in ProviderRows
  /\ faults \in 0..MaxFaults

\* However often an execution is interrupted, reclaimed, retried or approved,
\* the provider gets at most one application from it.
NoSecondSubmission == \A e \in Executions : received[e] <= 1

\* A retried submission is never attempted more often than configured.
AttemptsBounded == \A e \in Executions : attempts[e] <= MaxAttempts

\* In ASSIST mode nothing is sent that no human approved, whatever becomes of
\* the approval request and whoever picks the execution up afterwards.
NothingUnapproved ==
  \A e \in Executions : received[e] > 0 /\ mode[e] = "ASSIST" => approval[e]

\* An execution rests APPROVED only if a human approved it, as the worker and the
\* doctor's check say; a retried submission whose automatic gate has closed since
\* lands there without.
ApprovedIsRecorded ==
  \A e \in Executions : status[e] = "APPROVED" => approval[e]

\* An execution that ended is never active again, whoever writes to it late.
EndedForGood ==
  [][\A e \in Executions : status[e] # NoStatus /\ ~active[e] => ~active'[e]]_vars

\* A lease that has not expired changes hands only through its holder, which
\* is then in the claim it was given for: a worker whose lease has lapsed
\* never frees the lease of the worker that took over.
LiveLeaseKept ==
  [][\A e \in Executions :
       leaseLive[e] /\ leaseOwner'[e] # leaseOwner[e] =>
         Runs(leaseOwner[e], e) /\ pc'[leaseOwner[e]] = "idle"]_vars

\* The lease of each execution is an exclusive lease, whatever is done under it: a
\* request, which takes none, moves none, and a dead worker's waits for its time.
Lease(e) ==
  INSTANCE ExclusiveLease
    WITH Holders <- Workers, Nobody <- None, Dead <- "dead",
         owner <- leaseOwner[e], live <- leaseLive[e]
LeasesAreExclusive == \A e \in Executions : Lease(e)!Spec

\* An execution whose outcome is unknown moves on only by a human resolution.
UnknownWaits ==
  [][\A e \in Executions :
       status[e] = "SUBMISSION_STATUS_UNKNOWN" /\ status'[e] # status[e] =>
         \E c \in Clicks : pc[c] = "resolve" /\ Exec(c) = e]_vars

\* An application the provider got is never recorded as not made: its execution is
\* in flight, unknown or APPLIED from then on, whoever dies, retries, resolves or
\* hands it over.
ApplicationsRemembered ==
  \A e \in Executions : received[e] > 0 =>
    status[e] \in InFlightStatuses \cup {"SUBMISSION_STATUS_UNKNOWN", "APPLIED"}

\* One job row gets one application, whichever of its executions sends it: not so in
\* this code, whose queue reads the job before it creates the execution.
OneApplicationPerJob ==
  \A e, f \in Executions :
    e # f /\ jobOf[e] = jobOf[f] => received[e] = 0 \/ received[f] = 0

\* An execution is created for a job whose application the provider already has only
\* on the strength of a job row that is out of date: it does not show what became of
\* the execution that sent it (its mirror is pending or was lost, or the row was
\* regenerated or moved), or it has come to refuse since the request read it.
AppliedJobsAreRefused ==
  [][\A e, f \in Executions :
       LET j == jobOf'[f] IN
       status[f] = NoStatus /\ status'[f] # NoStatus /\ jobOf[e] = j /\ received[e] > 0 =>
         jobState[j] # MirrorOf(status[e]) \/ ~EntersQueue(Eligibility(j))]_vars

\* No submission starts once another row of the posting has reached APPLIED: not so in
\* this code, which looks for duplicates in one transaction and begins to submit in
\* another.
DuplicatesBlocked ==
  [][\A e, f \in Executions :
       status[f] = "APPLIED" /\ jobOf[e] # jobOf[f] /\ status'[e] = "SUBMITTING" =>
         status[e] = "SUBMITTING"]_vars

\* While nobody is at work the job row shows what its active execution is at: not so
\* in this code, where a call may die between a status and its mirror.
\* FORM_DISCOVERED and FORM_FILLED show as STARTED does.
JobMirrorsExecution ==
  (\A p \in Procs : pc[p] = "idle" /\ pending[p] = NoMirror) =>
    \A e \in Executions :
      active[e] => jobState[jobOf[e]] =
        MirrorOf(IF status[e] \in {"FORM_DISCOVERED", "FORM_FILLED"}
                 THEN "STARTED" ELSE status[e])

\* An execution a human reconciled as never submitted leaves its job free to be
\* queued again.
WithdrawnMayBeQueued ==
  \A e \in Executions :
    (/\ status[e] = "WITHDRAWN"
     /\ \A f \in Executions \ {e} : status[f] = NoStatus
     /\ \A p \in Procs : pending[p] = NoMirror) =>
      EntersQueue(Eligibility(jobOf[e]))

\* What a human recorded as applied on the board stays recorded: whoever goes on
\* with the job's execution never makes the job eligible for the queue again.
\* (The race with the INSERT of an execution is left to OneApplicationPerJob.)
AppliedStands ==
  [][\A j \in Jobs :
       jobState[j] = "APPLIED" /\ (\A p \in Procs : pending[p].status # "QUEUED") =>
         jobState'[j] \notin QueueableStates]_vars

\* A retryable failure ends its execution: the retry is an execution of its own.
RetryIsANewExecution ==
  [][\A e \in Executions :
       status[e] = "RETRYABLE_SUBMISSION_FAILURE" => status'[e] = status[e]]_vars

\* What the submission circuit counts as an attempt of the provider was one:
\* submit() was called during this very call.
OnlySubmissionsCounted ==
  \A w \in Workers :
    At(w, "finish") /\ status[Exec(w)] \in SubmitAttemptedStatuses => frame[w].reply # "none"

\* The inductive invariant behind NoSecondSubmission and UnknownWaits: what a
\* call at each step knows of the row it is working on ...
InCall(p) ==
  LET e == Exec(p) IN
  /\ pc[p] = "queueing" => frame[p].job \in Jobs
  /\ pc[p] \in Running \cup {"claiming"} => e \in Executions /\ status[e] # NoStatus
  /\ pc[p] = "resolve" => frame[p].target \in TerminalStatuses \cup {"SUBMISSION_STATUS_UNKNOWN"}

Knows(p) ==
  LET e == Exec(p) IN
  /\ pc[p] \in BeforeSubmit => received[e] = 0 /\ status[e] # "SUBMISSION_STATUS_UNKNOWN"
  /\ pc[p] = "submit" => status[e] = "SUBMITTING"
  /\ pc[p] = "outcome" =>
       /\ status[e] = "SUBMITTING"
       /\ frame[p].reply \in {"retryable", "permanent"} => received[e] = 0
  /\ pc[p] = "confirm" => status[e] = "SUBMITTED"

\* ... what the row itself remembers of an application the provider got ...
Row(e) ==
  /\ status[e] = NoStatus => ~active[e] /\ received[e] = 0
  /\ status[e] # NoStatus => jobOf[e] \in Jobs

Remembers(e) ==
  /\ received[e] <= 1
  /\ received[e] > 0 /\ active[e] =>
       status[e] \in InFlightStatuses \cup {"SUBMISSION_STATUS_UNKNOWN"}

\* ... and that no two processes run one execution, a worker only under its lease.
OneRunner ==
  /\ \A p, q \in Procs, e \in Executions : Runs(p, e) /\ Runs(q, e) => p = q
  /\ \A w \in Workers, e \in Executions : Runs(w, e) => leaseOwner[e] = w /\ leaseLive[e]

TypeInv ==
  /\ TypeOK
  /\ \A p \in Procs : InCall(p)
  /\ \A e \in Executions : Row(e)

SubmissionInv ==
  /\ TypeInv
  /\ \A p \in Procs : Knows(p)
  /\ \A e \in Executions : Remembers(e)
  /\ OneRunner

\* Statuses in which nothing happens until a human does something.
AwaitsHuman ==
  {"SUBMISSION_READY", "NEEDS_USER_ACTION", "VALIDATION_REQUIRED", "APPROVED",
   "SUBMISSION_STATUS_UNKNOWN"}

\* No worker is let through any more: the slots of dead workers are all there are,
\* or the circuit waits for a probe nobody makes.  Nothing but an operator helps.
ShutOut ==
  \/ provider.probeLost
  \/ provider.inflight - Cardinality({w \in Workers : pc[w] \in Running \ {"claimed"}}) >= Slots

\* Every execution a dead process left behind, at whatever step, ends or comes to
\* rest where a human has the next move, as long as the provider has a slot left
\* and its circuit has not lost its probe.
Recovered ==
  \A e \in Executions : active[e] ~> ~active[e] \/ status[e] \in AwaitsHuman \/ ShutOut

\* Lease expiry alone recovers every execution, whatever a dead process left it at
\* (docs/application-worker-architecture.md:72-73).
AlwaysRecovered ==
  \A e \in Executions : active[e] ~> ~active[e] \/ status[e] \in AwaitsHuman

=============================================================================

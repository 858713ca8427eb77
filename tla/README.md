# Formal models of the sponsor-job-agent

TLA+ models of the parts of this repository where steps of several processes meet, or
where a decision is hard to get right: the application executor with its queue and
workers, the approval of what is sent, the browser sessions, the one path that presses
a real submit button, the discovery workers behind their circuit, the life of a career
portal, the agent's orchestrator, the preparation of a posting, and the variants of a
resume.  Each model is checked with TLC on small instances; the safety properties that
matter most are also proved with TLAPS for every value of the constants.

Paths below are relative to `src/app/` unless they begin with `docs/` or `tests/`.

1. [The system](#1-the-system)
2. [The modules and how they correspond to the code](#2-the-modules)
3. [The runs and what they show](#3-the-runs)
4. [Where the code and its documentation disagree](#4-disagreements)
5. [Bounds](#5-bounds)
6. [Fairness and deadlock](#6-fairness-and-deadlock)
7. [What is proved](#7-proofs)
8. [What is only model-checked](#8-only-model-checked)
9. [What is abstracted and what is not modelled](#9-abstractions)
10. [Plan](#10-plan)

To reproduce: `tlc -config X.cfg M` with the pairs of section 3, and `tlapm M.tla` for
the eight `*Proofs` modules.

## 1. The system

The agent finds jobs of employers that sponsor visas, prepares applications for
them, and submits them where policy and a human allow it.  It is a set of Python
processes (the dashboard, the application workers, the poll workers, the agent's
orchestrator, command lines) that share one SQLite or PostgreSQL database and
nothing else: every interaction is a row one process writes and another reads.

| Component | State it keeps | Operations | Correct when |
|---|---|---|---|
| Application executor (`applications/executor.py`, `repo.py`, `models.py`) | `application_executions`: status, active, mode, attempt_count; a mirror of the status in `jobs.application_state` | `queue_application`, `prepare_application`, `process_execution`, `update_execution` | one application per execution and per job; nothing sent unapproved in ASSIST mode; an interrupted submission never repeated; every run ends or waits for a human |
| Execution queue and worker (`applications/queue.py`, `worker.py`) | lease of an execution; the worker's DRAINING flag | claim, extend, release, `run_worker_cycle`, backoff by a kept lease | a live lease is never taken or freed by another; a dead worker's executions are picked up |
| Eligibility, duplicates, tracker (`eligibility.py`, `duplicate.py`, `tracker.py`) | job state and sponsorship (`jobs`) | verdicts; the board's moves | terminal jobs never queued; no second row of a posting applied to |
| Approval (`approval.py`, `verified_field_evidence.py`, `fingerprint.py`) | `application_approvals`, `application_form_baselines`, verified answers | `approve_and_apply`, `is_current_valid` | what is sent is what was approved; one approval for each readiness |
| Forms (`mapping.py`, `schema.py`, `mock_ats.py`, `providers_greenhouse.py`, `form_model.py`, `presubmit_manifest.py`) | none | map a question, fill, validate, report | no sensitive question answered by a guess; the manifest claims nothing the draft has not |
| Reconciliation, handoff (`reconcile.py`, `handoff.py`) | none of their own | resolve an unknown outcome; record what a human did | only a human, or the provider's own record, ends an unknown outcome |
| Submission circuit (`applications/circuit.py`) | one row per provider: state, window, failures, half-open probe, inflight slots | `may_attempt`, `record_result`, slots, `force_close`, `force_probe` | failing provider paused; slots never exceeded; never paused for good |
| Submit-once claims, contract, engine (`greenhouse_canary.py`, `greenhouse_submit_*.py`) | a claim per execution | claim, click, judge the page, record | at most one application; an unknown outcome holds the job; every claim gets an outcome |
| Browser sessions, blockers (`browser_session.py`, `browser_assist.py`, `browser_runtime.py`, `blockers.py`) | session status, lease, the window of a process, the open blocker | start, resume, advance, reconcile, close, expire | a confirmation is backed by a submission; the blocker says what the session waits for; an abandoned session ends |
| Poll queue and poll worker (`workers/leasing.py`, `queue.py`, `runner.py`) | lease, due time and failure counter of `company_registry` rows | claim batch, poll, ack/retry/fail | one poll of a portal at a time; every due portal polled |
| Discovery circuit (`workers/circuit.py`) | one row per provider, as the submission circuit | as the submission circuit | a provider is never shut out for good |
| Dead letters (`workers/dead_letter.py`, `workers/repo.py`) | `dead_letters` rows | record, disable, requeue | given up for cause, never silently, nothing retried for ever |
| Verification queue, portal lifecycle (`registry/verification.py`, `lifecycle.py`, `sync.py`, ...) | `registry_portals`, its lease, its row in `company_registry` | claim, probe, apply the outcome, sync, requeue | one verifier at a time; demoted for cause; the mirror polls only what is verified |
| Operational registry (`registry/repo.py`, `sync.py`, `scheduling.py`) | `enabled`, `next_poll_at` | sync from the verified registry, schedule | what is verified is polled, what is not is not |
| Agent orchestrator (`agent/orchestrator.py`, `run_state.py`) | one row: desired and actual state, one lease | start, stop, shutdown, renew, run a cycle | one cycle at a time; STOP is honoured; a standby takes over |
| Agent's discovery cycle (`agent/cycle.py`) | none of its own | polls due portals, processes postings | does not defeat the workers; every stored posting is analyzed |
| Job preparation (`pipeline.py`, `matching/`, `sponsorship/`) | the job row, `sponsorship_decisions`, the employer's filings and cached profile | analyze, decide, package, refresh, import | packaged on evidence only; an application never undone |
| Resume variants (`resume_optimizer/`) | `resume_variants`, what the job uploads | claim, finalize, promote | one current variant; only a graded one is uploaded |
| Rate limits, budgets (`rate_limit.py`, `budget.py`) | counts over the log | count | limits kept |

The rest (other provider adapters and connectors, contracts of providers no engine
submits to, dashboards, storage, configuration) is read-only computation, text
processing or I/O; `PROJECT.json` lists every part with its status.

**How the parts interact.**  Discovery stores a posting and analyzes it; an eligible one
gets documents, and later perhaps a variant of the resume.  A dashboard request, the
command line or the background scheduler queues the job: one INSERT that a partial
unique index on active executions guards.  From there two kinds of process run
`process_execution()` on the row: an application worker, which claimed it with a lease,
and a dashboard request (Prepare, Retry, Approve & Apply), which takes no lease.  A
worker asks the submission circuit before and tells it afterwards.  Every status write is
followed, in a transaction of its own, by a write of the job row, which the tracker
board, the file generator and the sponsorship refresh also write.  Where a provider has
no API the candidate works through a browser session, or the canary drives one itself.
On the discovery side poll workers claim batches of due portals behind the provider's
circuit, the agent's cycle polls the same rows without claiming them, operators requeue
what was given up, and the verification of portals switches rows on and off.

**What is hard here.**  Each database call commits by itself, so whatever spans two of
them can be interleaved with any other process or cut off by a crash: read-then-write
of a status, of a counter or of a circuit's probe; a status and its mirror; an approval
and its use; a dead letter and the disabled row; a portal and its mirror; a variant and
its promotion.  Leases expire by the clock and not by the death of their holder.  A
provider call may have taken effect when its answer is lost.  Profile, posting, resume
and form change under an application that was prepared from them.  `PROJECT.json` lists
these hazards line by line.

## 2. The modules

```
ExecutionModel ───┬─ SubmissionPipeline ─────┬─ MCSubmissionPipeline
                  │                          └─ SubmissionPipelineProofs
                  └─ CanarySubmission ───────┬─ MCCanarySubmission
                                             └─ CanarySubmissionProofs
FormFilling ──────── ApplicationApproval ────┬─ MCApplicationApproval
                                             ├─ SubmissionGatesProofs
ProviderCircuit ──┬─ SubmissionCircuit ──────┴─ MCSubmissionCircuit
PollQueue ────────┴─ DiscoveryFleet ─────────┬─ MCDiscoveryFleet
                                             └─ PollQueueProofs
                     PortalVerification ─────┬─ MCPortalVerification
                                             └─ PortalVerificationProofs
                     BrowserSession ─────────┬─ MCBrowserSession
                                             └─ BrowserSessionProofs
                     AgentOrchestrator ──────┬─ MCAgentOrchestrator
                                             ├─ AgentProofs
PostingPolicy ────── JobPreparation ─────────┴─ MCJobPreparation
                     ResumeVariants ─────────┬─ MCResumeVariants
                                             └─ ResumeVariantsProofs

ExclusiveLease ◁──── SubmissionPipeline, PollQueue, PortalVerification, AgentOrchestrator
   (implemented by)
```

`ExecutionModel`, `FormFilling`, `ProviderCircuit` and `PostingPolicy` are pure: tables,
records and operators.  The others are state machines.  `DiscoveryFleet` composes
`PollQueue` with a circuit and implements it; the leases of executions, of portals at
their poll and at their verification, and of the orchestrator implement
`ExclusiveLease`.  A module of proofs belongs to one component, except two:
`SubmissionGatesProofs` has the approval and the circuit, the gates that a prepared
application passes, and `AgentProofs` the orchestrator and what its cycle does to a
posting.

Operators under a comment that begins with `MUTANT` are plausible bugs of the
operator that follows them.  They take part in no specification: substituting one for
its original must break the property it was written against, which is how a property
shows that it says something about the code.

### ExecutionModel

The vocabulary of `applications/models.py`: the execution statuses, the sets the code
tests membership of (claimable, in flight, terminal, mirrored), the mirror table
`_JOB_STATE_MIRROR`, the job states and the moves the tracker board allows.

### SubmissionPipeline

| Variable | Code |
|---|---|
| `status`, `active`, `jobOf`, `mode`, `attempts` | columns of `application_executions` |
| `leaseOwner`, `leaseLive` | whose `lease_attempt_id` the row carries; `lease_expires_at > now` |
| `approval` | an `application_approvals` row exists (the table is append-only; whether the latest one still matches is a verdict of the gate) |
| `jobState`, `sponsor` | `jobs.application_state`, `jobs.sponsorship_status` |
| `pc`, `frame` | where a process is, and the locals of its call: the execution, the eligibility it read, attempt_count as read, `approved`, `allow_submit`, the provider's answer |
| `pending` | the second transaction of `update_execution()`, still to be made |
| `received` | applications the provider got from this execution (0, 1, many): not in the database, it is what the properties are about |
| `provider` | the circuit's row of the provider: inflight slots taken, and whether a call that died or raised still has the half-open probe |
| `faults` | crashes and exceptions so far |

| Actions | Code |
|---|---|
| `QueueApplication`, `QueueExisting`, `QueueRefused`, `QueueDuplicate`, `QueueCreate` | `queue_application()`: the job is read first and the rest decided on what was read; then `prepare_application()` may go on |
| `Retry`, `ClaimReadyExecution`, `RecordApproval` | the Retry request; `approve_and_apply()` |
| `Select`, `Claim` | the two statements of `claim_execution_batch()` on SQLite |
| `CooldownSkip`, `Begin` | a refusal by the circuit; a slot taken, and the worker's call |
| `LeaveAlone`, `ResumeGuard`, `ReadExecution`, `Start`, `Discover`, `Fill`, `Validate`, `Recheck`, `Gate`, `Mark`, `Submit`, `Outcome`, `Confirm` | `process_execution()`, one step per transaction or provider call |
| `Mirror` | `repo.mirror_job_state()` |
| `Finish`, `FinishUntouched` | the worker after the call: backoff after a retryable failure, release otherwise; the slot goes back |
| `Reconcile`, `Handoff`, `Resolve` | `reconcile_execution()`, `record_manual_outcome()`: look, then write |
| `UpdateState`, `Regenerate`, `RefreshSponsorship` | the tracker board, `generate_assist_outputs()`, `refresh_job_sponsorship()` |
| `Raise`, `Crash`, `LeaseExpires` | an exception (caught by the worker's safety net), a death, the clock |

A worker that dies between `Begin` and `Finish` keeps its slot, which nothing gives
back, and the half-open probe if it had it; one that raises gives back the slot and
keeps the probe.  `ShutOut` says that no slot is left or that the probe is lost.

Two constants choose a regime.  `LeaseMayLapse`: a lease may expire while its holder is
still at work.  `ClicksOverlap`: a request may run an execution that another process is
running.  The code excludes neither; the runs and theorems say which properties need
which to be FALSE, and section 4 shows what happens otherwise.

### FormFilling, ApplicationApproval

`FormFilling` is pure: a label is the set of its normalised words, a question a record,
a form a set of questions with or without a wall before it.  `AliasIndex`,
`TokenOverlapCandidate` and `MatchField` are `mapping.py`, `ApplicationFields` is
`schema.py`, `FillValue`, `FillDraft` and `ValidationOk` are the adapters,
`SafeAnswer` and `UnansweredRequired` the form model and the manifest, which look at
the same form by rules of their own.

`ApplicationApproval` follows one execution in ASSIST mode from the preparation to what
`provider.submit()` is called with.  `row` holds the hashes and versions the run wrote,
`approvals` what each approval covered, `baseline` the form the posting had when it was
approved first.  `Claim`, `Retry`, `OpenReady`, `ClaimReady`, `RecordApproval` begin or
approve; `Begin`, `VerifyResume`, `Discover`, `Fill`, `Gate`, `Submit` are the run;
`Crash` may come in between.  `EditProfile`, `ReanalyzePosting`, `ReplaceFile`,
`ChangeForm` and `RecordVerifiedAnswer` change the world under it.  `sent` is what the
provider was handed: form, draft, resume, and the approval the gate found valid.

### CanarySubmission

The Greenhouse canary: `Begin` to `Check` are the gates and the contract, `Start` to
`Release` the session and the drive to the submit boundary, `Fresh` to `CloseSession`
the engine: read everything again, take the submit-once claim
(`AcquireSubmitClaim`), `Click`, judge what the page shows, `Record` the outcome of the
claim, `Settle` the execution, `Mirror` it on the job, close the session.  Each is one
transaction or one use of the browser; `Raise` and `Crash` cut a call off between any
two.  `Approve` and `Reconcile` are the other actors on the execution.

### BrowserSession

| Variable | Code |
|---|---|
| `status`, `active`, `lessee`, `idle` | the rows of `browser_assist_sessions` of one execution |
| `blocker` | its unresolved blocker |
| `window` | the windows each process keeps, and what they show |
| `pc`, `op`, `at` | each call: where it is, what it does, to which session |
| `stage`, `seen` | how far a call is with the blocker of the status it wrote, and the status it read for that |
| `submitted`, `crossed` | history: the sessions whose form was submitted; whether two writes of statuses and blockers met since the last that none met |

A call is one request, and `Home` is the process it runs in: FastAPI serves several
requests of one process at once, and they all claim under its one `_WORKER_ID`.
`Start`, `Create`, `Again`, `Resume`, `AdvanceStep`, `Reconcile`, `Answer`, `Close` and
`FindStale` begin an operation of `browser_assist.py`; `Claim`, `Look`, `Open`, `Apply`,
`Judge`, `MarkApplied`, `Confirm`, `Drop`, `Release`, `WriteEnd` are its steps.  After
each write of a status comes `_sync_blocker()`, one action for each transaction: read
the row again (`ReadRow`), read the blocker (`ReadBlocker`), raise or resolve
(`WriteBlocker`), or find it resolved already (`ResolveLate`); `GiveUpBlocker` is an
exception on the way, which the code swallows.  `Answer` is
`record_verified_custom_answer()`, which works on the live page without a claim.
`Submit` is the candidate in the visible window, `EndExecution`, `GrowIdle`,
`LeaseLapses` and `Crash` the rest of the world.  The module follows
`browser_assist.py` where each exception leads, and `blockers.py` in what each status
does to the open blocker.

### ProviderCircuit, SubmissionCircuit

`ProviderCircuit` is a row of a circuit table and each statement on it as a pure
operator: `Admits`/`Admitted` (`may_attempt()`), `RecordResult`, the slots, the
operator's `ForceClose` and `ForceProbe`.  `SubmissionCircuit` is a set of workers that
use it in the order of `worker.py`: `MayAttempt`, `TakeSlot`, `GiveUp` (no slot: the
probe is released, whoever holds it), `Execute`, `Raise`, `Report`, `Leave`, `Die`.
Beyond the row (`circuit`) and where each worker is (`at`) it keeps which workers were
let through as a probe (`probes`) and how many submissions in a row were reported as
failed (`streak`), for the properties.

### PollQueue, DiscoveryFleet

| Variable | Code |
|---|---|
| `enabled`, `due`, `failures` | `company_registry.enabled`, `next_poll_at <= now`, `consecutive_permanent_failures` |
| `verified` | the portal's `registry_portals` row is pollable |
| `owner`, `live` | `lease_attempt_id`, `lease_expires_at > now` |
| `letter`, `open` | the portal's last `dead_letters` row, and whether it is unresolved |
| `pc`, `portal`, `seen` | where a process is and what it read |
| `streak`, `crashes` | permanent failures of a portal since the counter was cleared while no other attempt stood between a failure and its count; crashes |
| `circuit`, `gate`, `stranded` | (fleet) the provider's circuit row; where each item is with it; an item was cut off while it held a probe or a slot |

`Select` and `Claim` are the two statements of `claim_poll_batch()` on SQLite;
`CooldownSkip`, `Begin`, `Probe`, `Clear`, `Fetch`, `MarkPollResult` are
`_execute_poll()`; `ReadFailures`, `CountFailure`, `UpsertDeadLetter`, `Disable` are
`_handle_poll_failure()` and `record_and_disable()`; `Ack` is the release that ends
every attempt.  `ListDue`, `FetchJobs`, `DiscoverFromRegistry` are the agent's cycle,
`Requeue`, `ResetFailureCounters`, `ResolveDeadLetter` the three transactions of
`requeue()`, `SyncPortal` is `sync_portal_to_operational_registry()`.  `LeaseMayLapse`
is as above; `RequeueOverlaps` says whether a portal may be requeued while a worker is
at it, which the code does not prevent either.

For `PollQueue` the provider's circuit is a refusal that may come at any time.
`DiscoveryFleet` composes it with the circuit's row: `MayAttempt`, `TakeSlot`,
`NoSlot`, `GiveUp` stand before an attempt, `RecordAnswer`, `RecordFailure`,
`RecordDrift` report to the circuit on the way (the probe's answer, and the fetch's
failure after it), `Leave` gives the slot back.  Each of its steps is a step of
`PollQueue` or leaves it alone, so what is proved of the queue holds of the fleet, and
liveness can be asked without assuming anything of what the circuit answers.

### PortalVerification

The life of one portal: `portal` is its row (status, enabled, failures, linked),
`mirror` its row in the table that is polled, `letter` its dead letter, `holder` and
`live` its lease, `provider` the slots and the half-open probe of its provider.  Workers
`Select`, `Take`, `Refuse`, `Enter` (the gates of `runner.py:517-532`), `Probe`,
`ApplyOutcome`, `WriteLetter`, `Disable`, `Finish`; a worker that dies (`Fail`) keeps
its slot and the probe (`Leave`, `ShutOut`).  Desks (the dashboard, the command line, an
acquisition batch) verify, `Edit` and `Requeue` without a lease; both run `Sync`,
`MirrorOn`, `Activate`, `MirrorOff`.  `PollsGiveUp` and `PollsRequeued` are what the poll
queue does to the same rows.  `evidence`, `doubted`, `crossed` are history: failed probes
since a success, whether anything cast doubt on the portal, and whether a race or a
crash came between a status and its mirror.

### AgentOrchestrator, ExclusiveLease

`desired`, `testMode`, `actual`, `owner`, `live` are the row of `agent_run_state`; each
process has the handler its event loop is in (`pc`) and where its loop task is parked
(`task`), because a handler runs alone up to its next `await`.  `Boot`, `Start`,
`Desire`, `Acquire`, `Standby`, `SetStarting`, `RaiseFlags`, `Check`, `BeginCycle`,
`Heartbeat`, `EndCycle`, `SetError`, `Recover`, `Wake` are start and the loop; `Stop`,
`SetStopping`, `StopTimesOut`, `Release`, `SetStopped`, `Shutdown`, `Leave` its end;
`OrphanEnds` ends a cycle whose task was cancelled and whose thread went on (`orphan`): it
works on jobs like any other, and `OneCycleAtATime` counts it.
`ExclusiveLease` states what any lease here promises: it passes on only after it was
given back or its time ran out, also when its holder died, and nobody gives back
another's.  The orchestrator's lease is checked against it by TLC and by proof; the leases of
executions (`SubmissionPipeline!LeasesAreExclusive`), polls
(`PollQueue!LeasesAreExclusive`) and verifications
(`PortalVerification!LeaseIsExclusive`) by proof.  The browser session's lease is not
claimed to: `release_session_lease()` frees the row of a session whoever holds it.

### PostingPolicy, JobPreparation

`PostingPolicy` is pure: `Classify` (the sentences a posting has about sponsorship),
`EmployerProfile`, `RoleSimilarity`, `HistoricalUpgrade` and `DecideSponsorship` (what
is on file of the employer), the filters before storage (`PreFilter`), the gates of the
analysis (`Gates`) and those of the executor (`ExecutorAdmits`).  `JobPreparation` is
one posting from its first poll to its package: `Poll`, `Insert`, `Analyze`, `Decide`,
`WriteAnalysis`, `Reread`, `Generate`, `Write` of the pollers; `Regenerate`, `Refresh`,
`WriteSponsorship` of people; `UpdateState`, the board's moves from each state
(`ManualTargets`, `tracker.py`); `Import` and `Recompute` of filings; `NewYear` and `Age`.

### ResumeVariants

`variant` and `current` are the rows of `resume_variants` of one job by the version of
the profile, `resume` and `promoted` what the job uploads.  `reached` says that a pass
over the jobs gets to this one: the mode, the order by priority with its LIMIT, the end
of the batch and the verdict on feasibility (`scheduler.py:71-108`) decide it, and the
world changes it at any time (`ListMoves`).  `Pick` (stages) and `Ask` (requests) begin,
`Optimize`, `ClaimVariant`, `Finalize` make a variant, `Fetch`, `Approve`, `Promote`
promote the current one, `Package` is the plain resume, `Fail` an exception or a death.

## 3. The runs

### Runs that pass

| Run | Configuration | Shows |
|---|---|---|
| `recovery` | `MCSubmissionPipeline`, `SubmissionRecovery.cfg` (779,540 states) | No request overlaps a run; crashes, exceptions, expiring leases, retries, approvals, tracker moves, regenerated files and sponsorship changes come at any step: an execution sends at most one application (`NoSecondSubmission`), and what it sent is never recorded as not made (`ApplicationsRemembered`), it is attempted at most `MaxAttempts` times although the counter is read at the start of a run and written at its end (`AttemptsBounded`), an ended one stays ended (`EndedForGood`), an unknown outcome moves only when a human resolves it (`UnknownWaits`), and whatever step a crash leaves an execution at, lease expiry brings it to an end or to a human, unless lost slots or a lost probe shut every worker out (`Recovered`) |
| `posting` | `MCSubmissionPipeline`, `SubmissionPosting.cfg` (3,104,910) | A worker and a request over two job rows of one posting, with a crash at any step: a job whose application the provider has gets another execution only on the strength of a job row that does not show it: its mirror is pending or was lost, or the row changed after the request had read it (`AppliedJobsAreRefused`) |
| `approval` | `MCApplicationApproval`, `Approval.cfg` (745,777) | What is sent has an approval whose row, resume, form and answers it matches (`SentAsApproved`); no readiness is approved twice (`OneApprovalPerReady`); every required question that was sent has an answer that is safe for it (`SentAnswered`); a question the manifest reports as answered is one the pipeline fills (`ManifestHonest`) |
| `canary` | `MCCanarySubmission`, `Canary.cfg` (76,021) | Two runs of the canary, each of which may die or raise anywhere: the button of an execution is pressed once, however the calls overlap (`OneClick`), the posting gets at most one application from calls one after the other (`OneApplication`), an unknown outcome keeps the job held (`UnknownIsHeld`), and a claim whose call lives gets its outcome (`ClaimSettles`) |
| `sessions` | `MCBrowserSession`, `Sessions.cfg` (394,645) | Two requests of one process and a call of another: a session is confirmed only after its execution ended, and an execution applied only after a form was submitted (`ConfirmedIsBacked`); the open blocker is the one the session's status calls for, and after writes that crossed, the next that none crosses puts it right (`BlockerFollowsSession`); an abandoned session is ended (`AbandonedSessionsEnd`) |
| `circuit` | `MCSubmissionCircuit`, `Circuit.cfg` (374,146) | Never more submissions at once than slots (`SlotsRespected`), a provider that failed `TripAfter` times in a row is paused (`FailingProviderPaused`), and without crashes and exceptions the circuit always lets an attempt through again (`SelfHeals`) |
| `polling` | `MCDiscoveryFleet`, `Polling.cfg` (411,760) | One poll of a portal at a time (`OnePollAtATime`); a portal given up is on the operators' list (`GivenUpIsListed`) and had `DeadLetterMax` permanent failures (`GivenUpForCause`); behind the circuit, whatever it refuses, a due portal is polled unless an item died inside the circuit (`DuePortalsPolled`); a portal whose probe goes on failing is given up, after each requeue again (`ProbesFailingGivenUp`) |
| `verification` | `MCPortalVerification`, `Verification.cfg` (918,189) | One verifier under a lease at a time (`OneVerifierAtATime`), a portal loses its status only for failed probes, doubt or a human (`DemotedForCause`), what is polled is what is verified once nobody is in between (`MirrorFollows`), and a pending portal is probed again and again unless the provider is shut to every worker (`PendingIsProbed`) |
| `orchestrator` | `MCAgentOrchestrator`, `Orchestrator.cfg` (152,514) | Two processes, abandoned cycles counted: two work at once only after an owner was held up past its lease or gave it back under a cycle that outlasted STOP (`OneCycleAtATime`), the lease implements `ExclusiveLease` (`LeaseIsExclusive`), STOP ends the cycles wherever it was pressed (`StopHonoured`), and a standby takes over from a dead owner (`StandbyTakesOver`) |
| `preparation` | `MCJobPreparation`, `Preparation.cfg` (488,189) | Documents are made only where the posting itself, or recent filings of a matched employer, speak for sponsorship (`PackagedOnEvidence`); an application is not undone while no other call is at work on the row (`AppliedKept`); a stored posting is analyzed in the end (`DiscoveredIsAnalyzed`) |
| `variants` | `MCResumeVariants`, `Variants.cfg` (114,080) | What the job uploads as a promoted variant passed its checks (`PromotedPassed`), and an eligible job that its passes get to has a graded variant in the end, of any profile but one a caller was lost with (`VariantArrives`) |

### The run that ends in a counterexample

| Run | Configuration | Property |
|---|---|---|
| `second_submission` | `MCSubmissionPipeline`, `ViolationSecondSubmission.cfg` | `NoSecondSubmission`, requests overlapping a run |

### Supplementary configurations

They are not among the runs of `PROJECT.json`.

| Configuration | Property | What TLC finds |
|---|---|---|
| `SubmissionOverlap` (546,491 states) | `NothingUnapproved`, `EndedForGood`, `LiveLeaseKept` | Holds, with both regimes TRUE: what is proved without any regime |
| `ViolationApprovedUnrecorded` | `ApprovedIsRecorded` | a row becomes APPROVED with no approval on record |
| `ViolationNeverRecovered` | `AlwaysRecovered` | a worker dies with the last slot, and lease expiry does not bring its execution on |
| `ViolationRegenerate` | `OneApplicationPerJob` | an applied job is made READY_TO_APPLY by regenerating its files |
| `ViolationCircuitWedged` | `NeverDisabled` | an exception during the HALF_OPEN probe keeps the provider shut |
| `ViolationSlotLeak` | `NeverDisabled` | a worker that dies takes its slot with it: the slots of the submission circuit are never reset |
| `ViolationDoublePoll` | `OnePollAtATime` | a batch waits in the thread pool until its lease has lapsed |
| `ViolationSharedLease` | `OneDriver` | two requests of one process share the process's lease, and both drive the session |
| `ViolationLateStatus` | `EndedStaysEnded` | a status is written to a session that had ended |
| `ViolationLostConfirmation` | `UnknownStaysActive` | the canary's unknown outcome is settled under it by a person |
| `ViolationMinorClause` | `NoMinorClause` | a question is answered by an alias that is only a part of its label |
| `ViolationRevertedProfile` | `SentAsApproved` | an edit of the profile, filled in and taken back before the gate |

Further properties are stated in the modules, and TLC finds each violated when it takes
the place of the properties of the configuration named here.

| Configuration | Properties |
|---|---|
| `SubmissionRecovery` | `WithdrawnMayBeQueued`, `RetryIsANewExecution`, `OnlySubmissionsCounted`; `AppliedStands` with `TrackerTargets = {"APPLIED"}` |
| `ViolationSecondSubmission` | `UnknownWaits`: with overlapping runs a slow one writes over the unknown outcome |
| `SubmissionPosting` | `OneApplicationPerJob`, `DuplicatesBlocked`, `JobMirrorsExecution` |
| `Circuit` | `OneProbe`: a worker refused a slot frees the probe of another |
| `Polling` | `BackoffKept`, `PollsFailingGivenUp`, `NeverShutOut`; `CountsAreFresh` with `RequeueOverlaps` or `LeaseMayLapse` TRUE |
| `Verification` | `PendingAlwaysProbed`, `RequeuedIsPending`, `VerifiedIsPolled`, `DisabledNotPolled` |
| `Sessions` | `BlockerInStep`, `NeverGuessed`, `WindowsReturned` |
| `Canary` | `BlockedNotClicked` |
| `Orchestrator` | `CyclesHoldTheLease`, `RestartRecovers`, `RunningLeaseUnexpired`, `WantedRuns` |
| `Preparation` | `AppliedAlwaysKept`, `ReviewedOnTheRow`, `AlwaysAnalyzed`, `LikelyOnRecentFilings`, `RefusalIsSkipped`, `AnalyzedIsPackaged` |
| `Variants` | `VariantAlwaysArrives`, `VariantArrivesUnlisted`, `FreshStaysCurrent`, `LabelNamesResume`, `NeverPromotesStale` |

Each says what one would like to have, and the comment above it what happens instead.

## 4. Disagreements

Each of these is a statement of the repository that a model contradicts.  The first is
the finding of `PROJECT.json`; the configurations named reproduce the others.

*Submission*

* **A second submission.**  `process_execution()` reads the status at
  `executor.py:283` and writes SUBMITTING at `executor.py:528`, unconditionally.  A
  Retry request takes no lease, so a request and a worker that both read a claimable
  status both reach `provider.submit()`.  `docs/application-worker-architecture.md:91-93`
  says that resuming "can never result in a second real submission attempt".
* **Approved, and no approval.**  A retried submission whose automatic gate has closed
  since is written APPROVED although nobody approved it (`ViolationApprovedUnrecorded`).
  `applications/worker.py:274-276` and the check at `doctor.py:129` say that APPROVED
  implies an approval on record.
* **Reconciled as not submitted, refused for good.**  WITHDRAWN is mirrored onto the
  job row, and `eligibility.py:162` refuses a WITHDRAWN job.  `reconcile.py:25-27`
  promises that it "allows a fresh queue_application() call to try again cleanly".
* **An applied job applied to again.**  `generate_assist_outputs()` writes the job's
  state without reading it (`pipeline.py:272`), and the regenerate route calls it for
  any job: APPLIED becomes READY_TO_APPLY, and a new execution submits
  (`ViolationRegenerate`).  `tests/test_applications_gates.py:172` asserts that APPLIED
  is a hard block.
* **A circuit that stays shut.**  An exception during the HALF_OPEN probe neither
  records a result nor frees the probe (`worker.py:279-301`); `force_probe()` acts on
  OPEN only, so nothing but `force_close()` brings the provider back
  (`ViolationCircuitWedged`, `ViolationSlotLeak`).  `circuit.py:13-15`: "NEVER
  permanently disabled by this breaker".
* **Lease expiry is not enough.**  The executions of such a provider stay where they
  are when their leases expire, since no worker is let through to them
  (`ViolationNeverRecovered`).  `docs/application-worker-architecture.md:72-73`: "lease
  expiry alone is now sufficient to recover any of them".

*Browser sessions*

* **Two calls drive one session.**  The claim lets a caller in whose process has the
  lease already (`browser_session.py`, `claim_session()`), and one process serves many
  requests under one `_WORKER_ID`; the release at the end of the first
  (`browser_session.py:316`) does not look whose lease it is, so that another process
  may come in beside the second (`ViolationSharedLease`).  And
  `record_verified_custom_answer()` (`browser_assist.py:803-857`) claims nothing.
  `docs/browser-assist-sessions.md:109-112`: "two concurrent callers for the same
  session never both drive the browser".
* **A blocker that is out of step.**  The status and its blocker are written in
  transactions of their own, with reads before each: of two calls that write a status
  the slower may put up, or take down, the blocker of a status that is gone
  (`BlockerInStep`).  The docstring of `_sync_blocker()` calls it the one chokepoint by
  which the blockers stay in sync.

*What is sent*

* **An answer to a part of the question.**  A label that is nobody's alias is answered by
  the longest alias whose words it contains, wherever they stand (`ViolationMinorClause`).
  The docstring at `mapping.py:107-110` says that a short alias "must not spuriously
  match a long unrelated label that happens to contain the word [...] as a minor clause".
* **The profile at the click, the draft before the gate.**  An approval takes the
  version of the profile at the click and compares it at the gate only; what was
  filled in between from an edit that was taken back goes out
  (`ViolationRevertedProfile`).
* **The manifest and the draft compare choices differently.**  `fill_draft()` wants the
  very choice, the manifest any case of it; `ManifestHonest` says in which direction
  they may differ.
* **Two approvals of one execution.**  Retry Preparation makes a row ready again, and a
  second approval then stands beside the first, both ACTIVE;
  `docs/approval-gated-autonomy.md:68` speaks of at most one for an execution.

*Discovery*

* **Two polls at once.**  A worker leases a batch of up to 50 portals for 120 s, works
  it off with 4 threads, and never extends a lease.  An item whose lease has lapsed is
  polled all the same (`ViolationDoublePoll`).  `docs/polling-leases.md:3-4` "guarantees
  that no two workers ever poll the same portal at the same time".
* **Retrying for ever.**  The failure counter is cleared when the probe answers
  (`runner.py:345`), before the fetch.  A portal whose fetch fails permanently each time
  never gets to the threshold (`PollsFailingGivenUp`).  `workers/dead_letter.py:1-2`:
  "so nothing retries forever".
* **A provider shut out by a dead worker.**  A worker that dies between admission and
  the release of its slot leaves the probe or the slot taken; `reset_inflight_slots()`
  has no caller (`NeverShutOut`).  The portals that wait for their verification are
  behind the same gates (`PendingAlwaysProbed`).  `workers/circuit.py:14-16`: "A provider
  is never permanently disabled by this mechanism".
* **Two results for one attempt.**  A probe that answers and a fetch that fails are both
  reported; the docstring of `record_result()` wants exactly one result per attempt.

*Agent*

* **A cycle without the lease.**  STOP waits 90 s for a cycle and then gives the lease
  back, while the cycle goes on in its thread and another process may begin one beside
  it (`CyclesHoldTheLease`).  `agent/orchestrator.py:241`: "Never keep running cycle
  stages without a valid lease".

*Preparation*

* **A refusal that counts as a conflict.**  "We do not provide visa sponsorship" matches
  a pattern of the promises too, and a refusal becomes LIKELY_SPONSOR and a review
  instead of NO_SPONSORSHIP (`RefusalIsSkipped`), against the docstring of
  `sponsorship/classifier.py`.
* **A condition that counts as a promise.**  "Limited sponsorship is available" is
  confirmed, against the comment above `CONDITIONAL_SPONSOR_PATTERNS`.
* **An old profile of the employer.**  The cached profile outlives the years it was made
  of (`LikelyOnRecentFilings`).
* **Stored and never analyzed.**  A poller that dies after the INSERT leaves a
  DISCOVERED posting, and once the posting is too old the filter keeps every later poll
  from it (`AlwaysAnalyzed`).
* **Packaged and refused.**  The executor's employment gate is stricter than discovery's:
  a posting whose provider says "contract" is packaged and then never applied to.
* **A stale variant promoted.**  The variant is READY when it is fetched; an edit of the
  profile and another caller's variant may make it STALE before it is written onto the
  job (`NeverPromotesStale`).  `resume_optimizer/promotion.py:41-44` "never promotes a
  [...] STALE variant".

## 5. Bounds

| Bound | Value | Why it is enough |
|---|---|---|
| jobs, executions | 1 and 1; 2 and 2 in `posting`; 1 and 2 in `canary` | rows touch each other only through one job (the unique index, the mirror, the check before queueing) and one posting (the duplicate check); two of each exhaust both |
| processes | 2 workers and 1 request in `recovery`, 1 and 1 in `posting`; 2 tabs and 1 worker in `approval`; 2 calls in `canary`; two processes in `orchestrator`; two calls of one process and one of another in `sessions`, 2 of them begun by the candidate beside the scheduler's passes; 1 pass and 1 request in `variants` | a race over one row needs two; a third is a claimer behind a dead worker, a request beside another, or a call that shares a process |
| `MaxAttempts` 2, `AttemptCap` 3 | (1 and 2 in `posting`) | the first failure is retried, the second is final; the cap is one above, so that an extra attempt is visible |
| `MaxFaults`, `MaxCrashes` | 1 | a fault at every step |
| `Slots` | 2 in `recovery` and `verification`, 1 in `posting` | with 2, a fault leaves a slot, and work goes on beside what was lost; with 1 it shuts the provider |
| `Sponsorships`, `TrackerTargets`, `Modes` | two sponsorships, one board move in `recovery` | one verdict of each kind: may submit, may not |
| `MaxEdits` 2, `MaxApprovals` 2 | | a change and its counterpart; an approval and the one after Retry Preparation |
| forms, profiles, files | 3, 2, 2 | a form whose labels tempt the fallback, one whose choice only the second profile answers, one behind a wall |
| circuit | 3 workers, 2 slots, `TripAfter` 2, window 4, minimum 3 | more workers than slots; both ways to trip and the window's restart are reached; the thresholds are smaller than in the code and the theorems hold for all |
| circuit of the fleet | `TripAfter` 1, window 1 | every state of the row is reached with two workers; its thresholds are the business of `circuit` |
| portals | 1 | rows share nothing but the provider's circuit |
| workers, cycles, operators | 2, 1, 1 | two claimers, an unleased poller beside them, a requeue |
| `DeadLetterMax` 2, `MaxLetters` 2, `Threshold` 2 | | one failure that is not enough, one that is; given up, requeued, given up again |
| postings | one of sixteen, each differing from a plain one in one respect | every gate refuses one and admits the others |
| filings | three years, two occupations, before and after an import | every strength of a profile is reached |
| profiles of a variant, makers | 2, 2 | one variant supersedes another; two claim one |

Saturated counters: `failures` and `streak` stop at their threshold, which is all they
are compared with; `received` stops at 2, "many".

## 6. Fairness and deadlock

No action of a fault, of a human or of a provider's answer is fair, unless it is named
here.  What is:

* *Executor.*  The clock (`LeaseExpires`), a worker pool that keeps looking and goes on
  with what it selected (`Select`, `Claim`: the loop of `run_worker`), a process that
  goes on with what it began (`Process`: straight-line code), the rest of a request
  (`RecordApproval`, `Resolve`).  `Begin` is strongly fair: a worker that finds a free
  slot and no lost probe again and again is let through some time, as the circuit's
  cooldown ends (`SelfHeals`).  Where no slot is left or the probe is lost, `Begin` is
  disabled and fairness says nothing: `Recovered` names that case (`ShutOut`), and
  without the name it is violated (`ViolationNeverRecovered`).  A crash disables a
  process's steps, so fairness never undoes it.
* *Circuit.*  The cooldown's clock, and a worker that finishes its item.
* *Fleet.*  The clock (leases, due times, cooldown), workers and cycles that finish what
  they began, operators that finish a requeue they began, and workers that get to one
  due portal as well as to another: `SelectPortal` is strongly fair per portal because a
  portal's candidacy is interrupted whenever a lease covers it, and the claim query
  orders by due time, so a portal that stays due moves to the front.  Nothing is
  assumed of what the circuit answers.
* *Sessions.*  The steps of a call, the clock, and the background scheduler's pass over
  each stale session (`Reap`, strongly fair: a session may be touched in between, and the
  pass comes again every few minutes).
* *Canary.*  The steps of a call: every wait for the browser has a timeout.
* *Verification.*  The steps of workers and desks, the clock; `Enter`, the way through
  circuit and slots, is strongly fair for the reason `Begin` is, and the assumption
  that the provider's other portals do not take the slot each time.  A provider shut by
  dead workers is an exception that `PendingIsProbed` names (`ShutOut`); without it the
  property is violated (`PendingAlwaysProbed`).
* *Orchestrator.*  Handlers, the loop's own steps and the clock; nobody is forced to
  press START or STOP.
* *Preparation.*  A poll of the board comes again and again, and a caller finishes what it
  began.
* *Variants.*  A caller finishes what it began, and a pass that gets to the job takes it
  (weak fairness).  That its passes get to it is no assumption of the specification but
  the premise of `VariantArrives`, `<>[]reached`: the mode may be OFF, and jobs of higher
  priority for which nothing can be made fill the list for ever
  (`VariantArrivesUnlisted`).

`CHECK_DEADLOCK FALSE` appears where the program may stop: the ids of an instance are
used up (`recovery`, `posting`, `canary`, `sessions`), the application is done
(`approval`), the portal rests (`verification`), the job has all it can get
(`preparation`, `variants`).  The circuit, polling and orchestrator runs check deadlock.

## 7. Proofs

All theorems hold for every value of the constants that satisfies the modules'
assumptions, which TLC evaluates in each run: kinds of process are disjoint, bounds are
natural numbers, `None` is not one of the values it is told from, `FieldOrder` is a
sequence of the fields and the words of a label are finitely many.  The regime constants
and a few bounds are further hypotheses of some theorems; the code does not enforce
them, and section 4 shows what their absence costs.  Every safety property that a
passing run checks is the subject of a theorem.

An invariant is first checked by TLC as part of a run's state space, then proved
inductive, one lemma for each action, or for each way in which several actions write
the same thing.

**SubmissionPipelineProofs.**  `TypeCorrect`: `TypeInv`, which adds to the types that a
call in progress works on an existing row (`InCall`) and that a row not yet created is
inactive (`Row`), is inductive.

*No overlap* (both regimes FALSE).  `AtMostOneSubmission`: `NoSecondSubmission` is not
inductive, since a state in which a process stands at `submit` for an execution that has
already sent is not excluded by it.  `SubmissionInv` excludes it by three facts.
`Knows`: a call before its submission works on a row whose provider has received
nothing, and each step knows the status it wrote.  `Remembers`: an active row of which
the provider has something says so in its status, SUBMITTING, SUBMITTED or unknown, so
that the resume guard stops the next run.  `OneRunner`: nobody else can change the row
in between, and a worker runs only under its own live lease.  `UnknownOutcomesWait`
comes from the same invariant, and so does `AttemptsAreBounded`, with `CountInv`: the
counter a call read at the top is still the row's when it writes the successor
(`Counts`), and an active row that is not in the middle of an attempt, nor of an unknown
outcome, has an attempt left (`Counted`).

`ApplicationsAreRemembered` needs more than `SubmissionInv`, which speaks of active
rows: `MemoryInv` adds that a row whose provider has the application is in flight,
unknown or APPLIED even when it has ended, and has not ended while it is one of the
first two (`Kept`), and that calls work on active rows and a person who resolves an
outcome as not made is right (`Honest`).  From it and from what `queue_application()`
reads follows `AppliedJobsRefused` (`AppliedJobsAreRefused`), for any number of jobs,
executions, workers and requests, and with crashes: a job row that shows the execution which sent
the application refuses the queue, so a second execution rests on one that does not, or
on one read before.

*Always.*  `ExecutionsEndForGood` (`update_execution()` only clears `active`),
`LiveLeasesAreKept` (the release is guarded by the attempt id), `LeasesImplemented` (each
execution's lease is an `ExclusiveLease`), and `NothingSentUnapproved`, whose invariant
`ConsentInv` says that a call past the gate in ASSIST mode has an approval on record,
and that approvals and modes are never taken back.

**SubmissionGatesProofs, circuit.**  `CircuitInvariant`, then `SlotLimitHolds` and
`FailuresPause`.  The invariant: the holders of slots are at most those counted (a
crash only adds to the count), and the row's own failure counter equals the reported
streak, with the window's failures at most its attempts.

**SubmissionGatesProofs, approval.**  `ApprovalInv` follows a run through its gates.  One
run of the row at a time (`OneRun`) is at the step its status says (`InStep`); what it
read of profile, file, form and posting is what the row's hash and fingerprint stand
for, and no approval is of a later profile than the one it read (`Relies`); a row that
is ready has a verified resume (`ReadyRow`); approvals are of verified resumes
(`Approved`); what was sent is covered by its approval and answered in full
(`Delivered`).  From it: `SentIsApproved`, which needs that no edit of the profile is
taken back (`~ProfileReverts`): the gate compares versions of a file, and
`ViolationRevertedProfile` shows the history in between that it cannot see;
`ApprovedWhenReady`; `NothingIsGuessed` and `ManifestIsHonest`, for every form, profile
and alias table, from lemmas on `MatchField` (which field a label can match, and that a
strict field is matched by a whole alias only), on the draft and on the manifest.
`AttemptsAreLimited` adds `Budget`: the count is ahead of what was sent, and a status
from which a submission may begin leaves an attempt.

**PollQueueProofs.**  `TypeCorrect` (with where each process is `Placed` and
`LettersBounded`).  `OnePollOfAPortal` (no lapsing lease): `LeaseInv` adds that a
working item holds its portal's live lease (`Held`).  `GivenUpPortalsAreListed` (in
addition no requeue under a worker): `LetterInv` adds that operators and workers are
never at one portal (`Apart`) and that a disabled portal is listed, also between the
steps of giving it up (`Listed`).  `PortalsAreGivenUpForCause` needs neither premise: any
number of attempts and requeues may meet at a portal, and lost updates only lower the
counter.  `CauseInv` says that the counter, as stored and as a worker read it, and one
failure more for each attempt that has yet to count its own stay within the failures
seen (`streak`); it counts attempts as the cardinality of a finite set.  `streak` starts
again when the counter is cleared, unless another attempt is between its failure and
the count, which then survives the clearing (`StartsAfresh`).
`LeasesImplemented`, in both regimes: the lease of every portal is an `ExclusiveLease`.
`FleetImplementsQueue`: every behaviour of `DiscoveryFleet` is one of `PollQueue`, step
by step, so the theorems above hold behind the circuit too.

**AgentProofs, orchestrator.**  `TypeCorrect`; `CyclesExclude` (`OneCycleAtATime`: two
processes work at once, cycles of cancelled tasks included, only if one of them was held
up past its lease or has given it back under a cycle that outlived its STOP; the
invariant adds that until that cleanup an abandoned cycle is covered by the lease too,
`GivenUpHoldsLease`);
`FlagsFollow` (the executor's flags are on in a process only while its loop is past the
point that raises them); `LeaseImplemented`: the refinement of `ExclusiveLease`, each
step of the lease's row mapped to a step of the abstract one or to a stutter.

**AgentProofs, preparation.**  `PreparationInductive`: `PreparationInv` says that the
sponsorship on the row, and every verdict a caller carries, says no more than the
sentences of the posting allow, whatever is on file of the employer (`Evidence`:
CONFIRMED only where they promise and nowhere refuse, LIKELY not where they only
refuse), that a caller has
passed the gates before its step (`Behind`), and that while no two callers met on the
row (`Alone`) the row is as the caller read it.  From it `PreparationTypes`,
`DocumentsOnEvidence` (`PackagedOnEvidence`) and `ApplicationsAreKept` (`AppliedKept`).

**BrowserSessionProofs.**  For any number of processes, of calls in one process, of
sessions and crashes, with lapsing leases: `TypeCorrect`; `ConfirmationsBacked` (a status of
CONFIRMED is written only from evidence in a window the form was submitted in);
`BlockersFollow` (`BlockerFollowsSession`), over the single transactions of
`_sync_blocker()`.  Its invariant: one session is active and has not ended
(`RowsMakeSense`), a call that sees to a blocker is about a row that is there
(`SyncsMakeSense`); and unless writes crossed, one call at a time sees to the blocker,
what it read is so still (`OneSync`), and the blocker of the active session is the one
its status calls for, or that call is on its way to write it (`BlockerKeepsUp`).

**PortalVerificationProofs.**  `TypeCorrect`, `OnlyConfirmedPolled`, `VerifiersExclude`
(the holder of a live lease is the only worker at work), `LeasesKept`,
`LeaseImplemented` (the refinement of `ExclusiveLease`), `DemotionsJustified` (what a
call read of the portal is backed by the failed probes it counts, and by doubt), and
`MirrorIsFollowed` (`MirrorFollows`): `Mirrored` says of every caller about to write the
mirror that its reason still holds, of an enabled mirror that its portal is linked or
being linked, and of one that does not follow its portal that a sync is on its way, all
while no race or crash is unhealed; the history variable `crossed` names the caller
whose sync heals one.

**CanarySubmissionProofs.**  `TypeCorrect`; `PressedOnce` (an execution's button is
clicked once, whoever runs: the claim is never given back once a click was possible);
`AppliedOnce` (`OneApplication`: the posting gets at most one application) and
`UnknownHeld`, both with the `excused` history, which names what the code leaves to
people.

**ResumeVariantsProofs.**  `TypeCorrect`; `OneIsCurrent` and `PromotedDidPass`, from
`VariantInv`: a row is graded by the caller that claimed it (`Claimed`), one row is
current, and what was promoted has passed.

## 8. Only model-checked

* Liveness (`Recovered`, `SelfHeals`, `DuePortalsPolled`, `ProbesFailingGivenUp`,
  `StopHonoured`, `StandbyTakesOver`, `AbandonedSessionsEnd`, `ClaimSettles`,
  `PendingIsProbed`, `DiscoveredIsAnalyzed`, `VariantArrives`): fairness and ENABLED are
  out of the prover's reach.
* What TLC finds violated (section 3) is a fact about instances and needs no proof.

## 9. Abstractions

*Executor.*  The second write of STARTED (`executor.py:337-339`) is folded into the
first.  The duplicate check and the INSERT of `queue_application()` are one step, after
the step that read the job, as are the reads of one gate: two reads in a row with no
write of their own in between.
READY_TO_APPLY stands also for REVIEW_REQUIRED: the two are treated alike.  Form
contents, drafts, packages, fingerprints, the event log, blockers and notifications are
left out: their verdicts are nondeterministic, no later step reads them back.
`received` counts what the pipeline sent, not what a human submitted in a browser.
Whoever reconciles answers truthfully.

*Approval.*  One row, in ASSIST mode, whose runs do not overlap (that is
`SubmissionPipeline`'s matter).  The waiver of the mock provider's demo answers, handoff
and reconciliation, the order of the words of a label, the category a verified answer is
filed under, employment type and resume variant (compared as the other parts of an
approval are) are left out.  `reapprove_if_stale()` has no caller.  The resume stands by
its verified content, although its path is read again at the submission.

*Canary.*  The candidate's own click, the background pass over sessions, withdrawal and
manual resolutions other than `Reconcile` are left out; `provider_submit_claim.py` and
`provider_submit_contract.py` have no engine that calls them.

*Sessions.*  One execution.  PAUSED stands for all statuses PAUSED_*.  What a page holds
is an input; discovery, filling and uploading are not modelled, nor is
`pause_session()`, which has no caller.  The thread that a session's page operations run
on is left out: it puts single operations in a row, not calls.  The unique violation
that `raise_blocker()` handles is PostgreSQL's; its UPDATE and INSERT are one transaction
on either.

*Circuit.*  One provider (rows are independent).  Each operation is atomic, as under
SQLite's write lock; on PostgreSQL two of them could lose an update, which is not
modelled.  `consecutive_failures` saturates.

*Poll queue and fleet.*  The claim in two statements is SQLite's; on PostgreSQL the
claim with SKIP LOCKED is atomic, a subset of this behaviour.  Jobs, their deduplication
and scoring, the length of intervals, sharding and worker rows are left out.  Requeues
are bounded by `MaxLetters`.  The fleet's provider has a structural probe; exceptions
out of database calls are left out; the verification queue's items, which go through the
same circuit, are not part of the fleet, and the agent's cycle asks no circuit, as in the
code.

*Verification.*  One portal, which has a tenant; CANDIDATE stands for DISCOVERED too; the
mirror's row belongs to this portal only.  Migration between tenants, acquisition,
PostgreSQL's claim and sharding are left out.  Of the provider the slots and a lost
half-open probe are kept; what else the circuit refuses is nondeterministic.

*Orchestrator.*  What a cycle does is other components' matter; counters and the activity
log are left out.

*Preparation.*  One posting from one source, whose text never changes (nothing calls
`reanalyze_job()`).  A sentence is known by the pattern lists it matches.  Computing and
storing an employer's profile is one step; profiles have at most ten occupations, and
undated filings, the rounding of scores at the threshold, pasted postings, trends and
the review queue are left out.

*Variants.*  A variant's identity is the version of the profile (text and optimizer do
not change); the job row is `eligible`; grades are nondeterministic.  The pass over
all jobs is `reached`, which may change at any time: mode, priorities, LIMIT, batch and
feasibility are facts about other jobs and settings.

*Not modelled* (with reasons in `PROJECT.json`): worker fleet housekeeping, rate limits
and budgets, provider connectors, dashboards, storage, configuration and notifications:
they mark rows for display, count, compute on texts or do I/O.

## 10. Plan

1. *The doctor's checks* (`applications/doctor.py`) as predicates over
   `SubmissionPipeline` and `BrowserSession`: which states they name that the program
   reaches in good health, and which stuck states they miss.
2. *The fill pass of a browser session* (`browser_runtime.py`): what a page holds as a
   record instead of an input.
3. *The verification queue behind the whole discovery circuit*, beside the poll queue:
   `PortalVerification` keeps its slots and its lost probe, `DiscoveryFleet` all of it.
4. *Proofs*: an abstract submit-once application, with an unknown outcome, that
   `SubmissionPipeline` and `CanarySubmission` both implement.

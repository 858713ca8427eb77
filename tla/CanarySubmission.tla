-------------------------- MODULE CanarySubmission --------------------------
(***************************************************************************)
(* The one path that ever presses a real submit button: the Greenhouse     *)
(* canary (applications/greenhouse_canary.py), the contract it checks      *)
(* (greenhouse_submit_contract.py), the engine that drives the page and    *)
(* judges what it shows (greenhouse_submit_engine.py), and the submit-once *)
(* claim of the execution (greenhouse_submit_claim.py).                    *)
(*                                                                         *)
(* A call is one run of the command line, a process of its own: no call    *)
(* sees the window of another.  Each step is one database transaction or   *)
(* one use of the browser.  Its session is a row of                        *)
(* browser_assist_sessions, of which module BrowserSession has the whole   *)
(* story; here are the parts start_session() and close_session() play.     *)
(* All executions are of one job, and what the posting got is counted.     *)
(***************************************************************************)
EXTENDS Naturals, FiniteSets, ExecutionModel

CONSTANTS
  Calls,       \* runs of the canary
  Executions,  \* execution ids of the job
  Sessions,    \* session ids of the job
  MaxCalls,    \* bound on the runs begun
  MaxFaults,   \* bound on crashes and on browser calls that raise
  None         \* no execution, no session, no call, no outcome

ASSUME CanaryAssumption ==
  /\ None \notin Executions \cup Sessions \cup Calls
  /\ MaxCalls \in Nat /\ MaxFaults \in Nat

VARIABLES
  status,      \* application_executions.status
  active,      \* application_executions.active
  jobState,    \* jobs.application_state
  attempted,   \* greenhouse_submit_claims.submit_attempted
  outcome,     \* greenhouse_submit_claims.outcome, None until one is recorded
  sessStatus,  \* browser_assist_sessions.status, None before the row exists
  sessActive,  \* browser_assist_sessions.active
  lessee,      \* lease_owner of a lease that has not expired, else None
  pc,          \* where each call is
  frame,       \* its local variables
  clicks,      \* history: clicks dispatched for each execution
  received,    \* history: applications the posting got, counted up to two
  excused,     \* history: two calls ran at the same time, or a person settled the
               \* execution under a call, or a call died between a status and its
               \* mirror onto the job
  dropped,     \* history: executions whose call died, or raised, between its
               \* claim and the record of an outcome
  begun, faults

execVars == <<status, active, jobState>>
claimVars == <<attempted, outcome>>
sessVars == <<sessStatus, sessActive, lessee>>
callVars == <<pc, frame>>
history  == <<clicks, received, excused, dropped>>
bounds   == <<begun, faults>>
vars == <<execVars, claimVars, sessVars, callVars, history, bounds>>

SubmitOutcome == {"CONFIRMED", "REJECTED", "BLOCKED", "SUBMISSION_STATUS_UNKNOWN"}

\* PAUSED stands for every status of a live session but READY_FOR_FINAL_SUBMIT.
SessionStatus == {"STARTING", "PAUSED", "READY_FOR_FINAL_SUBMIT", "CLOSED"}

Opening == {"contract", "check", "start", "take", "claim", "drive", "release"}
Engine  == {"fresh", "live", "acquire", "click", "record", "settle", "mirror", "close"}
Steps   == {"idle"} \cup Opening \cup Engine

\* exec: execution_id; sess: session_id; created: this call made the row; seen: the
\* status start_session() returns, None when it returns no session; window: the
\* page is open in this process; result: the SubmitOutcome to persist.
Frames ==
  [exec : Executions \cup {None}, sess : Sessions \cup {None}, created : BOOLEAN,
   seen : SessionStatus \cup {None}, window : BOOLEAN, result : SubmitOutcome \cup {None}]
NoFrame ==
  [exec |-> None, sess |-> None, created |-> FALSE, seen |-> None, window |-> FALSE,
   result |-> None]

Exec(c) == frame[c].exec
Sess(c) == frame[c].sess
Running == {c \in Calls : pc[c] # "idle"}

\* get_active_execution_for_job(): the index admits one.
ActiveExecutions == {e \in Executions : active[e]}
ActiveSessions == {s \in Sessions : sessActive[s]}

Goto(c, step) == pc' = [pc EXCEPT ![c] = step]
Return(c) == Goto(c, "idle") /\ frame' = [frame EXCEPT ![c] = NoFrame]
FinishWith(c, result) ==
  /\ Goto(c, "record")
  /\ frame' = [frame EXCEPT ![c].result = result]

-----------------------------------------------------------------------------
(* Before the browser. *)

\* check_gates(): asked for explicitly, and an approved execution is active.
\* Only an approved execution exists here; whether its approval is still current
\* is an input, here and in the contract.
Begin(c) ==
  /\ pc[c] = "idle" /\ begun < MaxCalls
  /\ ActiveExecutions # {}
  /\ begun' = begun + 1
  /\ excused' = (excused \/ Running # {})
  /\ Goto(c, "contract")
  /\ UNCHANGED <<execVars, claimVars, sessVars, frame, clicks, received, dropped, faults>>

\* build_submit_contract() reads the active execution and its claim first ...
ReadClaim(c) ==
  /\ pc[c] = "contract"
  /\ \/ \E e \in ActiveExecutions :
          /\ ~attempted[e]
          /\ Goto(c, "check") /\ frame' = [frame EXCEPT ![c].exec = e]
     \/ (\A e \in ActiveExecutions : attempted[e]) /\ Return(c)
  /\ UNCHANGED <<execVars, claimVars, sessVars, history, bounds>>

\* ... and asks the posting, the form, the approval and the documents after that.
Check(c) ==
  /\ pc[c] = "check"
  /\ \/ Goto(c, "start") /\ UNCHANGED frame
     \/ Return(c)
  /\ UNCHANGED <<execVars, claimVars, sessVars, history, bounds>>

-----------------------------------------------------------------------------
(* browser_assist.start_session(). *)

Start(c) ==
  /\ pc[c] = "start"
  /\ IF jobState \in QueueableStates THEN Goto(c, "take") /\ UNCHANGED frame ELSE Return(c)
  /\ UNCHANGED <<execVars, claimVars, sessVars, history, bounds>>

\* An active session of the job is taken up, whoever began it; or one is created.
\* The index on the job makes one step of the look and the INSERT.
Take(c) ==
  /\ pc[c] = "take"
  /\ \/ \E s \in ActiveSessions :
          /\ Goto(c, "claim") /\ frame' = [frame EXCEPT ![c].sess = s]
          /\ UNCHANGED sessVars
     \/ /\ ActiveSessions = {}
        /\ \E s \in Sessions : sessStatus[s] = None
        /\ LET s == CHOOSE r \in Sessions : sessStatus[r] = None IN
             /\ sessStatus' = [sessStatus EXCEPT ![s] = "STARTING"]
             /\ sessActive' = [sessActive EXCEPT ![s] = TRUE]
             /\ frame' = [frame EXCEPT ![c].sess = s, ![c].created = TRUE]
        /\ Goto(c, "claim")
        /\ UNCHANGED lessee
     \/ Return(c) /\ UNCHANGED sessVars               \* no URL, or no resume
  /\ UNCHANGED <<execVars, claimVars, history, bounds>>

\* The engine goes on with READY_FOR_FINAL_SUBMIT, and blocks on anything else.
Decide(c, st) ==
  IF st = "READY_FOR_FINAL_SUBMIT" THEN Goto(c, "fresh") /\ frame' = [frame EXCEPT ![c].seen = st]
  ELSE /\ Goto(c, "record")
       /\ frame' = [frame EXCEPT ![c].seen = st, ![c].result = "BLOCKED"]

\* _claim_or_conflict(): the row as it is comes back to a call that may not touch
\* the browser, and start_session() returns it like one that may.
Claim(c) ==
  LET s == Sess(c) IN
  /\ pc[c] = "claim"
  /\ IF sessActive[s] /\ lessee[s] = None
     THEN /\ lessee' = [lessee EXCEPT ![s] = c]
          /\ Goto(c, "drive") /\ frame' = [frame EXCEPT ![c].seen = sessStatus[s]]
     ELSE Decide(c, sessStatus[s]) /\ UNCHANGED lessee
  /\ UNCHANGED <<execVars, claimVars, sessStatus, sessActive, history, bounds>>

\* update_session(status)
WriteSession(s, st) ==
  /\ sessStatus' = [sessStatus EXCEPT ![s] = st]
  /\ sessActive' = [sessActive EXCEPT ![s] = sessActive[s] /\ st # "CLOSED"]

\* A window opens and one discovery pass fills the form; or there is no slot for a
\* window; or the page raises, and start_session() with it.
Drive(c) ==
  LET s == Sess(c) IN
  /\ pc[c] = "drive"
  /\ Goto(c, "release")
  /\ \/ \E st \in {"PAUSED", "READY_FOR_FINAL_SUBMIT"} :
          /\ WriteSession(s, st)
          /\ frame' = [frame EXCEPT ![c].seen = st, ![c].window = TRUE]
     \/ /\ frame[c].created
        /\ WriteSession(s, "CLOSED")
        /\ frame' = [frame EXCEPT ![c].seen = None]
     \/ ~frame[c].created /\ UNCHANGED <<sessStatus, sessActive, frame>>
     \/ frame' = [frame EXCEPT ![c].seen = None] /\ UNCHANGED <<sessStatus, sessActive>>
  /\ UNCHANGED <<execVars, claimVars, lessee, history, bounds>>

\* release_session_lease(), whoever holds it.
Release(c) ==
  /\ pc[c] = "release"
  /\ lessee' = [lessee EXCEPT ![Sess(c)] = None]
  /\ IF frame[c].seen = None THEN Return(c) ELSE Decide(c, frame[c].seen)
  /\ UNCHANGED <<execVars, claimVars, sessStatus, sessActive, history, bounds>>

-----------------------------------------------------------------------------
(* run_greenhouse_submit(), from READY_FOR_FINAL_SUBMIT on. *)

\* The contract once more: of the execution that is active now, and without its
\* claim, which is step 8 and NOT_YET_CHECKED.
Fresh(c) ==
  /\ pc[c] = "fresh"
  /\ \/ ActiveExecutions # {} /\ Goto(c, "live") /\ UNCHANGED frame
     \/ FinishWith(c, "BLOCKED")
  /\ UNCHANGED <<execVars, claimVars, sessVars, history, bounds>>

\* _get_live() and _scan_final_submit_controls(): exactly one submit button.
Scan(c) ==
  /\ pc[c] = "live"
  /\ \/ ~frame[c].window /\ FinishWith(c, "SUBMISSION_STATUS_UNKNOWN")
     \/ frame[c].window /\ Goto(c, "acquire") /\ UNCHANGED frame
     \/ frame[c].window /\ FinishWith(c, "BLOCKED")
  /\ UNCHANGED <<execVars, claimVars, sessVars, history, bounds>>

\* MUTANT: the claim is free until an outcome is on record.
FreeUntilOutcome(e) == outcome[e] = None

\* WHERE submit_attempted = 0
FreeClaim(e) == ~attempted[e]

\* acquire_submit_claim(); the loser's refusal is logged and not recorded.
AcquireSubmitClaim(c) ==
  LET e == Exec(c) IN
  /\ pc[c] = "acquire"
  /\ IF FreeClaim(e)
     THEN attempted' = [attempted EXCEPT ![e] = TRUE] /\ Goto(c, "click")
     ELSE Goto(c, "close") /\ UNCHANGED attempted
  /\ UNCHANGED <<execVars, outcome, sessVars, frame, history, bounds>>

\* What the engine may make of the page after the click.  A page confirms what
\* the posting got and rejects what it did not; a duplicate it had before, a
\* redirect off the provider's hosts, a lost connection or a silence tell nothing.
Judgements(got) ==
  {"BLOCKED", "SUBMISSION_STATUS_UNKNOWN"} \cup (IF got THEN {"CONFIRMED"} ELSE {"REJECTED"})

Get(got) == received' = IF got /\ received < 2 THEN received + 1 ELSE received

\* _click_and_observe(), and the outcome.
Click(c) ==
  LET e == Exec(c) IN
  /\ pc[c] = "click"
  /\ \/ FinishWith(c, "SUBMISSION_STATUS_UNKNOWN") /\ UNCHANGED <<clicks, received>>
     \/ \E got \in BOOLEAN :
          /\ clicks' = [clicks EXCEPT ![e] = clicks[e] + 1]
          /\ Get(got)
          /\ \E result \in Judgements(got) : FinishWith(c, result)
  /\ UNCHANGED <<execVars, claimVars, sessVars, excused, dropped, bounds>>

-----------------------------------------------------------------------------
(* _finish(): one transaction after the other. *)

\* MUTANT: an outcome that nobody knows is not worth a row.
RecordKnown(c) ==
  IF frame[c].result # "SUBMISSION_STATUS_UNKNOWN"
  THEN outcome' = [outcome EXCEPT ![Exec(c)] = frame[c].result]
  ELSE UNCHANGED outcome

\* record_outcome(): an UPDATE of the claim, by whoever comes; where no call has
\* claimed yet there is no row to update.
RecordOutcome(c) ==
  IF attempted[Exec(c)]
  THEN outcome' = [outcome EXCEPT ![Exec(c)] = frame[c].result]
  ELSE UNCHANGED outcome

\* A BLOCKED outcome leaves the execution as it is.
Record(c) ==
  /\ pc[c] = "record"
  /\ RecordOutcome(c)
  /\ Goto(c, IF frame[c].result = "BLOCKED" THEN "close" ELSE "settle")
  /\ UNCHANGED <<execVars, attempted, sessVars, frame, history, bounds>>

\* MUTANT: a click nobody answered counts as a failed submission.
StatusOfUnknownFailed(result) ==
  IF result = "CONFIRMED" THEN "APPLIED" ELSE "PERMANENT_SUBMISSION_FAILURE"

StatusOf(result) ==
  CASE result = "CONFIRMED" -> "APPLIED"
    [] result = "REJECTED" -> "PERMANENT_SUBMISSION_FAILURE"
    [] OTHER -> "SUBMISSION_STATUS_UNKNOWN"

\* update_execution(): an UPDATE that asks nothing of the row, and that only
\* takes active away ...
Settle(c) ==
  LET e == Exec(c)
      st == StatusOf(frame[c].result)
  IN
  /\ pc[c] = "settle"
  /\ status' = [status EXCEPT ![e] = st]
  /\ active' = [active EXCEPT ![e] = active[e] /\ st \notin TerminalStatuses]
  /\ Goto(c, "mirror")
  /\ UNCHANGED <<jobState, claimVars, sessVars, frame, history, bounds>>

\* ... then mirror_job_state(), the blocker or the receipt.
Mirror(c) ==
  /\ pc[c] = "mirror"
  /\ jobState' = MirrorOf(StatusOf(frame[c].result))
  /\ Goto(c, "close")
  /\ UNCHANGED <<status, active, claimVars, sessVars, frame, history, bounds>>

\* finally: close_session(): the window of this process, and the row.
CloseSession(c) ==
  /\ pc[c] = "close"
  /\ WriteSession(Sess(c), "CLOSED")
  /\ Return(c)
  /\ UNCHANGED <<execVars, claimVars, lessee, history, bounds>>

-----------------------------------------------------------------------------
(* What goes wrong, and what people do. *)

\* Before or after the click, live.run() gives up on the browser thread and its
\* exception passes through: nothing is recorded, the session is closed.
Raise(c) ==
  /\ pc[c] \in {"live", "click"} /\ frame[c].window /\ faults < MaxFaults
  /\ faults' = faults + 1
  /\ IF pc[c] = "click"
     THEN /\ dropped' = [dropped EXCEPT ![Exec(c)] = TRUE]
          /\ \/ UNCHANGED <<clicks, received>>
             \/ /\ clicks' = [clicks EXCEPT ![Exec(c)] = clicks[Exec(c)] + 1]
                /\ \E got \in BOOLEAN : Get(got)
     ELSE UNCHANGED <<dropped, clicks, received>>
  /\ Goto(c, "close")
  /\ UNCHANGED <<execVars, claimVars, sessVars, frame, excused, begun>>

\* The process dies, and its window with it; rows and leases stay.
Crash(c) ==
  /\ pc[c] # "idle" /\ faults < MaxFaults
  /\ faults' = faults + 1
  /\ dropped' = IF pc[c] \in {"click", "record"}
                THEN [dropped EXCEPT ![Exec(c)] = TRUE] ELSE dropped
  /\ excused' = (excused \/ pc[c] = "mirror")
  /\ Return(c)
  /\ UNCHANGED <<execVars, claimVars, sessVars, clicks, received, begun>>

\* The lease of a dead call, or of one that takes its time.
LeaseLapses(s) ==
  /\ lessee[s] # None
  /\ lessee' = [lessee EXCEPT ![s] = None]
  /\ UNCHANGED <<execVars, claimVars, sessStatus, sessActive, callVars, history, bounds>>

\* The job is queued, prepared and approved (SubmissionPipeline has the steps):
\* no execution of it is active and its state admits one.
Approve(e) ==
  /\ status[e] = NoStatus /\ ActiveExecutions = {} /\ jobState \in QueueableStates
  /\ status' = [status EXCEPT ![e] = "APPROVED"]
  /\ active' = [active EXCEPT ![e] = TRUE]
  /\ jobState' = "APPROVED"
  /\ UNCHANGED <<claimVars, sessVars, callVars, history, bounds>>

\* reconcile_execution(): the operator asks the employer, and answers truly.
Reconcile(e) ==
  LET st == IF received > 0 THEN "APPLIED" ELSE "WITHDRAWN" IN
  /\ status[e] = "SUBMISSION_STATUS_UNKNOWN"
  /\ status' = [status EXCEPT ![e] = st]
  /\ active' = [active EXCEPT ![e] = FALSE]
  /\ jobState' = MirrorOf(st)
  /\ excused' = (excused \/ Running # {})
  /\ UNCHANGED <<claimVars, sessVars, callVars, clicks, received, dropped, bounds>>

-----------------------------------------------------------------------------
Init ==
  /\ status = [e \in Executions |-> NoStatus]
  /\ active = [e \in Executions |-> FALSE]
  /\ jobState = "READY_TO_APPLY"
  /\ attempted = [e \in Executions |-> FALSE]
  /\ outcome = [e \in Executions |-> None]
  /\ sessStatus = [s \in Sessions |-> None]
  /\ sessActive = [s \in Sessions |-> FALSE]
  /\ lessee = [s \in Sessions |-> None]
  /\ pc = [c \in Calls |-> "idle"]
  /\ frame = [c \in Calls |-> NoFrame]
  /\ clicks = [e \in Executions |-> 0]
  /\ received = 0
  /\ excused = FALSE
  /\ dropped = [e \in Executions |-> FALSE]
  /\ begun = 0 /\ faults = 0

Step(c) ==
  \/ ReadClaim(c) \/ Check(c) \/ Start(c) \/ Take(c) \/ Claim(c) \/ Drive(c) \/ Release(c)
  \/ Fresh(c) \/ Scan(c) \/ AcquireSubmitClaim(c) \/ Click(c)
  \/ Record(c) \/ Settle(c) \/ Mirror(c) \/ CloseSession(c)

Next ==
  \/ \E c \in Calls : Begin(c) \/ Step(c) \/ Raise(c) \/ Crash(c)
  \/ \E s \in Sessions : LeaseLapses(s)
  \/ \E e \in Executions : Approve(e) \/ Reconcile(e)

Spec == Init /\ [][Next]_vars

\* A process runs on unless it dies; whatever blocks it has a timeout.
FairSpec == Spec /\ \A c \in Calls : WF_vars(Step(c))

-----------------------------------------------------------------------------
(* Properties. *)

\* Every variable keeps its type; what a frame lacks, its step does not need.
TypeOK ==
  /\ status \in [Executions -> ExecutionStatus \cup {NoStatus}]
  /\ active \in [Executions -> BOOLEAN]
  /\ jobState \in JobStates
  /\ attempted \in [Executions -> BOOLEAN]
  /\ outcome \in [Executions -> SubmitOutcome \cup {None}]
  /\ sessStatus \in [Sessions -> SessionStatus \cup {None}]
  /\ sessActive \in [Sessions -> BOOLEAN]
  /\ lessee \in [Sessions -> Calls \cup {None}]
  /\ pc \in [Calls -> Steps]
  /\ frame \in [Calls -> Frames]
  /\ clicks \in [Executions -> Nat]
  /\ received \in 0..2
  /\ excused \in BOOLEAN
  /\ dropped \in [Executions -> BOOLEAN]
  /\ begun \in 0..MaxCalls /\ faults \in 0..MaxFaults

\* However calls overlap, crash and begin again, the submit button is pressed at
\* most once for an execution, and never before its claim.
OneClick == \A e \in Executions : clicks[e] <= (IF attempted[e] THEN 1 ELSE 0)

\* Calls one at a time: the posting gets one application.  An answer that was
\* refused, unknown or lost never leads to a fresh execution that applies again.
OneApplication == excused \/ received <= 1

\* An execution whose outcome nobody knows stays active, so that no second one can
\* be queued until a person has settled it.
UnknownStaysActive ==
  \A e \in Executions : status[e] = "SUBMISSION_STATUS_UNKNOWN" => active[e]

\* The same, of calls one at a time.
UnknownIsHeld == excused \/ UnknownStaysActive

\* BLOCKED means that nothing was pressed.
BlockedNotClicked ==
  \A e \in Executions : outcome[e] = "BLOCKED" => clicks[e] = 0

\* A claim that was taken ends in a recorded outcome, unless its call died or raised.
ClaimSettles == \A e \in Executions : attempted[e] ~> (outcome[e] # None \/ dropped[e])
=============================================================================

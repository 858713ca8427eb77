---------------------- MODULE SubmissionPipelineProofs ----------------------
(***************************************************************************)
(* Proofs about SubmissionPipeline, for any number of jobs, executions,    *)
(* workers and requests and any bound on retries and faults.               *)
(***************************************************************************)
EXTENDS SubmissionPipeline, TLAPS

USE DEF Procs

-----------------------------------------------------------------------------
(* Type correctness.                                                       *)

\* The mirror table maps every status it has an entry for to a job state.
LEMMA MirrorOfType ==
  ASSUME NEW s \in MirroredStatuses
  PROVE  MirrorOf(s) \in JobStates
  BY DEF MirroredStatuses, MirrorOf, JobStates, ExecutionStatus, InFlightStatuses

\* An eligibility verdict is one of the four.
LEMMA EligibilityType ==
  ASSUME NEW j
  PROVE  Eligibility(j) \in Verdicts
  BY DEF Eligibility, Verdicts

\* The frame a call starts with is a frame.
LEMMA NoFrameType ==
  ASSUME NEW e \in Executions \cup {None}, NEW j \in Jobs \cup {None},
         NEW v \in Verdicts, NEW a \in BOOLEAN,
         NEW t \in ExecutionStatus \cup {NoStatus}
  PROVE  [exec |-> e, job |-> j, verdict |-> v, approved |-> a, allow |-> TRUE,
          tries |-> 0, reply |-> "none", target |-> t] \in Frames
<1>1. 0 \in 0..AttemptCap
  BY PipelineAssumption
<1>2. "none" \in Replies
  BY DEF Replies
<1> QED BY <1>1, <1>2 DEF Frames

\* What a write of process_execution() does to the types.
LEMMA WriteTyped ==
  ASSUME TypeInv, NEW p \in Procs, pc[p] \in Running,
         NEW s \in ExecutionStatus, NEW step \in Running \ {"resolve"},
         Write(p, s, step)
  PROVE  TypeInv'
<1> DEFINE e == Exec(p)
<1>1. e \in Executions /\ status[e] # NoStatus /\ jobOf[e] \in Jobs
  BY DEF TypeInv, InCall, Row
<1>2. /\ status' = [status EXCEPT ![e] = s]
      /\ active' = [active EXCEPT ![e] = @ /\ s \notin TerminalStatuses]
      /\ pending' = [pending EXCEPT ![p] =
           IF s \in MirroredStatuses THEN [job |-> jobOf[e], status |-> s] ELSE NoMirror]
      /\ pc' = [pc EXCEPT ![p] = step]
      /\ UNCHANGED <<jobOf, mode, attempts, approval, leaseOwner, leaseLive, jobState, sponsor,
                     frame, received, provider, faults>>
  BY DEF Write, UpdateExecution, Goto, leaseVars, jobVars
<1>3. TypeOK'
  BY <1>1, <1>2 DEF TypeInv, TypeOK, Steps
<1>4. ASSUME NEW q \in Procs PROVE InCall(q)'
  BY <1>1, <1>2 DEF TypeInv, TypeOK, InCall, Exec, ExecutionStatus, NoStatus, Running, BeforeSubmit
<1>5. ASSUME NEW f \in Executions PROVE Row(f)'
  BY <1>1, <1>2 DEF TypeInv, TypeOK, Row, ExecutionStatus, NoStatus
<1> QED BY <1>3, <1>4, <1>5 DEF TypeInv

\* A step that moves one process and gives it a frame, whatever it does to leases.
LEMMA MoveTyped ==
  ASSUME TypeInv, NEW p \in Procs, NEW step \in Steps, NEW f \in Frames,
         pc' = [pc EXCEPT ![p] = step],
         frame' = [frame EXCEPT ![p] = f],
         step = "queueing" => f.job \in Jobs,
         step \in Running \cup {"claiming"} => f.exec \in Executions /\ status[f.exec] # NoStatus,
         step = "resolve" => f.target \in TerminalStatuses \cup {"SUBMISSION_STATUS_UNKNOWN"},
         UNCHANGED <<status, active, jobOf, mode, attempts, approval, jobState, sponsor, received>>,
         leaseOwner' \in [Executions -> Workers \cup {None}],
         leaseLive' \in [Executions -> BOOLEAN],
         faults' \in 0..MaxFaults, provider' \in ProviderRows,
         pending' \in [Procs -> [job : Jobs, status : MirroredStatuses] \cup {NoMirror}]
  PROVE  TypeInv'
<1>1. TypeOK'
  BY DEF TypeInv, TypeOK
<1>2. ASSUME NEW q \in Procs PROVE InCall(q)'
  BY <1>2 DEF TypeInv, TypeOK, InCall, Exec
<1>3. ASSUME NEW e \in Executions PROVE Row(e)'
  BY <1>3 DEF TypeInv, Row
<1> QED BY <1>1, <1>2, <1>3 DEF TypeInv

\* A step of a call that stays in its frame.
LEMMA GotoTyped ==
  ASSUME TypeInv, NEW p \in Procs, NEW step \in Running \ {"resolve"},
         pc[p] \in Running, Goto(p, step),
         UNCHANGED <<rowVars, leaseVars, jobVars, frame, pending, received, provider, faults>>
  PROVE  TypeInv'
<1>1. frame' = [frame EXCEPT ![p] = frame[p]] /\ frame[p] \in Frames
  BY DEF TypeInv, TypeOK
<1>2. frame[p].exec \in Executions /\ status[frame[p].exec] # NoStatus
  BY DEF TypeInv, InCall, Exec
<1>3. step \in Steps /\ step # "queueing"
  BY DEF Steps, Running, BeforeSubmit
<1> QED
  BY <1>1, <1>2, <1>3, MoveTyped DEF Goto, rowVars, leaseVars, jobVars, TypeInv, TypeOK

\* The end of a call, with or without its lease.
LEMMA ReturnTyped ==
  ASSUME TypeInv, NEW p \in Procs, Return(p),
         UNCHANGED <<rowVars, jobVars, received>>,
         leaseOwner' \in [Executions -> Workers \cup {None}],
         leaseLive' \in [Executions -> BOOLEAN],
         faults' \in 0..MaxFaults, provider' \in ProviderRows,
         pending' \in [Procs -> [job : Jobs, status : MirroredStatuses] \cup {NoMirror}]
  PROVE  TypeInv'
<1>1. NoFrame \in Frames
  BY NoFrameType DEF NoFrame, ExecFrame, Verdicts
<1>2. "idle" \in Steps /\ "idle" \notin Running
  BY DEF Steps, Running, BeforeSubmit
<1> QED BY <1>1, <1>2, MoveTyped DEF Return, Goto, rowVars, jobVars

\* Giving up or extending a lease keeps the types.
LEMMA LeaseTyped ==
  ASSUME TypeInv, NEW p \in Procs, NEW e \in Executions, ReleaseLease(p, e) \/ ExtendLease(p, e)
  PROVE  /\ leaseOwner' \in [Executions -> Workers \cup {None}]
         /\ leaseLive' \in [Executions -> BOOLEAN]
  BY DEF TypeInv, TypeOK, ReleaseLease, ExtendLease, leaseVars

\* Giving back a slot keeps the provider's row what it is.
LEMMA SlotTyped ==
  ASSUME TypeInv, NEW p \in Procs, NEW lost \in BOOLEAN, ReturnSlot(p, lost)
  PROVE  provider' \in ProviderRows
  BY PipelineAssumption DEF TypeInv, TypeOK, ReturnSlot, ProviderRows

\* A step that starts a call on execution e, or goes on to it.
LEMMA EnterTyped ==
  ASSUME TypeInv, NEW p \in Procs, NEW e \in Executions, status[e] # NoStatus,
         NEW step \in Running, NEW a \in BOOLEAN, NEW t \in ExecutionStatus \cup {NoStatus},
         step = "resolve" => t \in TerminalStatuses \cup {"SUBMISSION_STATUS_UNKNOWN"},
         Goto(p, step),
         frame' = [frame EXCEPT ![p] = ExecFrame(e, a, t)],
         UNCHANGED <<rowVars, jobVars, pending, received, provider, faults>>,
         leaseOwner' \in [Executions -> Workers \cup {None}],
         leaseLive' \in [Executions -> BOOLEAN]
  PROVE  TypeInv'
<1> DEFINE f == ExecFrame(e, a, t)
<1>1. f \in Frames
  BY NoFrameType DEF ExecFrame, Verdicts
<1>3. step \in Steps /\ step # "queueing"
  BY DEF Steps, Running, BeforeSubmit
<1>4. f.exec = e /\ f.target = t
  BY DEF ExecFrame
<1> QED
  BY <1>1, <1>3, <1>4, MoveTyped DEF Goto, rowVars, jobVars, TypeInv, TypeOK

\* Where the processes are when they take a step of process_execution().
LEMMA RunningSteps ==
  /\ {"claimed", "record", "read", "start", "discover", "fill", "validate", "recheck", "gate",
      "mark", "submit", "outcome", "confirm", "finish", "release", "resolve"} = Running
  /\ {"idle", "queueing", "claiming"} \subseteq Steps /\ Running \subseteq Steps
  /\ Running \cap {"idle", "queueing", "claiming"} = {}
  BY DEF Running, BeforeSubmit, Steps

\* Every step of process_execution() keeps the types.
LEMMA ProcessTyped ==
  ASSUME TypeInv, NEW p \in Procs, Process(p)
  PROVE  TypeInv'
<1> USE RunningSteps
<1> DEFINE e == Exec(p)
<1>0. pc[p] \in Running => e \in Executions /\ status[e] # NoStatus /\ jobOf[e] \in Jobs
  BY DEF TypeInv, InCall, Row
<1>1. CASE LeaveAlone(p)
  BY <1>1, GotoTyped DEF LeaveAlone, At
<1>2. CASE ResumeGuard(p)
  BY <1>2, WriteTyped DEF ResumeGuard, At, ExecutionStatus
<1>3. CASE ReadExecution(p)
  <2> DEFINE f == [frame[p] EXCEPT !.tries = attempts[e], !.verdict = Eligibility(jobOf[e])]
  <2>1. frame[p] \in Frames /\ attempts[e] \in 0..AttemptCap /\ Eligibility(jobOf[e]) \in Verdicts
    BY <1>0, <1>3, EligibilityType DEF ReadExecution, At, TypeInv, TypeOK
  <2>2. f \in Frames /\ f.exec = e
    BY <2>1 DEF Frames, Exec
  <2>3. frame' = [frame EXCEPT ![p] = f]
    BY <1>3 DEF ReadExecution
  <2>4. f.exec \in Executions /\ status[f.exec] # NoStatus
    BY <1>0, <1>3, <2>2 DEF ReadExecution, At
  <2>5. /\ pc' = [pc EXCEPT ![p] = "start"]
        /\ UNCHANGED <<status, active, jobOf, mode, attempts, approval, jobState, sponsor,
                       received, leaseOwner, leaseLive, provider, faults, pending>>
    BY <1>3 DEF ReadExecution, Goto, rowVars, leaseVars, jobVars
  <2> HIDE DEF f
  <2> QED
    BY <2>2, <2>3, <2>4, <2>5, MoveTyped DEF TypeInv, TypeOK
<1>4. CASE Start(p)
  BY <1>4, WriteTyped DEF Start, At, ExecutionStatus
<1>5. CASE Discover(p)
  BY <1>5, WriteTyped DEF Discover, At, ExecutionStatus
<1>6. CASE Fill(p)
  BY <1>6, WriteTyped DEF Fill, At, ExecutionStatus
<1>7. CASE Validate(p)
  BY <1>7, WriteTyped, GotoTyped DEF Validate, At, ExecutionStatus
<1>8. CASE Recheck(p)
  <2> DEFINE f == [frame[p] EXCEPT !.verdict = Eligibility(jobOf[e])]
  <2>1. frame[p] \in Frames /\ Eligibility(jobOf[e]) \in Verdicts
    BY <1>0, <1>8, EligibilityType DEF Recheck, At, TypeInv, TypeOK
  <2>2. f \in Frames /\ f.exec = e
    BY <2>1 DEF Frames, Exec
  <2>3. frame' = [frame EXCEPT ![p] = f]
    BY <1>8 DEF Recheck
  <2>4. f.exec \in Executions /\ status[f.exec] # NoStatus
    BY <1>0, <1>8, <2>2 DEF Recheck, At
  <2>5. /\ pc' = [pc EXCEPT ![p] = "gate"]
        /\ UNCHANGED <<status, active, jobOf, mode, attempts, approval, jobState, sponsor,
                       received, leaseOwner, leaseLive, provider, faults, pending>>
    BY <1>8 DEF Recheck, Goto, rowVars, leaseVars, jobVars
  <2> HIDE DEF f
  <2> QED
    BY <2>2, <2>3, <2>4, <2>5, MoveTyped DEF TypeInv, TypeOK
<1>9. CASE Gate(p)
  BY <1>9, WriteTyped, GotoTyped DEF Gate, At, ExecutionStatus
<1>10. CASE Mark(p)
  <2>1. /\ status' = [status EXCEPT ![e] = "SUBMITTING"]
        /\ active' = [active EXCEPT ![e] = @ /\ "SUBMITTING" \notin TerminalStatuses]
        /\ pending' = [pending EXCEPT ![p] =
             IF "SUBMITTING" \in MirroredStatuses
             THEN [job |-> jobOf[e], status |-> "SUBMITTING"] ELSE NoMirror]
        /\ pc' = [pc EXCEPT ![p] = "submit"]
        /\ UNCHANGED <<jobOf, mode, approval, leaseOwner, leaseLive, jobState, sponsor, frame,
                       received, provider, faults>>
    BY <1>10 DEF Mark, UpdateExecution, Goto, leaseVars, jobVars
  <2>2. attempts' \in [Executions -> 0..AttemptCap]
    <3>1. frame[p].tries \in 0..AttemptCap /\ frame[p].tries < AttemptCap
      BY <1>10 DEF Mark, TypeInv, TypeOK, Frames
    <3>2. frame[p].tries + 1 \in 0..AttemptCap
      BY <3>1, PipelineAssumption
    <3> QED BY <1>10, <3>2 DEF Mark, TypeInv, TypeOK
  <2>3. TypeOK'
    BY <1>0, <1>10, <2>1, <2>2 DEF Mark, At, TypeInv, TypeOK, ExecutionStatus
  <2>4. ASSUME NEW q \in Procs PROVE InCall(q)'
    BY <1>0, <1>10, <2>1 DEF Mark, At, TypeInv, TypeOK, InCall, Exec, NoStatus
  <2>5. ASSUME NEW f \in Executions PROVE Row(f)'
    BY <1>0, <1>10, <2>1 DEF Mark, At, TypeInv, TypeOK, Row, NoStatus
  <2> QED BY <2>3, <2>4, <2>5 DEF TypeInv
<1>11. CASE Submit(p)
  <2>1. PICK reply \in Replies :
          /\ frame' = [frame EXCEPT ![p].reply = reply]
          /\ \E taken \in BOOLEAN :
               received' = [received EXCEPT ![e] = IF taken /\ @ < 2 THEN @ + 1 ELSE @]
    BY <1>11 DEF Submit
  <2>2. /\ pc' = [pc EXCEPT ![p] = "outcome"] /\ pc[p] = "submit"
        /\ UNCHANGED <<status, active, jobOf, mode, attempts, approval, leaseOwner, leaseLive,
                       jobState, sponsor, pending, provider, faults>>
    BY <1>11 DEF Submit, At, Goto, rowVars, leaseVars, jobVars
  <2>3. frame' \in [Procs -> Frames] /\ \A q \in Procs : frame'[q].exec = frame[q].exec
        /\ (q # p => frame'[q] = frame[q])
    <3>1. frame \in [Procs -> Frames]
      BY DEF TypeInv, TypeOK
    <3> QED BY <2>1, <3>1 DEF Frames
  <2>4. received' \in [Executions -> 0..2]
        /\ \A f \in Executions : f # e => received'[f] = received[f]
    BY <2>1, <1>0, <2>2 DEF TypeInv, TypeOK
  <2>5. TypeOK'
    BY <2>2, <2>3, <2>4 DEF TypeInv, TypeOK
  <2>6. ASSUME NEW q \in Procs PROVE InCall(q)'
    BY <2>2, <2>3, <1>0 DEF TypeInv, TypeOK, InCall, Exec
  <2>7. ASSUME NEW f \in Executions PROVE Row(f)'
    BY <2>2, <2>4, <1>0 DEF TypeInv, TypeOK, Row
  <2> QED BY <2>5, <2>6, <2>7 DEF TypeInv
<1>12. CASE Outcome(p)
  BY <1>12, WriteTyped DEF Outcome, At, ExecutionStatus
<1>13. CASE Confirm(p)
  BY <1>13, WriteTyped DEF Confirm, At, ExecutionStatus
<1>14. CASE Finish(p)
  <2>1. ReleaseLease(p, e) \/ ExtendLease(p, e)
    BY <1>14 DEF Finish
  <2> QED
    BY <1>0, <1>14, <2>1, LeaseTyped, SlotTyped, ReturnTyped DEF Finish, At, TypeInv, TypeOK
<1>15. CASE FinishUntouched(p)
  BY <1>0, <1>15, LeaseTyped, SlotTyped, ReturnTyped DEF FinishUntouched, At, TypeInv, TypeOK
<1>16. CASE Mirror(p)
  <2>1. pending[p] \in [job : Jobs, status : MirroredStatuses]
    BY <1>16 DEF Mirror, TypeInv, TypeOK
  <2>2. MirrorOf(pending[p].status) \in JobStates /\ pending[p].job \in Jobs
    BY <2>1, MirrorOfType
  <2>3. TypeOK'
    BY <1>16, <2>2 DEF Mirror, TypeInv, TypeOK, rowVars, leaseVars
  <2>4. ASSUME NEW q \in Procs PROVE InCall(q)'
    BY <1>16 DEF Mirror, TypeInv, InCall, Exec, rowVars
  <2>5. ASSUME NEW f \in Executions PROVE Row(f)'
    BY <1>16 DEF Mirror, TypeInv, Row, rowVars
  <2> QED BY <2>3, <2>4, <2>5 DEF TypeInv
<1> QED
  BY <1>1, <1>2, <1>3, <1>4, <1>5, <1>6, <1>7, <1>8, <1>9, <1>10, <1>11, <1>12, <1>13,
     <1>14, <1>15, <1>16 DEF Process

\* An exception or a crash keeps the types.
LEMMA FaultTyped ==
  ASSUME TypeInv, NEW p \in Procs, Raise(p) \/ Crash(p)
  PROVE  TypeInv'
<1>1. faults' \in 0..MaxFaults
  BY PipelineAssumption DEF Raise, Crash, TypeInv, TypeOK
<1>2. CASE Raise(p)
  <2>1. Exec(p) \in Executions
    BY <1>2, RunningSteps DEF Raise, TypeInv, InCall
  <2>2. provider' \in ProviderRows
    BY <1>2, SlotTyped DEF Raise, TypeInv, TypeOK, ProviderRows
  <2> QED
    BY <1>1, <1>2, <2>1, <2>2, LeaseTyped, ReturnTyped DEF Raise, TypeInv, TypeOK
<1>3. CASE Crash(p)
  <2>1. provider' \in ProviderRows
    BY <1>3 DEF Crash, TypeInv, TypeOK, ProviderRows
  <2> QED BY <1>1, <1>3, <2>1, ReturnTyped DEF Crash, leaseVars, TypeInv, TypeOK
<1> QED BY <1>2, <1>3

\* Every step of a worker outside process_execution() keeps the types.
LEMMA WorkerTyped ==
  ASSUME TypeInv, NEW w \in Workers, Worker(w)
  PROVE  TypeInv'
<1> USE RunningSteps
<1>0. pc[w] \in Running => Exec(w) \in Executions /\ status[Exec(w)] # NoStatus
  BY DEF TypeInv, InCall
<1>1. ASSUME NEW e \in Executions, Select(w, e) PROVE TypeInv'
  <2> DEFINE f == ExecFrame(e, FALSE, NoStatus)
  <2>1. status[e] # NoStatus
    BY <1>1 DEF Select, TypeInv, Row
  <2>2. f \in Frames /\ f.exec = e
    BY NoFrameType DEF ExecFrame, Verdicts
  <2>3. /\ pc' = [pc EXCEPT ![w] = "claiming"] /\ frame' = [frame EXCEPT ![w] = f]
        /\ UNCHANGED <<status, active, jobOf, mode, attempts, approval, jobState, sponsor,
                       received, leaseOwner, leaseLive, provider, faults, pending>>
    BY <1>1 DEF Select, Goto, rowVars, leaseVars, jobVars
  <2> HIDE DEF f
  <2> QED BY <2>1, <2>2, <2>3, MoveTyped DEF TypeInv, TypeOK
<1>4. CASE Claim(w)
  <2>1. pc[w] = "claiming" /\ Exec(w) \in Executions /\ status[Exec(w)] # NoStatus
    BY <1>4 DEF Claim, At, TypeInv, InCall
  <2>2. /\ leaseOwner' \in [Executions -> Workers \cup {None}]
        /\ leaseLive' \in [Executions -> BOOLEAN]
    BY <1>4, <2>1 DEF Claim, TypeInv, TypeOK, leaseVars
  <2>3. CASE Return(w)
    BY <1>4, <2>2, <2>3, ReturnTyped DEF Claim, TypeInv, TypeOK
  <2>4. CASE ~Return(w)
    <3> DEFINE f == [frame[w] EXCEPT !.approved = status[Exec(w)] = "RETRYABLE_SUBMISSION_FAILURE"]
    <3>1. frame[w] \in Frames
      BY DEF TypeInv, TypeOK
    <3>2. f \in Frames /\ f.exec = Exec(w)
      BY <3>1 DEF Frames, Exec
    <3>3. /\ pc' = [pc EXCEPT ![w] = "claimed"] /\ frame' = [frame EXCEPT ![w] = f]
          /\ UNCHANGED <<status, active, jobOf, mode, attempts, approval, jobState, sponsor,
                         received, provider, faults, pending>>
      BY <1>4, <2>4 DEF Claim, Goto, rowVars, jobVars
    <3> HIDE DEF f
    <3> QED BY <2>1, <2>2, <3>2, <3>3, MoveTyped DEF TypeInv, TypeOK
  <2> QED BY <2>3, <2>4
<1>2. CASE CooldownSkip(w)
  BY <1>0, <1>2, LeaseTyped, ReturnTyped DEF CooldownSkip, At, TypeInv, TypeOK
<1>3. CASE Begin(w)
  <2>1. PICK a \in BOOLEAN : frame' = [frame EXCEPT ![w] = [frame[w] EXCEPT !.allow = a]]
    BY <1>3 DEF Begin
  <2> DEFINE f == [frame[w] EXCEPT !.allow = a]
  <2>2. frame[w] \in Frames
    BY DEF TypeInv, TypeOK
  <2>3. f \in Frames /\ f.exec = Exec(w)
    BY <2>2 DEF Frames, Exec
  <2>4. f.exec \in Executions /\ status[f.exec] # NoStatus
    BY <1>0, <1>3, <2>3 DEF Begin, At
  <2>5. /\ pc' = [pc EXCEPT ![w] = "read"]
        /\ UNCHANGED <<status, active, jobOf, mode, attempts, approval, jobState, sponsor,
                       received, leaseOwner, leaseLive, faults, pending>>
        /\ provider' \in ProviderRows
    BY <1>3, PipelineAssumption DEF Begin, Goto, rowVars, leaseVars, jobVars, ProviderRows, TypeInv, TypeOK
  <2>6. frame' = [frame EXCEPT ![w] = f]
    BY <2>1
  <2> HIDE DEF f
  <2> QED
    BY <2>3, <2>4, <2>5, <2>6, MoveTyped DEF TypeInv, TypeOK
<1> QED BY <1>1, <1>2, <1>3, <1>4 DEF Worker

\* What a request does with an execution it got.
LEMMA QueueThenTyped ==
  ASSUME TypeInv, NEW c \in Clicks, NEW e \in Executions, QueueThen(c, e)
  PROVE  \E step \in {"idle", "read"}, f \in Frames :
           /\ pc' = [pc EXCEPT ![c] = step] /\ frame' = [frame EXCEPT ![c] = f]
           /\ step = "read" => f.exec = e
<1>1. NoFrame \in Frames /\ ExecFrame(e, FALSE, NoStatus) \in Frames
  BY NoFrameType DEF NoFrame, ExecFrame, Verdicts
<1>2. ExecFrame(e, FALSE, NoStatus).exec = e
  BY DEF ExecFrame
<1>3. CASE Return(c)
  BY <1>1, <1>3 DEF Return, Goto
<1>4. CASE Goto(c, "read") /\ frame' = [frame EXCEPT ![c] = ExecFrame(e, FALSE, NoStatus)]
  BY <1>1, <1>2, <1>4 DEF Goto
<1> QED BY <1>3, <1>4 DEF QueueThen

\* Every step of a request outside process_execution() keeps the types.
LEMMA ClickTyped ==
  ASSUME TypeInv, NEW c \in Clicks, Click(c)
  PROVE  TypeInv'
<1> USE RunningSteps
<1>0. /\ pc[c] \in Running => Exec(c) \in Executions /\ status[Exec(c)] # NoStatus
      /\ pc[c] = "queueing" => frame[c].job \in Jobs
  BY DEF TypeInv, InCall
<1>1. ASSUME NEW j \in Jobs, QueueApplication(c, j) PROVE TypeInv'
  <2> DEFINE f == JobFrame(j, Eligibility(j))
  <2>1. f \in Frames /\ f.job \in Jobs
    BY NoFrameType, EligibilityType DEF JobFrame
  <2>2. /\ pc' = [pc EXCEPT ![c] = "queueing"] /\ frame' = [frame EXCEPT ![c] = f]
        /\ UNCHANGED <<status, active, jobOf, mode, attempts, approval, jobState, sponsor,
                       received, leaseOwner, leaseLive, provider, faults, pending>>
    BY <1>1 DEF QueueApplication, Goto, rowVars, leaseVars, jobVars
  <2> HIDE DEF f
  <2> QED BY <2>1, <2>2, MoveTyped DEF TypeInv, TypeOK
<1>2. CASE QueueExisting(c)
  <2>1. PICK e \in ActiveFor(frame[c].job) : QueueThen(c, e)
    BY <1>2 DEF QueueExisting
  <2>2. e \in Executions /\ status[e] # NoStatus
    BY <2>1 DEF ActiveFor, TypeInv, Row
  <2>3. PICK step \in {"idle", "read"}, f \in Frames :
          /\ pc' = [pc EXCEPT ![c] = step] /\ frame' = [frame EXCEPT ![c] = f]
          /\ step = "read" => f.exec = e
    BY <2>1, <2>2, QueueThenTyped
  <2> QED
    BY <1>2, <2>2, <2>3, MoveTyped DEF QueueExisting, rowVars, leaseVars, jobVars, TypeInv, TypeOK
<1>3. CASE QueueRefused(c)
  BY <1>3, ReturnTyped DEF QueueRefused, leaseVars, TypeInv, TypeOK
<1>4. CASE QueueDuplicate(c)
  <2>1. /\ jobState' \in [Jobs -> JobStates]
        /\ pc' = [pc EXCEPT ![c] = "idle"] /\ frame' = [frame EXCEPT ![c] = NoFrame]
        /\ UNCHANGED <<status, active, jobOf, mode, attempts, approval, sponsor,
                       received, leaseOwner, leaseLive, provider, faults, pending>>
    BY <1>4 DEF QueueDuplicate, Return, Goto, rowVars, leaseVars, TypeInv, TypeOK, JobStates
  <2>2. NoFrame \in Frames
    BY NoFrameType DEF NoFrame, ExecFrame, Verdicts
  <2>3. TypeOK'
    BY <2>1, <2>2 DEF TypeInv, TypeOK
  <2>4. ASSUME NEW q \in Procs PROVE InCall(q)'
    BY <2>1 DEF TypeInv, TypeOK, InCall, Exec
  <2>5. ASSUME NEW f \in Executions PROVE Row(f)'
    BY <2>1 DEF TypeInv, Row
  <2> QED BY <2>3, <2>4, <2>5 DEF TypeInv
<1>5. ASSUME NEW e \in Executions, NEW m \in Modes, QueueCreate(c, e, m) PROVE TypeInv'
  <2> DEFINE j == frame[c].job
  <2>1. /\ j \in Jobs /\ status[e] = NoStatus
        /\ status' = [status EXCEPT ![e] = "QUEUED"]
        /\ active' = [active EXCEPT ![e] = TRUE]
        /\ jobOf' = [jobOf EXCEPT ![e] = j]
        /\ mode' = [mode EXCEPT ![e] = m]
        /\ pending' = [pending EXCEPT ![c] = [job |-> j, status |-> "QUEUED"]]
        /\ UNCHANGED <<attempts, approval, jobState, sponsor, received, leaseOwner, leaseLive,
                       provider, faults>>
    BY <1>0, <1>5 DEF QueueCreate, At, leaseVars, jobVars
  <2>2. PICK step \in {"idle", "read"}, f \in Frames :
          /\ pc' = [pc EXCEPT ![c] = step] /\ frame' = [frame EXCEPT ![c] = f]
          /\ step = "read" => f.exec = e
    BY <1>5, QueueThenTyped DEF QueueCreate
  <2>3. "QUEUED" \in MirroredStatuses /\ "QUEUED" \in ExecutionStatus /\ "QUEUED" # NoStatus
    BY DEF MirroredStatuses, ExecutionStatus, NoStatus
  <2>4. m \in {"ASSIST", "AUTO_PERMITTED"}
    BY PipelineAssumption
  <2>5. TypeOK'
    BY <2>1, <2>2, <2>3, <2>4 DEF TypeInv, TypeOK
  <2>6. ASSUME NEW q \in Procs PROVE InCall(q)'
    BY <2>1, <2>2, <2>3 DEF TypeInv, TypeOK, InCall, Exec
  <2>7. ASSUME NEW g \in Executions PROVE Row(g)'
    BY <2>1, <2>3 DEF TypeInv, TypeOK, Row
  <2> QED BY <2>5, <2>6, <2>7 DEF TypeInv
<1>6. ASSUME NEW e \in Executions, Retry(c, e) PROVE TypeInv'
  <2>1. status[e] # NoStatus
    BY <1>6 DEF Retry, TypeInv, Row
  <2> QED
    BY <1>6, <2>1, EnterTyped DEF Retry, leaseVars, TypeInv, TypeOK
<1>7. ASSUME NEW e \in Executions, ClaimReadyExecution(c, e) PROVE TypeInv'
  <2>1. /\ status[e] # NoStatus
        /\ status' = [status EXCEPT ![e] = "STARTED"]
        /\ pc' = [pc EXCEPT ![c] = "record"]
        /\ frame' = [frame EXCEPT ![c] = ExecFrame(e, TRUE, NoStatus)]
        /\ UNCHANGED <<active, jobOf, mode, attempts, approval, jobState, sponsor,
                       received, leaseOwner, leaseLive, provider, faults, pending>>
    BY <1>7 DEF ClaimReadyExecution, Goto, leaseVars, jobVars, TypeInv, Row
  <2>2. ExecFrame(e, TRUE, NoStatus) \in Frames /\ ExecFrame(e, TRUE, NoStatus).exec = e
    BY NoFrameType DEF ExecFrame, Verdicts
  <2>3. TypeOK'
    BY <2>1, <2>2 DEF TypeInv, TypeOK, ExecutionStatus
  <2>4. ASSUME NEW q \in Procs PROVE InCall(q)'
    BY <2>1, <2>2 DEF TypeInv, TypeOK, InCall, Exec, NoStatus
  <2>5. ASSUME NEW g \in Executions PROVE Row(g)'
    BY <2>1 DEF TypeInv, TypeOK, Row, NoStatus
  <2> QED BY <2>3, <2>4, <2>5 DEF TypeInv
<1>8. CASE RecordApproval(c)
  <2>1. /\ approval' = [approval EXCEPT ![Exec(c)] = TRUE]
        /\ pc[c] = "record" /\ pc' = [pc EXCEPT ![c] = "read"]
        /\ UNCHANGED <<status, active, jobOf, mode, attempts, jobState, sponsor,
                       received, leaseOwner, leaseLive, provider, faults, pending, frame>>
    BY <1>8 DEF RecordApproval, At, Goto, leaseVars, jobVars
  <2>2. TypeOK'
    BY <2>1 DEF TypeInv, TypeOK
  <2>3. ASSUME NEW q \in Procs PROVE InCall(q)'
    BY <1>0, <2>1 DEF TypeInv, TypeOK, InCall, Exec
  <2>4. ASSUME NEW g \in Executions PROVE Row(g)'
    BY <2>1 DEF TypeInv, Row
  <2> QED BY <2>2, <2>3, <2>4 DEF TypeInv
<1>9. ASSUME NEW e \in Executions, NEW target \in TerminalStatuses \cup {"SUBMISSION_STATUS_UNKNOWN"},
             Reconcile(c, e, target) \/ Handoff(c, e, target)
      PROVE  TypeInv'
  <2>1. status[e] # NoStatus
    BY <1>9 DEF Reconcile, Handoff, TypeInv, Row, NoStatus
  <2>2. target \in ExecutionStatus \cup {NoStatus}
    BY DEF TerminalStatuses, ExecutionStatus
  <2>3. /\ Goto(c, "resolve") /\ frame' = [frame EXCEPT ![c] = ExecFrame(e, FALSE, target)]
        /\ UNCHANGED <<rowVars, jobVars, pending, received, provider, faults>>
        /\ UNCHANGED <<leaseOwner, leaseLive>>
    BY <1>9 DEF Reconcile, Handoff, leaseVars
  <2> QED
    BY <2>1, <2>2, <2>3, EnterTyped DEF TypeInv, TypeOK
<1>10. CASE Resolve(c)
  <2> DEFINE e == Exec(c)  s == frame[c].target
  <2>1. /\ e \in Executions /\ s \in ExecutionStatus /\ jobOf[e] \in Jobs
        /\ status' = [status EXCEPT ![e] = s]
        /\ active' = [active EXCEPT ![e] = @ /\ s \notin TerminalStatuses]
        /\ pending' = [pending EXCEPT ![c] =
             IF s \in MirroredStatuses THEN [job |-> jobOf[e], status |-> s] ELSE NoMirror]
        /\ pc' = [pc EXCEPT ![c] = "idle"] /\ frame' = [frame EXCEPT ![c] = NoFrame]
        /\ UNCHANGED <<jobOf, mode, attempts, approval, jobState, sponsor,
                       received, leaseOwner, leaseLive, provider, faults>>
    BY <1>0, <1>10 DEF Resolve, At, UpdateExecution, Return, Goto, leaseVars, jobVars, TypeInv,
                       InCall, Row, TerminalStatuses, ExecutionStatus
  <2>2. NoFrame \in Frames
    BY NoFrameType DEF NoFrame, ExecFrame, Verdicts
  <2>3. s # NoStatus
    BY <2>1 DEF ExecutionStatus, NoStatus
  <2> HIDE DEF s
  <2>4. TypeOK'
    BY <2>1, <2>2 DEF TypeInv, TypeOK
  <2>5. ASSUME NEW q \in Procs PROVE InCall(q)'
    BY <2>1, <2>3 DEF TypeInv, TypeOK, InCall, Exec
  <2>6. ASSUME NEW g \in Executions PROVE Row(g)'
    BY <2>1, <2>3 DEF TypeInv, TypeOK, Row
  <2> QED BY <2>4, <2>5, <2>6 DEF TypeInv
<1> QED
  BY <1>1, <1>2, <1>3, <1>4, <1>5, <1>6, <1>7, <1>8, <1>9, <1>10 DEF Click

\* The tracker board, the pipeline and time keep the types.
LEMMA EnvironmentTyped ==
  ASSUME TypeInv, Environment
  PROVE  TypeInv'
<1>1. ASSUME UNCHANGED <<rowVars, procVars, received>>, TypeOK' PROVE TypeInv'
  <2>1. ASSUME NEW q \in Procs PROVE InCall(q)'
    BY <1>1 DEF TypeInv, InCall, Exec, rowVars, procVars
  <2>2. ASSUME NEW g \in Executions PROVE Row(g)'
    BY <1>1 DEF TypeInv, Row, rowVars
  <2> QED BY <1>1, <2>1, <2>2 DEF TypeInv
<1>2. ASSUME NEW j \in Jobs, NEW target \in TrackerTargets, UpdateState(j, target) PROVE TypeInv'
  BY <1>1, <1>2, PipelineAssumption
     DEF UpdateState, TypeInv, TypeOK, rowVars, leaseVars, procVars
<1>3. ASSUME NEW j \in Jobs, Regenerate(j) PROVE TypeInv'
  BY <1>1, <1>3 DEF Regenerate, TypeInv, TypeOK, rowVars, leaseVars, procVars, JobStates
<1>4. ASSUME NEW j \in Jobs, NEW s \in Sponsorships, RefreshSponsorship(j, s) PROVE TypeInv'
  BY <1>1, <1>4, PipelineAssumption
     DEF RefreshSponsorship, TypeInv, TypeOK, rowVars, leaseVars, procVars
<1>5. ASSUME NEW e \in Executions, LeaseExpires(e) PROVE TypeInv'
  BY <1>1, <1>5 DEF LeaseExpires, TypeInv, TypeOK, rowVars, jobVars, procVars
<1> QED BY <1>2, <1>3, <1>4, <1>5 DEF Environment

\* The executor starts well typed, with no row and no call.
LEMMA InitTyped == Init => TypeInv
<1> SUFFICES ASSUME Init PROVE TypeInv
  OBVIOUS
<1>1. NoFrame \in Frames
  BY NoFrameType DEF NoFrame, ExecFrame, Verdicts
<1>2. TypeOK
  BY <1>1, PipelineAssumption DEF Init, TypeOK, JobStates, Steps, ProviderRows
<1> QED BY <1>2, RunningSteps DEF Init, TypeInv, InCall, Row

\* Whoever takes it, a step keeps TypeInv.
LEMMA NextTyped == TypeInv /\ [Next]_vars => TypeInv'
<1> SUFFICES ASSUME TypeInv, [Next]_vars PROVE TypeInv'
  OBVIOUS
<1>1. CASE UNCHANGED vars
  BY <1>1 DEF vars, rowVars, leaseVars, jobVars, procVars, TypeInv, TypeOK, InCall, Row, Exec
<1>2. CASE Next
  BY <1>2, ProcessTyped, FaultTyped, WorkerTyped, ClickTyped, EnvironmentTyped DEF Next
<1> QED BY <1>1, <1>2

\* Every variable keeps its type, a call in progress works on a row that exists,
\* and a row that does not exist yet is inactive: TypeInv is inductive.
THEOREM TypeCorrect == Spec => [](TypeInv /\ TypeOK)
<1>1. Init => TypeInv
  BY InitTyped
<1>2. TypeInv /\ [Next]_vars => TypeInv'
  BY NextTyped
<1>3. TypeInv => TypeOK
  BY DEF TypeInv
<1> QED BY <1>1, <1>2, <1>3, PTL DEF Spec

-----------------------------------------------------------------------------
(* At most one application from an execution, as long as no two processes  *)
(* run it at once: a lease outlives the run of its holder, and a request   *)
(* leaves alone what another process is busy with.                         *)

Exclusive == ~LeaseMayLapse /\ ~ClicksOverlap

\* A step after which nobody runs what they did not run before, and no worker
\* loses the lease of what it still runs.
LEMMA RunnerKept ==
  ASSUME OneRunner,
         \A q \in Procs, e \in Executions : Runs(q, e)' => Runs(q, e),
         \A w \in Workers, e \in Executions :
           Runs(w, e)' => leaseOwner'[e] = leaseOwner[e] /\ leaseLive'[e] = leaseLive[e]
  PROVE  OneRunner'
  BY DEF OneRunner

\* A step by which a request starts to run an execution that nobody runs.
LEMMA RunnerEnters ==
  ASSUME OneRunner, Exclusive, NEW c \in Clicks, NEW e \in Executions, MayRun(e),
         \A q \in Procs \ {c} : pc'[q] = pc[q] /\ frame'[q] = frame[q],
         frame'[c].exec = e, UNCHANGED leaseVars
  PROVE  OneRunner'
<1>1. \A q \in Procs : ~Runs(q, e)
  BY DEF MayRun, Exclusive
<1>2. \A q \in Procs \ {c}, f \in Executions : Runs(q, f)' <=> Runs(q, f)
  BY DEF Runs, Exec
<1>3. \A f \in Executions : Runs(c, f)' => f = e
  BY DEF Runs, Exec
<1>4. c \notin Workers
  BY PipelineAssumption
<1> QED BY <1>1, <1>2, <1>3, <1>4 DEF OneRunner, leaseVars

\* A step of process p that leaves status, active and received of every row alone.
LEMMA MoveKeeps ==
  ASSUME SubmissionInv, NEW p \in Procs, TypeInv', OneRunner',
         UNCHANGED <<status, active, received>>,
         \A q \in Procs \ {p} : pc'[q] = pc[q] /\ frame'[q] = frame[q],
         Knows(p)'
  PROVE  SubmissionInv'
<1>1. ASSUME NEW q \in Procs \ {p} PROVE Knows(q)'
  BY <1>1 DEF SubmissionInv, Knows, Exec
<1>2. ASSUME NEW e \in Executions PROVE Remembers(e)'
  BY <1>2 DEF SubmissionInv, Remembers
<1> QED BY <1>1, <1>2 DEF SubmissionInv

\* A write of process_execution() that respects what its caller knows.
LEMMA WriteKeeps ==
  ASSUME SubmissionInv, NEW p \in Procs, pc[p] \in Running,
         NEW s \in ExecutionStatus, NEW step \in Running \ {"resolve", "submit", "outcome"},
         Write(p, s, step),
         received[Exec(p)] > 0 =>
           s \in TerminalStatuses \cup InFlightStatuses \cup {"SUBMISSION_STATUS_UNKNOWN"},
         step \in BeforeSubmit => received[Exec(p)] = 0 /\ s # "SUBMISSION_STATUS_UNKNOWN",
         step = "confirm" => s = "SUBMITTED"
  PROVE  SubmissionInv'
<1> USE RunningSteps
<1> DEFINE e == Exec(p)
<1>1. /\ status' = [status EXCEPT ![e] = s]
      /\ active' = [active EXCEPT ![e] = @ /\ s \notin TerminalStatuses]
      /\ pc' = [pc EXCEPT ![p] = step]
      /\ UNCHANGED <<leaseOwner, leaseLive, frame, received>>
  BY DEF Write, UpdateExecution, Goto, leaseVars
<1>2. TypeInv'
  BY WriteTyped DEF SubmissionInv
<1>3. TypeOK /\ e \in Executions /\ OneRunner
  BY DEF SubmissionInv, TypeInv, InCall
<1>4. OneRunner'
  BY <1>1, <1>3, RunnerKept DEF TypeOK, Runs, Exec
<1>5. ASSUME NEW q \in Procs, pc'[q] \in Running PROVE q = p \/ Exec(q) # e
  BY <1>1, <1>3, <1>5 DEF TypeOK, OneRunner, Runs, Exec
<1>6. BeforeSubmit \subseteq Running
  BY DEF Running
<1>7. ASSUME NEW q \in Procs \ {p} PROVE Knows(q)'
  BY <1>1, <1>3, <1>5, <1>6 DEF SubmissionInv, TypeOK, Knows, Exec
<1>8. Knows(p)'
  BY <1>1, <1>3 DEF SubmissionInv, TypeOK, Knows, Exec
<1>9. ASSUME NEW f \in Executions PROVE Remembers(f)'
  BY <1>1, <1>3 DEF SubmissionInv, TypeOK, Remembers
<1> QED BY <1>2, <1>4, <1>7, <1>8, <1>9 DEF SubmissionInv

\* A step of a call that stays on its row and writes nothing to it.
LEMMA StayKeeps ==
  ASSUME SubmissionInv, TypeInv', NEW p \in Procs, pc[p] \in Running, NEW step \in Running,
         pc' = [pc EXCEPT ![p] = step],
         \A q \in Procs : frame'[q].exec = frame[q].exec /\ (q # p => frame'[q] = frame[q]),
         UNCHANGED <<status, active, received, leaseOwner, leaseLive>>,
         Knows(p)'
  PROVE  SubmissionInv'
<1>1. OneRunner'
  BY RunnerKept DEF SubmissionInv, TypeInv, TypeOK, Runs, Exec
<1>2. \A q \in Procs \ {p} : pc'[q] = pc[q] /\ frame'[q] = frame[q]
  BY DEF SubmissionInv, TypeInv, TypeOK
<1> QED BY <1>1, <1>2, MoveKeeps

\* The end of a call.
LEMMA LeaveKeeps ==
  ASSUME SubmissionInv, TypeInv', NEW p \in Procs, pc[p] \in Running, Return(p),
         ReleaseLease(p, Exec(p)) \/ ExtendLease(p, Exec(p)) \/ UNCHANGED leaseVars,
         UNCHANGED <<status, active, received>>
  PROVE  SubmissionInv'
<1> USE RunningSteps
<1>1. /\ pc' = [pc EXCEPT ![p] = "idle"] /\ frame' = [frame EXCEPT ![p] = NoFrame]
      /\ TypeOK /\ OneRunner /\ Exec(p) \in Executions
  BY DEF Return, Goto, SubmissionInv, TypeInv, InCall
<1>2. \A q \in Procs, e \in Executions : Runs(q, e)' => Runs(q, e) /\ q # p
  BY <1>1 DEF TypeOK, Runs, Exec
<1>3. ASSUME NEW w \in Workers, NEW e \in Executions, Runs(w, e)'
      PROVE  leaseOwner'[e] = leaseOwner[e] /\ leaseLive'[e] = leaseLive[e]
  BY <1>1, <1>2, <1>3 DEF TypeOK, OneRunner, Runs, Exec, ReleaseLease, ExtendLease, leaseVars
<1>4. OneRunner'
  BY <1>1, <1>2, <1>3, RunnerKept
<1>5. Knows(p)'
  BY <1>1 DEF TypeOK, Knows, BeforeSubmit
<1>6. \A q \in Procs \ {p} : pc'[q] = pc[q] /\ frame'[q] = frame[q]
  BY <1>1 DEF TypeOK
<1> QED BY <1>4, <1>5, <1>6, MoveKeeps

\* Every step of process_execution() keeps the invariant.
LEMMA ProcessKeeps ==
  ASSUME SubmissionInv, NEW p \in Procs, Process(p)
  PROVE  SubmissionInv'
<1> USE RunningSteps
<1> DEFINE e == Exec(p)
<1>0. /\ TypeInv /\ TypeOK /\ OneRunner /\ Knows(p) /\ TypeInv'
      /\ pc[p] \in Running => e \in Executions /\ Remembers(e)
  BY ProcessTyped DEF SubmissionInv, TypeInv, InCall
<1>a. BeforeSubmit = {"start", "discover", "fill", "validate", "recheck", "gate", "mark", "submit"}
  BY DEF BeforeSubmit
<1>1. CASE LeaveAlone(p)
  <2>1. Knows(p)'
    BY <1>0, <1>1, <1>a DEF LeaveAlone, At, Goto, Knows, TypeOK
  <2> QED
    BY <1>0, <1>1, <2>1, StayKeeps DEF LeaveAlone, At, Goto, rowVars, leaseVars
<1>2. CASE ResumeGuard(p)
  BY <1>2, <1>a, WriteKeeps DEF ResumeGuard, At, ExecutionStatus
<1>3. CASE ReadExecution(p)
  <2>1. /\ pc[p] = "read" /\ pc' = [pc EXCEPT ![p] = "start"]
        /\ active[e] /\ status[e] \notin InFlightStatuses \cup {"SUBMISSION_STATUS_UNKNOWN"}
        /\ UNCHANGED <<status, active, received, leaseOwner, leaseLive>>
    BY <1>3 DEF ReadExecution, At, Goto, rowVars, leaseVars
  <2>2. \A q \in Procs : frame'[q].exec = frame[q].exec /\ (q # p => frame'[q] = frame[q])
    BY <1>0, <1>3 DEF ReadExecution, TypeOK, Frames
  <2>3. received[e] = 0
    BY <1>0, <2>1 DEF Remembers, TypeOK
  <2>4. Knows(p)'
    BY <1>0, <2>1, <2>2, <2>3 DEF Knows, TypeOK, Exec
  <2> QED
    BY <1>0, <2>1, <2>2, <2>4, StayKeeps
<1>4. CASE Start(p)
  BY <1>0, <1>4, <1>a, WriteKeeps DEF Start, At, ExecutionStatus, Knows
<1>5. CASE Discover(p)
  BY <1>0, <1>5, <1>a, WriteKeeps DEF Discover, At, ExecutionStatus, Knows
<1>6. CASE Fill(p)
  BY <1>0, <1>6, <1>a, WriteKeeps DEF Fill, At, ExecutionStatus, Knows
<1>7. CASE Validate(p)
  <2>0. pc[p] = "validate" /\ received[e] = 0 /\ status[e] # "SUBMISSION_STATUS_UNKNOWN"
    BY <1>0, <1>7, <1>a DEF Validate, At, Knows
  <2>1. CASE \E s \in {"NEEDS_USER_ACTION", "SUBMISSION_READY"} : Write(p, s, "finish")
    BY <2>0, <2>1, <1>a, WriteKeeps DEF ExecutionStatus
  <2>2. CASE Goto(p, "recheck") /\ UNCHANGED <<rowVars, leaseVars, jobVars, frame, pending, received, provider, faults>>
    <3>1. Knows(p)'
      BY <1>0, <2>0, <2>2, <1>a DEF Goto, Knows, TypeOK, Exec, rowVars
    <3> QED
      BY <1>0, <2>0, <2>2, <3>1, StayKeeps DEF Goto, rowVars, leaseVars
  <2> QED BY <1>7, <2>1, <2>2 DEF Validate
<1>8. CASE Recheck(p)
  <2>1. /\ pc[p] = "recheck" /\ pc' = [pc EXCEPT ![p] = "gate"]
        /\ UNCHANGED <<status, active, received, leaseOwner, leaseLive>>
    BY <1>8 DEF Recheck, At, Goto, rowVars, leaseVars
  <2>2. \A q \in Procs : frame'[q].exec = frame[q].exec /\ (q # p => frame'[q] = frame[q])
    BY <1>0, <1>8 DEF Recheck, TypeOK, Frames
  <2>3. Knows(p)'
    BY <1>0, <2>1, <2>2, <1>a DEF Knows, TypeOK, Exec
  <2> QED
    BY <1>0, <2>1, <2>2, <2>3, StayKeeps
<1>9. CASE Gate(p)
  <2>0. pc[p] = "gate" /\ received[e] = 0 /\ status[e] # "SUBMISSION_STATUS_UNKNOWN"
    BY <1>0, <1>9, <1>a DEF Gate, At, Knows
  <2>1. CASE \E s \in {"JOB_NO_LONGER_ACTIVE", "NEEDS_USER_ACTION", "DUPLICATE_APPLICATION_BLOCKED",
                       "APPROVED", "SUBMISSION_READY"} : Write(p, s, "finish")
    BY <2>0, <2>1, <1>a, WriteKeeps DEF ExecutionStatus
  <2>2. CASE Goto(p, "mark") /\ UNCHANGED <<rowVars, leaseVars, jobVars, frame, pending, received, provider, faults>>
    <3>1. Knows(p)'
      BY <1>0, <2>0, <2>2, <1>a DEF Goto, Knows, TypeOK, Exec, rowVars
    <3> QED
      BY <1>0, <2>0, <2>2, <3>1, StayKeeps DEF Goto, rowVars, leaseVars
  <2> QED BY <1>9, <2>1, <2>2 DEF Gate
<1>10. CASE Mark(p)
  <2>1. /\ pc[p] = "mark" /\ pc' = [pc EXCEPT ![p] = "submit"]
        /\ status' = [status EXCEPT ![e] = "SUBMITTING"]
        /\ active' = [active EXCEPT ![e] = @ /\ "SUBMITTING" \notin TerminalStatuses]
        /\ UNCHANGED <<received, leaseOwner, leaseLive, frame>>
    BY <1>10 DEF Mark, At, UpdateExecution, Goto, leaseVars
  <2>2. received[e] = 0 /\ e \in Executions
    BY <1>0, <2>1, <1>a DEF Knows
  <2>3. OneRunner'
    BY <1>0, <2>1, RunnerKept DEF TypeOK, Runs, Exec
  <2>4. ASSUME NEW q \in Procs, pc'[q] \in Running PROVE q = p \/ Exec(q) # e
    BY <1>0, <2>1, <2>2, <2>4 DEF TypeOK, OneRunner, Runs, Exec
  <2>5. ASSUME NEW q \in Procs PROVE Knows(q)'
    BY <1>0, <1>a, <2>1, <2>2, <2>4 DEF SubmissionInv, TypeOK, Knows, Exec
  <2>6. ASSUME NEW f \in Executions PROVE Remembers(f)'
    BY <1>0, <2>1, <2>2 DEF SubmissionInv, TypeOK, Remembers
  <2> QED BY <1>0, <2>3, <2>5, <2>6 DEF SubmissionInv
<1>11. CASE Submit(p)
  <2>1. PICK reply \in Replies, taken \in BOOLEAN :
          /\ reply \in {"retryable", "permanent"} => ~taken
          /\ frame' = [frame EXCEPT ![p].reply = reply]
          /\ received' = [received EXCEPT ![e] = IF taken /\ @ < 2 THEN @ + 1 ELSE @]
    BY <1>11 DEF Submit
  <2>2. /\ pc[p] = "submit" /\ pc' = [pc EXCEPT ![p] = "outcome"]
        /\ UNCHANGED <<status, active, leaseOwner, leaseLive>>
    BY <1>11 DEF Submit, At, Goto, rowVars, leaseVars
  <2>3. e \in Executions /\ received[e] = 0 /\ status[e] = "SUBMITTING"
    BY <1>0, <2>2, <1>a DEF Knows
  <2>4. /\ received'[e] = IF taken THEN 1 ELSE 0
        /\ \A f \in Executions \ {e} : received'[f] = received[f]
    BY <1>0, <2>1, <2>3 DEF TypeOK
  <2>5. /\ \A q \in Procs : frame'[q].exec = frame[q].exec /\ (q # p => frame'[q] = frame[q])
        /\ frame'[p].reply = reply
    BY <1>0, <2>1 DEF TypeOK, Frames
  <2>6. OneRunner'
    BY <1>0, <2>2, <2>5, RunnerKept DEF TypeOK, Runs, Exec
  <2>7. ASSUME NEW q \in Procs, pc'[q] \in Running PROVE q = p \/ Exec(q) # e
    BY <1>0, <2>2, <2>3, <2>7 DEF TypeOK, OneRunner, Runs, Exec
  <2>8. ASSUME NEW q \in Procs \ {p} PROVE Knows(q)'
    <3>1. pc'[q] = pc[q] /\ frame'[q] = frame[q] /\ Knows(q)
      BY <1>0, <2>2, <2>5 DEF TypeOK, SubmissionInv
    <3>2. pc[q] \in Running => Exec(q) \in Executions \ {e}
      BY <1>0, <2>7, <3>1 DEF TypeInv, InCall
    <3>3. pc[q] \in Running => received'[Exec(q)] = received[Exec(q)]
      BY <2>4, <3>2
    <3> QED BY <2>2, <3>1, <3>3, <1>a DEF Knows, Exec
  <2>9. Knows(p)'
    BY <1>0, <2>1, <2>2, <2>3, <2>4, <2>5, <1>a DEF Knows, TypeOK, Exec
  <2>10. ASSUME NEW f \in Executions PROVE Remembers(f)'
    <3>1. CASE f = e
      BY <2>2, <2>3, <2>4, <3>1 DEF Remembers, InFlightStatuses
    <3>2. CASE f # e
      BY <2>2, <2>4, <3>2 DEF SubmissionInv, Remembers
    <3> QED BY <3>1, <3>2
  <2> QED BY <1>0, <2>6, <2>8, <2>9, <2>10 DEF SubmissionInv
<1>12. CASE Outcome(p)
  <2>0. pc[p] = "outcome" /\ (frame[p].reply \in {"retryable", "permanent"} => received[e] = 0)
    BY <1>0, <1>12 DEF Outcome, At, Knows
  <2>1. CASE \E s \in {"RETRYABLE_SUBMISSION_FAILURE", "PERMANENT_SUBMISSION_FAILURE"} :
               Write(p, s, "finish") /\ frame[p].reply \in {"retryable", "permanent"}
    BY <2>0, <2>1, <1>a, WriteKeeps DEF ExecutionStatus
  <2>2. CASE Write(p, "SUBMISSION_STATUS_UNKNOWN", "finish")
    BY <2>0, <2>2, <1>a, WriteKeeps DEF ExecutionStatus
  <2>3. CASE Write(p, "SUBMITTED", "confirm")
    BY <2>0, <2>3, <1>a, WriteKeeps DEF ExecutionStatus, InFlightStatuses
  <2> QED BY <1>12, <2>1, <2>2, <2>3 DEF Outcome
<1>13. CASE Confirm(p)
  BY <1>13, <1>a, WriteKeeps DEF Confirm, At, ExecutionStatus, TerminalStatuses
<1>14. CASE Finish(p)
  BY <1>0, <1>14, LeaveKeeps DEF Finish, At, rowVars
<1>15. CASE FinishUntouched(p)
  BY <1>0, <1>15, LeaveKeeps DEF FinishUntouched, At, rowVars
<1>16. CASE Mirror(p)
  <2>1. UNCHANGED <<status, active, received, leaseOwner, leaseLive, pc, frame>>
    BY <1>16 DEF Mirror, rowVars, leaseVars
  <2>2. OneRunner'
    BY <1>0, <2>1, RunnerKept DEF Runs, Exec
  <2> QED
    BY <1>0, <2>1, <2>2, MoveKeeps DEF Knows, Exec
<1> QED
  BY <1>1, <1>2, <1>3, <1>4, <1>5, <1>6, <1>7, <1>8, <1>9, <1>10, <1>11, <1>12, <1>13,
     <1>14, <1>15, <1>16 DEF Process

\* An exception or a crash keeps the invariant: nothing is written, and whoever
\* comes next finds the row as the call left it.
LEMMA FaultKeeps ==
  ASSUME SubmissionInv, NEW p \in Procs, Raise(p) \/ Crash(p)
  PROVE  SubmissionInv'
<1> USE RunningSteps
<1>0. TypeInv /\ TypeOK /\ OneRunner /\ TypeInv'
  BY FaultTyped DEF SubmissionInv, TypeInv
<1>1. CASE Raise(p)
  BY <1>0, <1>1, LeaveKeeps DEF Raise, rowVars
<1>2. CASE Crash(p)
  <2>1. /\ Return(p) /\ UNCHANGED <<status, active, received>> /\ UNCHANGED leaseVars
    BY <1>2 DEF Crash, rowVars
  <2>2. CASE pc[p] \in Running
    BY <1>0, <2>1, <2>2, LeaveKeeps
  <2>3. CASE pc[p] \notin Running
    <3>1. pc' = [pc EXCEPT ![p] = "idle"] /\ frame' = [frame EXCEPT ![p] = NoFrame]
      BY <2>1 DEF Return, Goto
    <3>2. OneRunner'
      BY <1>0, <2>1, <3>1, RunnerKept DEF TypeOK, Runs, Exec, leaseVars
    <3>3. Knows(p)'
      BY <1>0, <3>1 DEF Knows, TypeOK, BeforeSubmit
    <3> QED
      BY <1>0, <2>1, <3>1, <3>2, <3>3, MoveKeeps DEF TypeOK
  <2> QED BY <2>2, <2>3
<1> QED BY <1>1, <1>2

\* Every step of a worker outside process_execution() keeps the invariant.
LEMMA WorkerKeeps ==
  ASSUME SubmissionInv, Exclusive, NEW w \in Workers, Worker(w)
  PROVE  SubmissionInv'
<1> USE RunningSteps
<1>0. TypeInv /\ TypeOK /\ OneRunner /\ TypeInv'
  BY WorkerTyped DEF SubmissionInv, TypeInv
<1>a. BeforeSubmit = {"start", "discover", "fill", "validate", "recheck", "gate", "mark", "submit"}
  BY DEF BeforeSubmit
<1>1. ASSUME NEW e \in Executions, Select(w, e) PROVE SubmissionInv'
  <2>1. /\ pc' = [pc EXCEPT ![w] = "claiming"] /\ frame' = [frame EXCEPT ![w] = ExecFrame(e, FALSE, NoStatus)]
        /\ UNCHANGED <<status, active, received>> /\ UNCHANGED leaseVars
    BY <1>1 DEF Select, Goto, rowVars
  <2>2. OneRunner'
    BY <1>0, <2>1, RunnerKept DEF TypeOK, Runs, Exec, leaseVars
  <2>3. Knows(w)'
    BY <1>0, <1>a, <2>1 DEF Knows, TypeOK
  <2> QED BY <1>0, <2>1, <2>2, <2>3, MoveKeeps DEF TypeOK
<1>4. CASE Claim(w)
  <2> DEFINE e == Exec(w)
  <2>0. pc[w] = "claiming" /\ e \in Executions /\ UNCHANGED <<status, active, received>>
    BY <1>0, <1>4 DEF Claim, At, TypeInv, InCall, rowVars
  <2>1. CASE Return(w) /\ UNCHANGED leaseVars
    <3>1. pc' = [pc EXCEPT ![w] = "idle"] /\ frame' = [frame EXCEPT ![w] = NoFrame]
      BY <2>1 DEF Return, Goto
    <3>2. OneRunner'
      BY <1>0, <2>1, <3>1, RunnerKept DEF TypeOK, Runs, Exec, leaseVars
    <3>3. Knows(w)'
      BY <1>0, <1>a, <3>1 DEF Knows, TypeOK
    <3> QED BY <1>0, <2>0, <3>1, <3>2, <3>3, MoveKeeps DEF TypeOK
  <2>2. CASE ~(Return(w) /\ UNCHANGED leaseVars)
    <3>1. /\ pc' = [pc EXCEPT ![w] = "claimed"]
          /\ ~leaseLive[e] /\ \A c \in Clicks : ~Runs(c, e)
          /\ leaseOwner' = [leaseOwner EXCEPT ![e] = w]
          /\ leaseLive' = [leaseLive EXCEPT ![e] = TRUE]
          /\ frame' = [frame EXCEPT ![w].approved = status[e] = "RETRYABLE_SUBMISSION_FAILURE"]
      BY <1>4, <2>2 DEF Claim, Goto, Exclusive
    <3>9. \A q \in Procs : frame'[q].exec = frame[q].exec
      BY <1>0, <3>1 DEF TypeOK, Frames
    <3>2. \A q \in Procs : ~Runs(q, e)
      BY <1>0, <2>0, <3>1 DEF OneRunner
    <3>4. \A q \in Procs \ {w}, f \in Executions : Runs(q, f)' <=> Runs(q, f)
      BY <1>0, <2>0, <3>1 DEF TypeOK, Runs, Exec
    <3>5. \A f \in Executions : Runs(w, f)' => f = e
      BY <1>0, <2>0, <3>1, <3>9 DEF TypeOK, Runs, Exec
    <3>6. OneRunner'
      <4>1. ASSUME NEW p \in Procs, NEW q \in Procs, NEW f \in Executions, Runs(p, f)', Runs(q, f)'
            PROVE  p = q
        BY <1>0, <2>0, <3>2, <3>4, <3>5, <4>1 DEF OneRunner
      <4>2. ASSUME NEW v \in Workers, NEW f \in Executions, Runs(v, f)'
            PROVE  leaseOwner'[f] = v /\ leaseLive'[f]
        <5>1. CASE v = w
          BY <1>0, <2>0, <3>1, <3>5, <4>2, <5>1 DEF TypeOK
        <5>2. CASE v # w
          BY <1>0, <2>0, <3>1, <3>2, <3>4, <4>2, <5>2 DEF TypeOK, OneRunner
        <5> QED BY <5>1, <5>2
      <4> QED BY <4>1, <4>2 DEF OneRunner
    <3>7. Knows(w)'
      BY <1>0, <2>0, <1>a, <3>1 DEF Knows, TypeOK
    <3>8. \A q \in Procs \ {w} : pc'[q] = pc[q] /\ frame'[q] = frame[q]
      BY <1>0, <2>0, <3>1 DEF TypeOK
    <3> QED
      BY <1>0, <2>0, <3>1, <3>6, <3>7, <3>8, MoveKeeps
  <2> QED BY <2>1, <2>2
<1>2. CASE CooldownSkip(w)
  BY <1>0, <1>2, LeaveKeeps DEF CooldownSkip, At, rowVars
<1>3. CASE Begin(w)
  <2>1. /\ pc[w] = "claimed" /\ pc' = [pc EXCEPT ![w] = "read"]
        /\ UNCHANGED <<status, active, received, leaseOwner, leaseLive>>
    BY <1>3 DEF Begin, At, Goto, rowVars, leaseVars
  <2>2. \A q \in Procs : frame'[q].exec = frame[q].exec /\ (q # w => frame'[q] = frame[q])
    BY <1>0, <1>3 DEF Begin, TypeOK, Frames
  <2>3. Knows(w)'
    BY <1>0, <1>a, <2>1 DEF Knows, TypeOK
  <2> QED
    BY <1>0, <2>1, <2>2, <2>3, StayKeeps
<1> QED BY <1>1, <1>2, <1>3, <1>4 DEF Worker

\* A request that starts on an execution nobody runs, and that knows nothing yet.
LEMMA EnterKeeps ==
  ASSUME SubmissionInv, Exclusive, TypeInv', NEW c \in Clicks, NEW e \in Executions, MayRun(e),
         NEW step \in {"read", "record", "resolve"},
         Goto(c, step), NEW f \in Frames, f.exec = e, frame' = [frame EXCEPT ![c] = f],
         UNCHANGED <<status, active, received>>, UNCHANGED leaseVars
  PROVE  SubmissionInv'
<1>1. TypeOK /\ OneRunner
  BY DEF SubmissionInv, TypeInv
<1>2. \A q \in Procs \ {c} : pc'[q] = pc[q] /\ frame'[q] = frame[q]
  BY <1>1 DEF Goto, TypeOK
<1>3. frame'[c].exec = e
  BY <1>1 DEF TypeOK
<1>4. OneRunner'
  BY <1>1, <1>2, <1>3, RunnerEnters
<1>5. Knows(c)'
  BY <1>1 DEF Goto, Knows, TypeOK, BeforeSubmit
<1> QED BY <1>2, <1>4, <1>5, MoveKeeps

\* A request that is not at an execution afterwards.
LEMMA AsideKeeps ==
  ASSUME SubmissionInv, TypeInv', NEW c \in Clicks, NEW step \in {"idle", "queueing"},
         Goto(c, step), NEW f \in Frames, frame' = [frame EXCEPT ![c] = f],
         UNCHANGED <<status, active, received>>, UNCHANGED leaseVars
  PROVE  SubmissionInv'
<1>1. TypeOK /\ OneRunner
  BY DEF SubmissionInv, TypeInv
<1>2. \A q \in Procs \ {c} : pc'[q] = pc[q] /\ frame'[q] = frame[q]
  BY <1>1 DEF Goto, TypeOK
<1>3. pc'[c] = step /\ step \notin Running
  BY <1>1, RunningSteps DEF Goto, TypeOK
<1>4. OneRunner'
  BY <1>1, <1>2, <1>3, RunnerKept DEF Runs, Exec, leaseVars
<1>5. Knows(c)'
  BY <1>3 DEF Knows, BeforeSubmit
<1> QED BY <1>2, <1>4, <1>5, MoveKeeps

\* Every step of a request outside process_execution() keeps the invariant.
LEMMA ClickKeeps ==
  ASSUME SubmissionInv, Exclusive, NEW c \in Clicks, Click(c)
  PROVE  SubmissionInv'
<1> USE RunningSteps
<1>0. TypeInv /\ TypeOK /\ OneRunner /\ TypeInv'
  BY ClickTyped DEF SubmissionInv, TypeInv
<1>a. BeforeSubmit = {"start", "discover", "fill", "validate", "recheck", "gate", "mark", "submit"}
  BY DEF BeforeSubmit
<1>b. /\ NoFrame \in Frames
      /\ \A e \in Executions, a \in BOOLEAN, t \in ExecutionStatus \cup {NoStatus} :
           ExecFrame(e, a, t) \in Frames /\ ExecFrame(e, a, t).exec = e
  BY NoFrameType DEF NoFrame, ExecFrame, Verdicts
<1>1. ASSUME NEW j \in Jobs, QueueApplication(c, j) PROVE SubmissionInv'
  <2>1. JobFrame(j, Eligibility(j)) \in Frames
    BY NoFrameType, EligibilityType DEF JobFrame
  <2> QED
    BY <1>0, <1>1, <2>1, AsideKeeps DEF QueueApplication, rowVars
<1>2. CASE QueueExisting(c)
  <2>1. PICK e \in ActiveFor(frame[c].job) : QueueThen(c, e)
    BY <1>2 DEF QueueExisting
  <2>2. e \in Executions /\ UNCHANGED <<status, active, received>> /\ UNCHANGED leaseVars
    BY <1>2, <2>1 DEF QueueExisting, ActiveFor, rowVars
  <2>3. CASE Return(c)
    BY <1>0, <1>b, <2>2, <2>3, AsideKeeps DEF Return
  <2>4. CASE /\ MayRun(e) /\ Goto(c, "read")
             /\ frame' = [frame EXCEPT ![c] = ExecFrame(e, FALSE, NoStatus)]
    BY <1>0, <1>b, <2>2, <2>4, EnterKeeps
  <2> QED BY <2>1, <2>3, <2>4 DEF QueueThen
<1>3. CASE QueueRefused(c)
  BY <1>0, <1>b, <1>3, AsideKeeps DEF QueueRefused, Return, rowVars
<1>4. CASE QueueDuplicate(c)
  BY <1>0, <1>b, <1>4, AsideKeeps DEF QueueDuplicate, Return, rowVars
<1>5. ASSUME NEW e \in Executions, NEW m \in Modes, QueueCreate(c, e, m) PROVE SubmissionInv'
  <2>1. /\ status[e] = NoStatus /\ status' = [status EXCEPT ![e] = "QUEUED"]
        /\ active' = [active EXCEPT ![e] = TRUE]
        /\ UNCHANGED <<received, leaseOwner, leaseLive>>
        /\ pc[c] = "queueing" /\ QueueThen(c, e)
    BY <1>5 DEF QueueCreate, At, leaseVars
  <2>2. received[e] = 0 /\ \A q \in Procs : ~Runs(q, e)
    BY <1>0, <2>1 DEF TypeInv, InCall, Row, Runs
  <2>3. PICK step \in {"idle", "read"}, f \in Frames :
          /\ pc' = [pc EXCEPT ![c] = step] /\ frame' = [frame EXCEPT ![c] = f]
          /\ step = "read" => f.exec = e
    BY <1>0, <2>1, QueueThenTyped
  <2>4. \A q \in Procs \ {c} : pc'[q] = pc[q] /\ frame'[q] = frame[q]
    BY <1>0, <2>3 DEF TypeOK
  <2>5. OneRunner'
    <3>1. CASE step = "read"
      <4>1. frame'[c].exec = e /\ MayRun(e)
        BY <1>0, <2>2, <2>3, <3>1 DEF TypeOK, MayRun
      <4> QED BY <1>0, <2>1, <2>4, <4>1, RunnerEnters DEF leaseVars
    <3>2. CASE step = "idle"
      BY <1>0, <2>1, <2>3, <3>2, RunnerKept DEF TypeOK, Runs, Exec
    <3> QED BY <3>1, <3>2
  <2>6. ASSUME NEW q \in Procs \ {c} PROVE Knows(q)'
    <3>1. pc[q] \in Running => Exec(q) \in Executions \ {e}
      BY <1>0, <2>2 DEF TypeInv, InCall, Runs
    <3>2. pc[q] \in Running => status'[Exec(q)] = status[Exec(q)]
      BY <1>0, <2>1, <3>1 DEF TypeOK
    <3> QED BY <1>a, <2>1, <2>4, <3>2 DEF SubmissionInv, Knows, Exec
  <2>7. Knows(c)'
    BY <1>0, <1>a, <2>3 DEF Knows, TypeOK
  <2>8. ASSUME NEW g \in Executions PROVE Remembers(g)'
    BY <1>0, <2>1, <2>2 DEF SubmissionInv, Remembers, TypeOK
  <2> QED BY <1>0, <2>5, <2>6, <2>7, <2>8 DEF SubmissionInv
<1>6. ASSUME NEW e \in Executions, Retry(c, e) PROVE SubmissionInv'
  BY <1>0, <1>b, <1>6, EnterKeeps DEF Retry, rowVars
<1>7. ASSUME NEW e \in Executions, ClaimReadyExecution(c, e) PROVE SubmissionInv'
  <2>1. /\ active[e] /\ status[e] = "SUBMISSION_READY" /\ MayRun(e)
        /\ status' = [status EXCEPT ![e] = "STARTED"]
        /\ pc' = [pc EXCEPT ![c] = "record"]
        /\ frame' = [frame EXCEPT ![c] = ExecFrame(e, TRUE, NoStatus)]
        /\ UNCHANGED <<active, received, leaseOwner, leaseLive>>
    BY <1>7 DEF ClaimReadyExecution, Goto, leaseVars
  <2>2. received[e] = 0
    BY <1>0, <2>1 DEF SubmissionInv, Remembers, InFlightStatuses, TypeOK
  <2>3. \A q \in Procs : ~Runs(q, e)
    BY <2>1 DEF MayRun, Exclusive
  <2>4. \A q \in Procs \ {c} : pc'[q] = pc[q] /\ frame'[q] = frame[q]
    BY <1>0, <2>1 DEF TypeOK
  <2>5. frame'[c].exec = e
    BY <1>0, <1>b, <2>1 DEF TypeOK
  <2>6. OneRunner'
    BY <1>0, <2>1, <2>4, <2>5, RunnerEnters DEF leaseVars
  <2>7. ASSUME NEW q \in Procs \ {c} PROVE Knows(q)'
    <3>1. pc[q] \in Running => Exec(q) \in Executions \ {e}
      BY <1>0, <2>3 DEF TypeInv, InCall, Runs
    <3>2. pc[q] \in Running => status'[Exec(q)] = status[Exec(q)]
      BY <1>0, <2>1, <3>1 DEF TypeOK
    <3> QED BY <1>a, <2>1, <2>4, <3>2 DEF SubmissionInv, Knows, Exec
  <2>8. Knows(c)'
    BY <1>0, <1>a, <2>1 DEF Knows, TypeOK
  <2>9. ASSUME NEW g \in Executions PROVE Remembers(g)'
    BY <1>0, <2>1, <2>2 DEF SubmissionInv, Remembers, TypeOK
  <2> QED BY <1>0, <2>6, <2>7, <2>8, <2>9 DEF SubmissionInv
<1>8. CASE RecordApproval(c)
  <2>1. /\ pc[c] = "record" /\ pc' = [pc EXCEPT ![c] = "read"]
        /\ UNCHANGED <<status, active, received, leaseOwner, leaseLive, frame>>
    BY <1>8 DEF RecordApproval, At, Goto, leaseVars
  <2>2. Knows(c)'
    BY <1>0, <1>a, <2>1 DEF Knows, TypeOK
  <2> QED BY <1>0, <2>1, <2>2, StayKeeps
<1>9. ASSUME NEW e \in Executions, NEW target \in TerminalStatuses \cup {"SUBMISSION_STATUS_UNKNOWN"},
             Reconcile(c, e, target) \/ Handoff(c, e, target)
      PROVE  SubmissionInv'
  <2>1. target \in ExecutionStatus \cup {NoStatus}
    BY DEF TerminalStatuses, ExecutionStatus
  <2>2. /\ MayRun(e) /\ Goto(c, "resolve") /\ frame' = [frame EXCEPT ![c] = ExecFrame(e, FALSE, target)]
        /\ UNCHANGED <<status, active, received>> /\ UNCHANGED leaseVars
    BY <1>9 DEF Reconcile, Handoff, rowVars
  <2> QED BY <1>0, <1>b, <2>1, <2>2, EnterKeeps
<1>10. CASE Resolve(c)
  <2> DEFINE e == Exec(c)  s == frame[c].target
  <2>1. /\ pc[c] = "resolve" /\ e \in Executions
        /\ s \in TerminalStatuses \cup {"SUBMISSION_STATUS_UNKNOWN"}
        /\ status' = [status EXCEPT ![e] = s]
        /\ active' = [active EXCEPT ![e] = @ /\ s \notin TerminalStatuses]
        /\ pc' = [pc EXCEPT ![c] = "idle"] /\ frame' = [frame EXCEPT ![c] = NoFrame]
        /\ UNCHANGED <<received, leaseOwner, leaseLive>>
    BY <1>0, <1>10 DEF Resolve, At, UpdateExecution, Return, Goto, leaseVars, TypeInv, InCall
  <2> HIDE DEF s
  <2>2. OneRunner'
    BY <1>0, <2>1, RunnerKept DEF TypeOK, Runs, Exec
  <2>3. ASSUME NEW q \in Procs \ {c} PROVE Knows(q)'
    <3>1. pc'[q] = pc[q] /\ frame'[q] = frame[q]
      BY <1>0, <2>1 DEF TypeOK
    <3>2. pc[q] \in Running => Exec(q) \in Executions \ {e}
      BY <1>0, <2>1 DEF TypeInv, InCall, OneRunner, Runs, Exec
    <3>3. pc[q] \in Running => status'[Exec(q)] = status[Exec(q)]
      BY <1>0, <2>1, <3>2 DEF TypeOK
    <3> QED BY <1>a, <2>1, <3>1, <3>3 DEF SubmissionInv, Knows, Exec
  <2>4. Knows(c)'
    BY <1>0, <1>a, <2>1 DEF Knows, TypeOK
  <2>5. ASSUME NEW g \in Executions PROVE Remembers(g)'
    BY <1>0, <2>1 DEF SubmissionInv, Remembers, TypeOK
  <2> QED BY <1>0, <2>2, <2>3, <2>4, <2>5 DEF SubmissionInv
<1> QED
  BY <1>1, <1>2, <1>3, <1>4, <1>5, <1>6, <1>7, <1>8, <1>9, <1>10 DEF Click

\* The tracker board, the pipeline and time keep the invariant: a lease lapses
\* only after its holder is done.
LEMMA EnvironmentKeeps ==
  ASSUME SubmissionInv, Exclusive, Environment
  PROVE  SubmissionInv'
<1>0. TypeInv /\ TypeOK /\ OneRunner /\ TypeInv'
  BY EnvironmentTyped DEF SubmissionInv, TypeInv
<1>1. UNCHANGED <<status, active, received, pc, frame>>
  BY DEF Environment, UpdateState, Regenerate, RefreshSponsorship, LeaseExpires, rowVars, procVars
<1>2. OneRunner'
  <2>1. CASE UNCHANGED leaseVars
    BY <1>0, <1>1, <2>1, RunnerKept DEF Runs, Exec, leaseVars
  <2>2. ASSUME NEW e \in Executions, LeaseExpires(e) PROVE OneRunner'
    <3>1. /\ leaseLive' = [leaseLive EXCEPT ![e] = FALSE] /\ leaseOwner' = leaseOwner
          /\ ~Runs(leaseOwner[e], e)
      BY <2>2 DEF LeaseExpires, Exclusive
    <3>2. \A q \in Procs, f \in Executions : Runs(q, f)' <=> Runs(q, f)
      BY <1>1 DEF Runs, Exec
    <3>3. ASSUME NEW w \in Workers, NEW f \in Executions, Runs(w, f)' PROVE f # e
      BY <1>0, <3>1, <3>2, <3>3 DEF OneRunner
    <3> QED BY <1>0, <3>1, <3>2, <3>3 DEF OneRunner, TypeOK
  <2> QED
    BY <2>1, <2>2 DEF Environment, UpdateState, Regenerate, RefreshSponsorship
<1>3. \A q \in Procs : Knows(q)'
  BY <1>1 DEF SubmissionInv, Knows, Exec
<1>4. \A e \in Executions : Remembers(e)'
  BY <1>1 DEF SubmissionInv, Remembers
<1> QED BY <1>0, <1>2, <1>3, <1>4 DEF SubmissionInv

\* The executor starts with nothing sent and nobody running.
LEMMA InitKeeps == Init => SubmissionInv
<1> SUFFICES ASSUME Init PROVE SubmissionInv
  OBVIOUS
<1> QED
  BY InitTyped, RunningSteps
     DEF Init, SubmissionInv, Knows, Remembers, OneRunner, Runs, BeforeSubmit

\* Whoever takes it, a step keeps SubmissionInv.
LEMMA NextKeeps ==
  ASSUME Exclusive
  PROVE  SubmissionInv /\ [Next]_vars => SubmissionInv'
<1> SUFFICES ASSUME SubmissionInv, [Next]_vars PROVE SubmissionInv'
  OBVIOUS
<1>1. CASE UNCHANGED vars
  <2>1. TypeInv'
    BY <1>1, NextTyped DEF SubmissionInv
  <2> QED
    BY <1>1, <2>1 DEF vars, rowVars, leaseVars, jobVars, procVars, SubmissionInv, Knows, Remembers,
                      OneRunner, Runs, Exec
<1>2. CASE Next
  BY <1>2, ProcessKeeps, FaultKeeps, WorkerKeeps, ClickKeeps, EnvironmentKeeps DEF Next
<1> QED BY <1>1, <1>2

\* However often an execution is interrupted, reclaimed, retried or approved, the
\* provider gets at most one application from it, as long as nobody runs it twice
\* at once: the resume guard of process_execution() and the claim query suffice.
THEOREM AtMostOneSubmission ==
  ASSUME Exclusive
  PROVE  Spec => []NoSecondSubmission
<1>1. Init => SubmissionInv
  BY InitKeeps
<1>2. SubmissionInv /\ [Next]_vars => SubmissionInv'
  BY NextKeeps
<1>3. SubmissionInv => NoSecondSubmission
  BY DEF SubmissionInv, Remembers, NoSecondSubmission
<1> QED BY <1>1, <1>2, <1>3, PTL DEF Spec

-----------------------------------------------------------------------------
(* What the executor guarantees whoever overlaps with whom: these theorems   *)
(* assume nothing about leases outliving the run of their holder.  The last  *)
(* one needs the invariant behind AtMostOneSubmission again.                 *)

USE DEF Procs

-----------------------------------------------------------------------------
(* An execution that ended is never active again.                          *)

\* A write to a row never sets active.
LEMMA WriteEnds ==
  ASSUME TypeInv, NEW p \in Procs, NEW s, UpdateExecution(p, s),
         NEW e \in Executions, ~active[e]
  PROVE  ~active'[e]
  BY DEF UpdateExecution, TypeInv, TypeOK

\* process_execution() only ever clears active.
LEMMA ProcessEnds ==
  ASSUME TypeInv, NEW p \in Procs, Process(p), NEW e \in Executions, ~active[e]
  PROVE  ~active'[e]
<1>1. CASE \E s, step : Write(p, s, step)
  BY <1>1, WriteEnds DEF Write
<1>2. CASE UNCHANGED active
  BY <1>2
<1>3. CASE LeaveAlone(p) \/ ReadExecution(p) \/ Recheck(p) \/ Submit(p) \/ Mirror(p)
             \/ Finish(p) \/ FinishUntouched(p)
  BY <1>3 DEF LeaveAlone, ReadExecution, Recheck, Submit, Mirror, Finish, FinishUntouched, rowVars
<1>4. CASE ResumeGuard(p) \/ Start(p) \/ Discover(p) \/ Fill(p)
  BY <1>1, <1>4 DEF ResumeGuard, Start, Discover, Fill
<1>5. CASE Validate(p)
  BY <1>1, <1>2, <1>5 DEF Validate, rowVars
<1>6. CASE Gate(p)
  BY <1>1, <1>2, <1>6 DEF Gate, rowVars
<1>7. CASE Mark(p)
  BY <1>7, WriteEnds DEF Mark
<1>8. CASE Outcome(p) \/ Confirm(p)
  BY <1>1, <1>8 DEF Outcome, Confirm
<1> QED BY <1>3, <1>4, <1>5, <1>6, <1>7, <1>8 DEF Process

\* A request only makes a row active that did not exist.
LEMMA ClickEnds ==
  ASSUME TypeInv, NEW c \in Clicks, Click(c),
         NEW e \in Executions, status[e] # NoStatus, ~active[e]
  PROVE  ~active'[e]
<1>1. CASE Resolve(c)
  BY <1>1, WriteEnds DEF Resolve
<1>2. CASE \E f \in Executions, m \in Modes : QueueCreate(c, f, m)
  BY <1>2 DEF QueueCreate, TypeInv, TypeOK
<1>3. CASE \/ \E j \in Jobs : QueueApplication(c, j)
           \/ QueueExisting(c) \/ QueueRefused(c) \/ QueueDuplicate(c) \/ RecordApproval(c)
  BY <1>3 DEF QueueApplication, QueueExisting, QueueRefused, QueueDuplicate, RecordApproval, rowVars
<1>4. CASE \E f \in Executions : Retry(c, f) \/ ClaimReadyExecution(c, f)
  BY <1>4 DEF Retry, ClaimReadyExecution, rowVars
<1>5. CASE \E f \in Executions, target \in TerminalStatuses \cup {"SUBMISSION_STATUS_UNKNOWN"} :
             Reconcile(c, f, target) \/ Handoff(c, f, target)
  BY <1>5 DEF Reconcile, Handoff, rowVars
<1> QED BY <1>1, <1>2, <1>3, <1>4, <1>5 DEF Click

\* An execution that ended is never active again, however late a worker or a
\* request writes to its row: update_execution() never sets active.
THEOREM ExecutionsEndForGood == Spec => EndedForGood
<1> DEFINE Ended == \A e \in Executions : status[e] # NoStatus /\ ~active[e] => ~active'[e]
<1>1. ASSUME TypeInv, [Next]_vars PROVE Ended
  <2>1. CASE UNCHANGED vars
    BY <2>1 DEF vars, rowVars
  <2>2. ASSUME NEW p \in Procs, Process(p) \/ Raise(p) \/ Crash(p) PROVE Ended
    BY <1>1, <2>2, ProcessEnds DEF Raise, Crash, rowVars
  <2>3. ASSUME NEW w \in Workers, Worker(w) PROVE Ended
    BY <2>3 DEF Worker, Select, Claim, CooldownSkip, Begin, rowVars
  <2>4. ASSUME NEW c \in Clicks, Click(c) PROVE Ended
    BY <1>1, <2>4, ClickEnds
  <2>5. CASE Environment
    BY <2>5 DEF Environment, UpdateState, Regenerate, RefreshSponsorship, LeaseExpires, rowVars
  <2> QED BY <1>1, <2>1, <2>2, <2>3, <2>4, <2>5 DEF Next
<1>2. TypeInv /\ [Next]_vars => [Ended]_vars
  BY <1>1
<1> HIDE DEF Ended
<1>3. Spec => [][Ended]_vars
  BY <1>2, TypeCorrect, PTL DEF Spec
<1> QED BY <1>3 DEF Ended, EndedForGood

-----------------------------------------------------------------------------
(* A live lease changes hands only through its holder.                     *)

\* Giving up or extending a lease at the end of a call touches no live lease but
\* the caller's own.
LEMMA ReleaseKeepsOthers ==
  ASSUME TypeInv, NEW p \in Procs, pc[p] \in Running,
         ReleaseLease(p, Exec(p)) \/ ExtendLease(p, Exec(p)), Return(p),
         NEW e \in Executions, leaseOwner'[e] # leaseOwner[e]
  PROVE  Runs(leaseOwner[e], e) /\ pc'[leaseOwner[e]] = "idle"
  BY DEF TypeInv, TypeOK, ReleaseLease, ExtendLease, leaseVars, Return, Goto, Runs, Exec

\* A lease that has not expired is freed only by the worker it was given to, when
\* it is done with the execution: an attempt that lost its lease frees nothing.
THEOREM LiveLeasesAreKept == Spec => LiveLeaseKept
<1> USE RunningSteps
<1> DEFINE Kept == \A e \in Executions :
             leaseLive[e] /\ leaseOwner'[e] # leaseOwner[e] =>
               Runs(leaseOwner[e], e) /\ pc'[leaseOwner[e]] = "idle"
<1>1. ASSUME TypeInv, [Next]_vars PROVE Kept
  <2>1. CASE UNCHANGED vars
    BY <2>1 DEF vars, leaseVars
  <2>2. ASSUME NEW p \in Procs, Finish(p) \/ FinishUntouched(p) \/ Raise(p) PROVE Kept
    <3>1. pc[p] \in Running /\ Return(p) /\ (ReleaseLease(p, Exec(p)) \/ ExtendLease(p, Exec(p)))
      BY <2>2 DEF Finish, FinishUntouched, Raise, At
    <3> QED BY <1>1, <3>1, ReleaseKeepsOthers
  <2>3. ASSUME NEW p \in Procs, Process(p), ~Finish(p), ~FinishUntouched(p) PROVE Kept
    BY <2>3 DEF Process, LeaveAlone, ResumeGuard, ReadExecution, Start, Discover, Fill, Validate,
                Recheck, Gate, Mark, Submit, Outcome, Confirm, Mirror, Write, leaseVars
  <2>4. ASSUME NEW p \in Procs, Crash(p) PROVE Kept
    BY <2>4 DEF Crash, leaseVars
  <2>5. ASSUME NEW w \in Workers, Worker(w) PROVE Kept
    BY <1>1, <2>5 DEF Worker, Select, Claim, CooldownSkip, Begin, ExtendLease, leaseVars, TypeInv, TypeOK
  <2>6. ASSUME NEW c \in Clicks, Click(c) PROVE Kept
    BY <2>6 DEF Click, QueueApplication, QueueExisting, QueueRefused, QueueDuplicate, QueueCreate,
                Retry, ClaimReadyExecution, RecordApproval, Reconcile, Handoff, Resolve, leaseVars
  <2>7. CASE Environment
    BY <2>7 DEF Environment, UpdateState, Regenerate, RefreshSponsorship, LeaseExpires, leaseVars
  <2> QED BY <1>1, <2>1, <2>2, <2>3, <2>4, <2>5, <2>6, <2>7 DEF Next
<1>2. TypeInv /\ [Next]_vars => [Kept]_vars
  BY <1>1
<1> HIDE DEF Kept
<1>3. Spec => [][Kept]_vars
  BY <1>2, TypeCorrect, PTL DEF Spec
<1> QED BY <1>3 DEF Kept, LiveLeaseKept

\* Every step is one of an execution's lease or leaves it alone.
LEMMA LeaseMoves ==
  ASSUME TypeInv, [Next]_vars, NEW e \in Executions
  PROVE  [Lease(e)!Next]_(Lease(e)!LeaseVars)
<1> USE DEF Lease!Next, Lease!LeaseVars, leaseVars
<1>1. ASSUME NEW p \in Procs, NEW f \in Executions, ReleaseLease(p, f) \/ ExtendLease(p, f)
      PROVE  [Lease(e)!Next]_(Lease(e)!LeaseVars)
  <2>1. /\ leaseOwner \in [Executions -> Workers \cup {None}]
        /\ leaseLive \in [Executions -> BOOLEAN]
    BY DEF TypeInv, TypeOK
  <2>2. CASE leaseOwner[f] # p \/ f # e
    BY <1>1, <2>1, <2>2 DEF ReleaseLease, ExtendLease
  <2>3. CASE f = e /\ leaseOwner[e] = p /\ ReleaseLease(p, e)
    <3>1. leaseOwner'[e] = None /\ leaseLive'[e] = FALSE
      BY <2>1, <2>3 DEF ReleaseLease
    <3> QED BY <2>1, <2>3, <3>1, PipelineAssumption DEF Lease!GiveBack
  <2>4. CASE f = e /\ leaseOwner[e] = p /\ ExtendLease(p, e)
    <3>1. leaseOwner' = leaseOwner /\ leaseLive'[e] = TRUE
      BY <2>1, <2>4 DEF ExtendLease
    <3> QED BY <2>1, <2>4, <3>1, PipelineAssumption DEF Lease!Renew
  <2> QED BY <1>1, <2>2, <2>3, <2>4
<1>2. ASSUME NEW p \in Procs, Finish(p) \/ FinishUntouched(p) \/ Raise(p)
      PROVE  [Lease(e)!Next]_(Lease(e)!LeaseVars)
  <2>1. pc[p] \in Running /\ (ReleaseLease(p, Exec(p)) \/ ExtendLease(p, Exec(p)))
    BY <1>2, RunningSteps DEF Finish, FinishUntouched, Raise, At
  <2>2. Exec(p) \in Executions
    BY <2>1, RunningSteps DEF TypeInv, InCall
  <2> QED BY <1>1, <2>1, <2>2
<1>3. ASSUME NEW p \in Procs, Process(p), ~Finish(p), ~FinishUntouched(p) PROVE UNCHANGED leaseVars
  BY <1>3 DEF Process, LeaveAlone, ResumeGuard, ReadExecution, Start, Discover, Fill, Validate,
              Recheck, Gate, Mark, Submit, Outcome, Confirm, Mirror, Write
<1>4. ASSUME NEW p \in Procs, Crash(p) PROVE UNCHANGED leaseVars
  BY <1>4 DEF Crash
<1>5. ASSUME NEW w \in Workers, Worker(w) PROVE [Lease(e)!Next]_(Lease(e)!LeaseVars)
  <2>1. ASSUME NEW f \in Executions, Select(w, f) PROVE UNCHANGED leaseVars
    BY <2>1 DEF Select
  <2>4. CASE Claim(w)
    <3>1. Exec(w) \in Executions
      BY <2>4 DEF Claim, At, TypeInv, InCall
    <3> QED BY <2>4, <3>1 DEF Claim, Lease!Take, TypeInv, TypeOK
  <2>2. CASE CooldownSkip(w)
    <3>1. Exec(w) \in Executions /\ w \in Procs
      BY <2>2, RunningSteps DEF CooldownSkip, At, TypeInv, InCall, Procs
    <3> QED BY <1>1, <2>2, <3>1 DEF CooldownSkip
  <2>3. CASE Begin(w)
    BY <2>3 DEF Begin
  <2> QED BY <1>5, <2>1, <2>2, <2>3, <2>4 DEF Worker
<1>6. ASSUME NEW c \in Clicks, Click(c) PROVE UNCHANGED leaseVars
  BY <1>6 DEF Click, QueueApplication, QueueExisting, QueueRefused, QueueDuplicate, QueueCreate,
              Retry, ClaimReadyExecution, RecordApproval, Reconcile, Handoff, Resolve
<1>7. ASSUME Environment PROVE [Lease(e)!Next]_(Lease(e)!LeaseVars)
  BY <1>7 DEF Environment, UpdateState, Regenerate, RefreshSponsorship, LeaseExpires, Lease!Lapse,
              TypeInv, TypeOK
<1>8. UNCHANGED vars => UNCHANGED leaseVars
  BY DEF vars
<1> QED BY <1>2, <1>3, <1>4, <1>5, <1>6, <1>7, <1>8 DEF Next

\* The lease of every execution implements the exclusive lease of ExclusiveLease,
\* although requests run without one (applications/queue.py).
THEOREM LeasesImplemented == Spec => LeasesAreExclusive
<1> SUFFICES ASSUME NEW e \in Executions PROVE Spec => Lease(e)!Spec
  BY DEF LeasesAreExclusive
<1>1. Init => Lease(e)!Init
  BY DEF Init, Lease!Init
<1>2. TypeInv /\ [Next]_vars => [Lease(e)!Next]_(Lease(e)!LeaseVars)
  BY LeaseMoves
<1> QED BY <1>1, <1>2, TypeCorrect, PTL DEF Spec, Lease!Spec

-----------------------------------------------------------------------------
(* Nothing is sent that no human approved, unless the mode allows it.      *)

\* A call that is past the gate has the consent the gate asked for.
Consented(p) ==
  pc[p] \in {"mark", "submit"} => mode[Exec(p)] = "AUTO_PERMITTED" \/ approval[Exec(p)]

ConsentInv == TypeInv /\ (\A p \in Procs : Consented(p)) /\ NothingUnapproved

\* A step that takes back no consent, sends nothing and moves no other call
\* past the gate.
LEMMA ConsentKept ==
  ASSUME ConsentInv, TypeInv', UNCHANGED received,
         \A e \in Executions : status[e] # NoStatus =>
           mode'[e] = mode[e] /\ (approval[e] => approval'[e]),
         \A q \in Procs : pc'[q] \in {"mark", "submit"} =>
           /\ pc[q] \in Running /\ frame'[q].exec = frame[q].exec
           /\ \/ pc[q] \in {"mark", "submit"}
              \/ mode'[Exec(q)] = "AUTO_PERMITTED" \/ approval'[Exec(q)]
  PROVE  ConsentInv'
<1>1. ASSUME NEW q \in Procs PROVE Consented(q)'
  BY <1>1 DEF ConsentInv, Consented, TypeInv, InCall, Exec
<1>2. NothingUnapproved'
  BY DEF ConsentInv, NothingUnapproved, TypeInv, TypeOK, Row
<1> QED BY <1>1, <1>2 DEF ConsentInv

\* A write of process_execution() other than the one that enters "submit".
LEMMA WriteConsents ==
  ASSUME ConsentInv, TypeInv', NEW p \in Procs, pc[p] \in Running, NEW s,
         NEW step \in Running \ {"mark", "submit"}, Write(p, s, step)
  PROVE  ConsentInv'
<1>1. /\ pc' = [pc EXCEPT ![p] = step]
      /\ UNCHANGED <<mode, approval, received, frame>> /\ TypeOK
  BY DEF Write, Goto, ConsentInv, TypeInv
<1>2. \A q \in Procs : pc'[q] \in {"mark", "submit"} => pc'[q] = pc[q]
  BY <1>1 DEF TypeOK
<1>3. {"mark", "submit"} \subseteq Running
  BY RunningSteps
<1> QED BY <1>1, <1>2, <1>3, ConsentKept

\* Every step of process_execution() keeps the consent.
LEMMA ProcessConsents ==
  ASSUME ConsentInv, TypeInv', NEW p \in Procs, Process(p)
  PROVE  ConsentInv'
<1> USE RunningSteps
<1> DEFINE e == Exec(p)
<1>0. /\ TypeInv /\ TypeOK
      /\ pc[p] \in Running => e \in Executions /\ status[e] # NoStatus
  BY DEF ConsentInv, TypeInv, InCall
<1>1. ASSUME NEW s, NEW step \in Running \ {"mark", "submit"}, pc[p] \in Running,
             Write(p, s, step)
      PROVE  ConsentInv'
  BY <1>1, WriteConsents
<1>2. ASSUME NEW step \in Steps \ {"mark", "submit"}, pc' = [pc EXCEPT ![p] = step],
             UNCHANGED <<mode, approval, received>>,
             \A q \in Procs \ {p} : frame'[q] = frame[q]
      PROVE  ConsentInv'
  BY <1>0, <1>2, ConsentKept DEF TypeOK
<1>3. CASE LeaveAlone(p) \/ ReadExecution(p) \/ Recheck(p)
  BY <1>0, <1>2, <1>3 DEF LeaveAlone, ReadExecution, Recheck, Goto, rowVars, TypeOK
<1>4. CASE Finish(p) \/ FinishUntouched(p)
  BY <1>0, <1>2, <1>4 DEF Finish, FinishUntouched, Return, Goto, rowVars, TypeOK
<1>5. CASE Mirror(p)
  BY <1>0, <1>5, ConsentKept DEF Mirror, rowVars
<1>6. CASE ResumeGuard(p) \/ Start(p) \/ Discover(p) \/ Fill(p) \/ Outcome(p) \/ Confirm(p)
  BY <1>1, <1>6 DEF ResumeGuard, Start, Discover, Fill, Outcome, Confirm, At
<1>7. CASE Validate(p)
  <2>1. CASE pc' = [pc EXCEPT ![p] = "recheck"] /\ UNCHANGED <<rowVars, frame, received>>
    BY <1>2, <2>1 DEF rowVars
  <2>2. CASE \E s : Write(p, s, "finish")
    BY <1>1, <1>7, <2>2 DEF Validate, At
  <2> QED BY <1>7, <2>1, <2>2 DEF Validate, Goto
<1>8. CASE Gate(p)
  <2>1. CASE \E s : Write(p, s, "finish")
    BY <1>1, <1>8, <2>1 DEF Gate, At
  <2>2. CASE /\ \E cleared, current \in BOOLEAN : SubmitPermitted(p, cleared, current)
             /\ Goto(p, "mark") /\ UNCHANGED <<rowVars, frame, received>>
    <3>1. mode[e] = "AUTO_PERMITTED" \/ approval[e]
      BY <2>2 DEF SubmitPermitted, AutoSubmitPermitted, ApprovedSubmitPermitted
    <3>2. pc[p] \in Running
      BY <1>8 DEF Gate, At
    <3> QED BY <1>0, <2>2, <3>1, <3>2, ConsentKept DEF Goto, TypeOK, rowVars
  <2> QED BY <1>8, <2>1, <2>2 DEF Gate
<1>9. CASE Mark(p)
  BY <1>0, <1>9, ConsentKept DEF Mark, At, Goto, TypeOK, ConsentInv, Consented
<1>10. CASE Submit(p)
  <2>1. /\ pc[p] = "submit" /\ pc' = [pc EXCEPT ![p] = "outcome"]
        /\ \A f \in Executions \ {e} : received'[f] = received[f]
        /\ \A q \in Procs \ {p} : frame'[q] = frame[q]
        /\ UNCHANGED rowVars
    BY <1>0, <1>10 DEF Submit, At, Goto, TypeOK
  <2>2. mode[e] = "AUTO_PERMITTED" \/ approval[e]
    BY <2>1 DEF ConsentInv, Consented
  <2>3. NothingUnapproved'
    BY <1>0, <2>1, <2>2 DEF ConsentInv, NothingUnapproved, TypeOK, rowVars
  <2>4. ASSUME NEW q \in Procs PROVE Consented(q)'
    BY <1>0, <2>1, <2>4 DEF ConsentInv, Consented, TypeOK, Exec, rowVars
  <2> QED BY <2>3, <2>4 DEF ConsentInv
<1> QED BY <1>3, <1>4, <1>5, <1>6, <1>7, <1>8, <1>9, <1>10 DEF Process

\* Every step of a request outside process_execution() keeps the consent.
LEMMA ClickConsents ==
  ASSUME ConsentInv, TypeInv', NEW c \in Clicks, Click(c)
  PROVE  ConsentInv'
<1>0. TypeInv /\ TypeOK
  BY DEF ConsentInv, TypeInv
<1>1. ASSUME UNCHANGED received, NEW step \in {"idle", "queueing", "record", "read", "resolve"},
             pc' = [pc EXCEPT ![c] = step],
             \A q \in Procs \ {c} : frame'[q] = frame[q],
             \A e \in Executions : status[e] # NoStatus =>
               mode'[e] = mode[e] /\ (approval[e] => approval'[e])
      PROVE  ConsentInv'
  <2>1. {"mark", "submit"} \subseteq Running
    BY RunningSteps
  <2> QED BY <1>0, <1>1, <2>1, ConsentKept DEF Exec, TypeOK
<1>2. ASSUME NEW f, frame' = [frame EXCEPT ![c] = f]
      PROVE  \A q \in Procs \ {c} : frame'[q] = frame[q]
  BY <1>0, <1>2 DEF TypeOK
<1>3. ASSUME NEW j \in Jobs, QueueApplication(c, j) PROVE ConsentInv'
  BY <1>1, <1>2, <1>3 DEF QueueApplication, Goto, rowVars
<1>4. ASSUME NEW e \in Executions, QueueThen(c, e)
      PROVE  /\ \E step \in {"idle", "read"} : pc' = [pc EXCEPT ![c] = step]
             /\ \A q \in Procs \ {c} : frame'[q] = frame[q]
  BY <1>2, <1>4 DEF QueueThen, Return, Goto
<1>5. CASE QueueExisting(c)
  <2>1. PICK e \in Executions : QueueThen(c, e)
    BY <1>5 DEF QueueExisting, ActiveFor
  <2> QED BY <1>1, <1>4, <1>5, <2>1 DEF QueueExisting, rowVars
<1>6. CASE QueueRefused(c)
  BY <1>1, <1>2, <1>6 DEF QueueRefused, Return, Goto, rowVars
<1>7. CASE QueueDuplicate(c)
  BY <1>1, <1>2, <1>7 DEF QueueDuplicate, Return, Goto, rowVars
<1>8. ASSUME NEW e \in Executions, NEW m \in Modes, QueueCreate(c, e, m) PROVE ConsentInv'
  <2>1. /\ \E step \in {"idle", "read"} : pc' = [pc EXCEPT ![c] = step]
        /\ \A q \in Procs \ {c} : frame'[q] = frame[q]
    BY <1>4, <1>8 DEF QueueCreate
  <2>2. \A f \in Executions : status[f] # NoStatus => mode'[f] = mode[f] /\ approval'[f] = approval[f]
    BY <1>0, <1>8 DEF QueueCreate, TypeOK
  <2> QED BY <1>1, <1>8, <2>1, <2>2 DEF QueueCreate
<1>9. ASSUME NEW e \in Executions, Retry(c, e) PROVE ConsentInv'
  BY <1>1, <1>2, <1>9 DEF Retry, Goto, rowVars
<1>10. ASSUME NEW e \in Executions, ClaimReadyExecution(c, e) PROVE ConsentInv'
  BY <1>1, <1>2, <1>10 DEF ClaimReadyExecution, Goto
<1>11. CASE RecordApproval(c)
  BY <1>0, <1>1, <1>11 DEF RecordApproval, Goto, TypeOK
<1>12. ASSUME NEW e \in Executions, NEW t, Reconcile(c, e, t) PROVE ConsentInv'
  BY <1>1, <1>2, <1>12 DEF Reconcile, Goto, rowVars
<1>13. ASSUME NEW e \in Executions, NEW t, Handoff(c, e, t) PROVE ConsentInv'
  BY <1>1, <1>2, <1>13 DEF Handoff, Goto, rowVars
<1>14. CASE Resolve(c)
  BY <1>1, <1>2, <1>14 DEF Resolve, Return, Goto
<1> QED
  BY <1>3, <1>5, <1>6, <1>7, <1>8, <1>9, <1>10, <1>11, <1>12, <1>13, <1>14 DEF Click

\* In ASSIST mode nothing is ever sent that no human approved, however calls on
\* one execution overlap: the gate reads the approval afresh, and neither an
\* approval nor the mode of an execution is ever taken back.
THEOREM NothingSentUnapproved == Spec => []NothingUnapproved
<1> USE RunningSteps
<1>1. Init => ConsentInv
  BY InitTyped DEF Init, ConsentInv, Consented, NothingUnapproved
<1>2. ASSUME ConsentInv, [Next]_vars PROVE ConsentInv'
  <2>0. TypeInv /\ TypeOK /\ TypeInv'
    BY <1>2, NextTyped DEF ConsentInv, TypeInv
  <2>1. ASSUME UNCHANGED <<mode, approval, received>>,
               \A q \in Procs : pc'[q] \in {"mark", "submit"} =>
                 pc'[q] = pc[q] /\ frame'[q] = frame[q]
        PROVE  ConsentInv'
    BY <1>2, <2>0, <2>1, ConsentKept
  <2>2. CASE UNCHANGED vars
    BY <2>1, <2>2 DEF vars, rowVars, procVars
  <2>3. ASSUME NEW p \in Procs, Process(p) PROVE ConsentInv'
    BY <1>2, <2>0, <2>3, ProcessConsents
  <2>4. ASSUME NEW p \in Procs, Raise(p) \/ Crash(p) PROVE ConsentInv'
    BY <2>0, <2>1, <2>4 DEF Raise, Crash, Return, Goto, TypeOK, rowVars
  <2>5. ASSUME NEW w \in Workers, Worker(w) PROVE ConsentInv'
    BY <2>0, <2>1, <2>5 DEF Worker, Select, Claim, CooldownSkip, Begin, Return, Goto, TypeOK, rowVars
  <2>6. ASSUME NEW c \in Clicks, Click(c) PROVE ConsentInv'
    BY <1>2, <2>0, <2>6, ClickConsents
  <2>7. CASE Environment
    BY <2>1, <2>7 DEF Environment, UpdateState, Regenerate, RefreshSponsorship, LeaseExpires,
                      rowVars, procVars
  <2> QED BY <1>2, <2>2, <2>3, <2>4, <2>5, <2>6, <2>7 DEF Next
<1>3. ConsentInv => NothingUnapproved
  BY DEF ConsentInv
<1> QED BY <1>1, <1>2, <1>3, PTL DEF Spec

-----------------------------------------------------------------------------
(* An unknown outcome waits for a human.                                   *)

\* A write to a row whose outcome is known changes no row whose outcome is not.
LEMMA WriteWaits ==
  ASSUME TypeInv, NEW p \in Procs, NEW s, UpdateExecution(p, s),
         status[Exec(p)] # "SUBMISSION_STATUS_UNKNOWN",
         NEW e \in Executions, status[e] = "SUBMISSION_STATUS_UNKNOWN"
  PROVE  status'[e] = status[e]
  BY DEF UpdateExecution, TypeInv, TypeOK

\* process_execution() writes only to a row it knows not to be unknown.
LEMMA ProcessWaits ==
  ASSUME SubmissionInv, NEW p \in Procs, Process(p),
         NEW e \in Executions, status[e] = "SUBMISSION_STATUS_UNKNOWN"
  PROVE  status'[e] = status[e]
<1>0. TypeInv /\ Knows(p)
  BY DEF SubmissionInv
<1>1. ASSUME NEW s, NEW step, Write(p, s, step),
             pc[p] \in BeforeSubmit \cup {"outcome", "confirm"} \/ status[Exec(p)] \in InFlightStatuses
      PROVE  status'[e] = status[e]
  BY <1>0, <1>1, WriteWaits DEF Write, Knows, InFlightStatuses
<1>2. CASE LeaveAlone(p) \/ ReadExecution(p) \/ Recheck(p) \/ Submit(p) \/ Mirror(p)
             \/ Finish(p) \/ FinishUntouched(p)
  BY <1>2 DEF LeaveAlone, ReadExecution, Recheck, Submit, Mirror, Finish, FinishUntouched, rowVars
<1>3. CASE ResumeGuard(p) \/ Start(p) \/ Discover(p) \/ Fill(p)
  BY <1>1, <1>3 DEF ResumeGuard, Start, Discover, Fill, At, BeforeSubmit
<1>4. CASE Validate(p)
  BY <1>1, <1>4 DEF Validate, At, BeforeSubmit, rowVars
<1>5. CASE Gate(p)
  BY <1>1, <1>5 DEF Gate, At, BeforeSubmit, rowVars
<1>6. CASE Mark(p)
  BY <1>0, <1>6, WriteWaits DEF Mark, At, BeforeSubmit, Knows
<1>7. CASE Outcome(p) \/ Confirm(p)
  BY <1>1, <1>7 DEF Outcome, Confirm, At
<1> QED BY <1>2, <1>3, <1>4, <1>5, <1>6, <1>7 DEF Process

\* An execution whose outcome is unknown moves on only by a human resolution, as
\* long as no two processes run one execution at once: what process_execution()
\* read of the row is then still true when it writes to it.
THEOREM UnknownOutcomesWait ==
  ASSUME Exclusive
  PROVE  Spec => UnknownWaits
<1> DEFINE Waits == \A e \in Executions :
             status[e] = "SUBMISSION_STATUS_UNKNOWN" /\ status'[e] # status[e] =>
               \E c \in Clicks : pc[c] = "resolve" /\ Exec(c) = e
<1>1. ASSUME SubmissionInv, [Next]_vars PROVE Waits
  <2>0. TypeInv /\ TypeOK
    BY <1>1 DEF SubmissionInv, TypeInv
  <2>1. CASE UNCHANGED vars
    BY <2>1 DEF vars, rowVars
  <2>2. ASSUME NEW p \in Procs, Process(p) PROVE Waits
    BY <1>1, <2>2, ProcessWaits
  <2>3. ASSUME NEW p \in Procs, Raise(p) \/ Crash(p) PROVE Waits
    BY <2>3 DEF Raise, Crash, rowVars
  <2>4. ASSUME NEW w \in Workers, Worker(w) PROVE Waits
    BY <2>4 DEF Worker, Select, Claim, CooldownSkip, Begin, rowVars
  <2>5. ASSUME NEW c \in Clicks, Resolve(c) PROVE Waits
    BY <2>0, <2>5 DEF Resolve, UpdateExecution, At, TypeOK
  <2>6. ASSUME NEW c \in Clicks, NEW f \in Executions, NEW m \in Modes, QueueCreate(c, f, m)
        PROVE  Waits
    BY <2>0, <2>6 DEF QueueCreate, TypeOK, NoStatus
  <2>7. ASSUME NEW c \in Clicks, NEW f \in Executions, ClaimReadyExecution(c, f) PROVE Waits
    BY <2>0, <2>7 DEF ClaimReadyExecution, TypeOK
  <2>8. ASSUME NEW c \in Clicks,
               \/ \E j \in Jobs : QueueApplication(c, j)
               \/ QueueExisting(c) \/ QueueRefused(c) \/ QueueDuplicate(c) \/ RecordApproval(c)
               \/ \E f \in Executions : Retry(c, f)
               \/ \E f \in Executions, t \in TerminalStatuses \cup {"SUBMISSION_STATUS_UNKNOWN"} :
                    Reconcile(c, f, t) \/ Handoff(c, f, t)
        PROVE  Waits
    BY <2>8 DEF QueueApplication, QueueExisting, QueueRefused, QueueDuplicate, RecordApproval,
                Retry, Reconcile, Handoff, rowVars
  <2>9. CASE Environment
    BY <2>9 DEF Environment, UpdateState, Regenerate, RefreshSponsorship, LeaseExpires, rowVars
  <2> QED
    BY <1>1, <2>1, <2>2, <2>3, <2>4, <2>5, <2>6, <2>7, <2>8, <2>9 DEF Next, Click
<1>2. SubmissionInv /\ [Next]_vars => [Waits]_vars
  BY <1>1
<1>3. Init => SubmissionInv
  BY InitKeeps
<1>4. SubmissionInv /\ [Next]_vars => SubmissionInv'
  BY NextKeeps
<1> HIDE DEF Waits
<1>5. Spec => [][Waits]_vars
  BY <1>2, <1>3, <1>4, PTL DEF Spec
<1> QED BY <1>5 DEF Waits, UnknownWaits

-----------------------------------------------------------------------------
(* Attempts stay within what is configured.                                *)

\* The outcome of an attempt is not recorded yet, or nobody knows it.
Awaited == InFlightStatuses \cup {"SUBMISSION_STATUS_UNKNOWN"}

\* Where a call has still to count its attempt, and where it just has.
Counting == BeforeSubmit \ {"submit"}

\* A call counts from the value it read at the top, which is still the row's ...
Counts(p) ==
  /\ pc[p] \in Counting =>
       frame[p].tries = attempts[Exec(p)] /\ attempts[Exec(p)] < MaxAttempts
  /\ pc[p] \in {"submit", "outcome"} => attempts[Exec(p)] = frame[p].tries + 1

\* ... and an execution that has used up its attempts is not to be run again.
Counted(e) ==
  /\ attempts[e] <= MaxAttempts
  /\ status[e] = NoStatus => attempts[e] = 0
  /\ active[e] /\ status[e] \notin Awaited => attempts[e] < MaxAttempts

CountInv == (\A p \in Procs : Counts(p)) /\ (\A e \in Executions : Counted(e))

\* A step that counts nothing: the rows it touches may be run again only if there
\* are attempts left, and the calls go on with the count they had.
LEMMA CountKept ==
  ASSUME CountInv, UNCHANGED attempts,
         \A q \in Procs : pc'[q] \in Counting =>
           /\ pc[q] \in Counting
           /\ frame'[q].exec = frame[q].exec /\ frame'[q].tries = frame[q].tries,
         \A q \in Procs : pc'[q] \in {"submit", "outcome"} =>
           /\ pc[q] \in {"submit", "outcome"}
           /\ frame'[q].exec = frame[q].exec /\ frame'[q].tries = frame[q].tries,
         \A e \in Executions :
           \/ status'[e] = status[e] /\ active'[e] = active[e]
           \/ /\ status'[e] # NoStatus
              /\ active'[e] /\ status'[e] \notin Awaited => attempts[e] < MaxAttempts
  PROVE  CountInv'
<1>1. ASSUME NEW q \in Procs PROVE Counts(q)'
  BY DEF CountInv, Counts, Exec
<1>2. ASSUME NEW e \in Executions PROVE Counted(e)'
  BY DEF CountInv, Counted
<1> QED BY <1>1, <1>2 DEF CountInv

\* A write of process_execution() to a row with attempts left, or that leaves it
\* ended or awaited.
LEMMA WriteCounts ==
  ASSUME TypeInv, CountInv, NEW p \in Procs, pc[p] \in Running,
         NEW s \in ExecutionStatus,
         NEW step \in Running \ {"recheck", "gate", "mark", "submit", "outcome"},
         Write(p, s, step),
         step \in BeforeSubmit => pc[p] \in Counting,
         s \in TerminalStatuses \cup Awaited \/ attempts[Exec(p)] < MaxAttempts
  PROVE  CountInv'
<1>1. /\ status' = [status EXCEPT ![Exec(p)] = s]
      /\ active' = [active EXCEPT ![Exec(p)] = @ /\ s \notin TerminalStatuses]
      /\ pc' = [pc EXCEPT ![p] = step]
      /\ UNCHANGED <<attempts, frame>>
  BY DEF Write, UpdateExecution, Goto
<1>2. TypeOK /\ Exec(p) \in Executions
  BY DEF TypeInv, InCall
<1>3. \A e \in Executions :
        \/ status'[e] = status[e] /\ active'[e] = active[e]
        \/ /\ status'[e] # NoStatus
           /\ active'[e] /\ status'[e] \notin Awaited => attempts[e] < MaxAttempts
  BY <1>1, <1>2 DEF TypeOK, ExecutionStatus, NoStatus
<1>4. \A q \in Procs : pc'[q] \in Counting => pc[q] \in Counting
  BY <1>1, <1>2 DEF TypeOK, Counting
<1>5. \A q \in Procs : pc'[q] \in {"submit", "outcome"} => pc[q] \in {"submit", "outcome"}
  BY <1>1, <1>2 DEF TypeOK
<1> QED BY <1>1, <1>3, <1>4, <1>5, CountKept

\* Every step of process_execution() counts right, if no two processes run one
\* execution: only then is the count that a call writes back still the row's.
LEMMA ProcessCounts ==
  ASSUME TypeInv, OneRunner, CountInv, NEW p \in Procs, Process(p)
  PROVE  CountInv'
<1> USE RunningSteps
<1> DEFINE e == Exec(p)
<1>0. /\ TypeOK /\ Counts(p)
      /\ pc[p] \in Running => e \in Executions /\ Counted(e)
  BY DEF CountInv, TypeInv, InCall
<1>a. Counting = {"start", "discover", "fill", "validate", "recheck", "gate", "mark"}
  BY DEF Counting, BeforeSubmit
<1>b. BeforeSubmit = Counting \cup {"submit"}
  BY DEF Counting, BeforeSubmit
<1>1. ASSUME NEW s \in ExecutionStatus, NEW step \in {"discover", "fill", "validate", "finish"},
             Write(p, s, step), pc[p] \in Counting
      PROVE  CountInv'
  <2>1. attempts[e] < MaxAttempts /\ pc[p] \in Running
    BY <1>0, <1>1, <1>a DEF Counts
  <2> QED BY <1>1, <1>a, <1>b, <2>1, WriteCounts
<1>2. ASSUME NEW step \in Steps \ (Counting \cup {"submit", "outcome"}),
             pc' = [pc EXCEPT ![p] = step], \A q \in Procs \ {p} : frame'[q] = frame[q],
             UNCHANGED rowVars
      PROVE  CountInv'
  BY <1>0, <1>2, CountKept DEF TypeOK, rowVars
<1>3. CASE LeaveAlone(p) \/ Finish(p) \/ FinishUntouched(p)
  BY <1>0, <1>2, <1>3, <1>a DEF LeaveAlone, Finish, FinishUntouched, Return, Goto, TypeOK
<1>4. CASE ResumeGuard(p)
  BY <1>4, <1>b, <1>a, WriteCounts DEF ResumeGuard, At, ExecutionStatus, Awaited
<1>5. CASE ReadExecution(p)
  <2>1. /\ pc[p] = "read" /\ pc' = [pc EXCEPT ![p] = "start"] /\ UNCHANGED rowVars
        /\ active[e] /\ status[e] \notin Awaited
    BY <1>5 DEF ReadExecution, At, Goto, Awaited
  <2>2. /\ \A q \in Procs \ {p} : frame'[q] = frame[q]
        /\ frame'[p].tries = attempts[e] /\ frame'[p].exec = e
    BY <1>0, <1>5 DEF ReadExecution, TypeOK, Frames, Exec
  <2>3. attempts[e] < MaxAttempts
    BY <1>0, <2>1 DEF Counted
  <2>4. ASSUME NEW q \in Procs PROVE Counts(q)'
    BY <1>0, <1>a, <2>1, <2>2, <2>3 DEF CountInv, Counts, TypeOK, Exec, rowVars
  <2>5. \A f \in Executions : Counted(f)'
    BY <2>1 DEF CountInv, Counted, rowVars
  <2> QED BY <2>4, <2>5 DEF CountInv
<1>6. CASE Start(p) \/ Discover(p) \/ Fill(p)
  BY <1>1, <1>6, <1>a DEF Start, Discover, Fill, At, ExecutionStatus
<1>7. CASE Validate(p)
  <2>1. CASE \E s \in {"NEEDS_USER_ACTION", "SUBMISSION_READY"} : Write(p, s, "finish")
    BY <1>1, <1>7, <1>a, <2>1 DEF Validate, At, ExecutionStatus
  <2>2. CASE pc' = [pc EXCEPT ![p] = "recheck"] /\ UNCHANGED <<rowVars, frame>>
    BY <1>0, <1>7, <1>a, <2>2, CountKept DEF Validate, At, TypeOK, rowVars
  <2> QED BY <1>7, <2>1, <2>2 DEF Validate, Goto
<1>8. CASE Recheck(p)
  <2>1. /\ pc[p] = "recheck" /\ pc' = [pc EXCEPT ![p] = "gate"] /\ UNCHANGED rowVars
    BY <1>8 DEF Recheck, At, Goto
  <2>2. \A q \in Procs : frame'[q].exec = frame[q].exec /\ frame'[q].tries = frame[q].tries
    BY <1>0, <1>8 DEF Recheck, TypeOK, Frames
  <2> QED BY <1>0, <1>a, <2>1, <2>2, CountKept DEF TypeOK, rowVars
<1>9. CASE Gate(p)
  <2>1. CASE \E s \in {"JOB_NO_LONGER_ACTIVE", "NEEDS_USER_ACTION", "DUPLICATE_APPLICATION_BLOCKED",
                       "APPROVED", "SUBMISSION_READY"} : Write(p, s, "finish")
    BY <1>1, <1>9, <1>a, <2>1 DEF Gate, At, ExecutionStatus
  <2>2. CASE pc' = [pc EXCEPT ![p] = "mark"] /\ UNCHANGED <<rowVars, frame>>
    BY <1>0, <1>9, <1>a, <2>2, CountKept DEF Gate, At, TypeOK, rowVars
  <2> QED BY <1>9, <2>1, <2>2 DEF Gate, Goto
<1>10. CASE Mark(p)
  <2>1. /\ pc[p] = "mark" /\ pc' = [pc EXCEPT ![p] = "submit"] /\ frame' = frame
        /\ status' = [status EXCEPT ![e] = "SUBMITTING"]
        /\ active' = [active EXCEPT ![e] = @ /\ "SUBMITTING" \notin TerminalStatuses]
        /\ attempts' = [attempts EXCEPT ![e] = frame[p].tries + 1]
    BY <1>10 DEF Mark, At, UpdateExecution, Goto
  <2>2. /\ frame[p].tries = attempts[e] /\ attempts[e] < MaxAttempts /\ e \in Executions
        /\ MaxAttempts \in Nat /\ attempts[e] \in Nat
    BY <1>0, <1>a, <2>1, PipelineAssumption DEF Counts, TypeOK
  <2>3. ASSUME NEW q \in Procs \ {p}, pc'[q] \in Counting \cup {"submit", "outcome"}
        PROVE  pc[q] = pc'[q] /\ attempts'[Exec(q)] = attempts[Exec(q)]
    <3>1. pc[q] = pc'[q] /\ Exec(q) \in Executions /\ Exec(q) # e
      BY <1>0, <1>a, <2>1, <2>2, <2>3 DEF TypeOK, TypeInv, InCall, OneRunner, Runs, Exec
    <3> QED BY <1>0, <2>1, <3>1 DEF TypeOK
  <2>4. ASSUME NEW q \in Procs PROVE Counts(q)'
    <3>1. CASE q = p
      BY <1>0, <1>a, <2>1, <2>2, <3>1 DEF Counts, TypeOK, Exec
    <3>2. CASE q # p
      BY <2>1, <2>3, <3>2 DEF CountInv, Counts, Exec
    <3> QED BY <3>1, <3>2
  <2>5. ASSUME NEW f \in Executions PROVE Counted(f)'
    <3>1. CASE f = e
      BY <1>0, <2>1, <2>2, <3>1 DEF Counted, TypeOK, Awaited, InFlightStatuses, NoStatus
    <3>2. CASE f # e
      BY <1>0, <2>1, <3>2 DEF CountInv, Counted, TypeOK
    <3> QED BY <3>1, <3>2
  <2> QED BY <2>4, <2>5 DEF CountInv
<1>11. CASE Submit(p)
  <2>1. /\ pc[p] = "submit" /\ pc' = [pc EXCEPT ![p] = "outcome"] /\ UNCHANGED rowVars
    BY <1>11 DEF Submit, At, Goto
  <2>2. \A q \in Procs : frame'[q].exec = frame[q].exec /\ frame'[q].tries = frame[q].tries
    BY <1>0, <1>11 DEF Submit, TypeOK, Frames
  <2> QED BY <1>0, <1>a, <2>1, <2>2, CountKept DEF TypeOK, rowVars
<1>12. CASE Outcome(p)
  <2>1. pc[p] = "outcome" /\ attempts[e] = frame[p].tries + 1
    BY <1>0, <1>12 DEF Outcome, At, Counts
  <2>2. CASE \E s \in {"SUBMISSION_STATUS_UNKNOWN", "PERMANENT_SUBMISSION_FAILURE"} : Write(p, s, "finish")
    BY <2>1, <2>2, <1>a, <1>b, WriteCounts DEF ExecutionStatus, Awaited, TerminalStatuses
  <2>3. CASE Write(p, "RETRYABLE_SUBMISSION_FAILURE", "finish") /\ frame[p].tries + 1 < MaxAttempts
    BY <2>1, <2>3, <1>a, <1>b, WriteCounts DEF ExecutionStatus
  <2>4. CASE Write(p, "SUBMITTED", "confirm")
    BY <2>1, <2>4, <1>a, <1>b, WriteCounts DEF ExecutionStatus, Awaited, InFlightStatuses
  <2> QED BY <1>12, <2>2, <2>3, <2>4 DEF Outcome
<1>13. CASE Confirm(p)
  BY <1>13, <1>a, <1>b, WriteCounts DEF Confirm, At, ExecutionStatus, Awaited, TerminalStatuses
<1>14. CASE Mirror(p)
  BY <1>14, CountKept DEF Mirror, rowVars
<1> QED
  BY <1>3, <1>4, <1>5, <1>6, <1>7, <1>8, <1>9, <1>10, <1>11, <1>12, <1>13, <1>14 DEF Process

\* Every step of a request outside process_execution() counts right.
LEMMA ClickCounts ==
  ASSUME TypeInv, CountInv, NEW c \in Clicks, Click(c)
  PROVE  CountInv'
<1>0. TypeOK
  BY DEF TypeInv
<1>a. /\ Counting \cap {"idle", "queueing", "record", "read", "resolve"} = {}
      /\ {"submit", "outcome"} \cap {"idle", "queueing", "record", "read", "resolve"} = {}
  BY DEF Counting, BeforeSubmit
<1>1. ASSUME NEW step \in {"idle", "queueing", "record", "read", "resolve"},
             pc' = [pc EXCEPT ![c] = step], \A q \in Procs \ {c} : frame'[q] = frame[q],
             UNCHANGED attempts,
             \A e \in Executions :
               \/ status'[e] = status[e] /\ active'[e] = active[e]
               \/ /\ status'[e] # NoStatus
                  /\ active'[e] /\ status'[e] \notin Awaited => attempts[e] < MaxAttempts
      PROVE  CountInv'
  BY <1>0, <1>a, <1>1, CountKept DEF TypeOK
<1>2. ASSUME NEW f, frame' = [frame EXCEPT ![c] = f]
      PROVE  \A q \in Procs \ {c} : frame'[q] = frame[q]
  BY <1>0, <1>2 DEF TypeOK
<1>3. ASSUME NEW e \in Executions, QueueThen(c, e)
      PROVE  /\ \E step \in {"idle", "read"} : pc' = [pc EXCEPT ![c] = step]
             /\ \A q \in Procs \ {c} : frame'[q] = frame[q]
  BY <1>2, <1>3 DEF QueueThen, Return, Goto
<1>4. CASE QueueExisting(c)
  <2>1. PICK e \in Executions : QueueThen(c, e)
    BY <1>4 DEF QueueExisting, ActiveFor
  <2> QED BY <1>1, <1>3, <1>4, <2>1 DEF QueueExisting, rowVars
<1>5. ASSUME NEW e \in Executions, NEW m \in Modes, QueueCreate(c, e, m) PROVE CountInv'
  <2>1. /\ \E step \in {"idle", "read"} : pc' = [pc EXCEPT ![c] = step]
        /\ \A q \in Procs \ {c} : frame'[q] = frame[q]
    BY <1>3, <1>5 DEF QueueCreate
  <2>2. attempts[e] < MaxAttempts
    BY <1>5, PipelineAssumption DEF QueueCreate, CountInv, Counted
  <2>3. \A f \in Executions : \/ status'[f] = status[f] /\ active'[f] = active[f]
                              \/ f = e /\ status'[f] = "QUEUED"
    BY <1>0, <1>5 DEF QueueCreate, TypeOK
  <2> QED BY <1>1, <1>5, <2>1, <2>2, <2>3 DEF QueueCreate, NoStatus
<1>6. ASSUME NEW e \in Executions, ClaimReadyExecution(c, e) PROVE CountInv'
  <2>1. attempts[e] < MaxAttempts
    BY <1>6 DEF ClaimReadyExecution, CountInv, Counted, Awaited, InFlightStatuses
  <2>2. \A f \in Executions : \/ status'[f] = status[f] /\ active'[f] = active[f]
                              \/ f = e /\ status'[f] = "STARTED"
    BY <1>0, <1>6 DEF ClaimReadyExecution, TypeOK
  <2> QED BY <1>1, <1>2, <1>6, <2>1, <2>2 DEF ClaimReadyExecution, Goto, NoStatus
<1>7. CASE Resolve(c)
  <2>1. /\ Exec(c) \in Executions /\ frame[c].target \in TerminalStatuses \cup {"SUBMISSION_STATUS_UNKNOWN"}
        /\ status' = [status EXCEPT ![Exec(c)] = frame[c].target]
        /\ active' = [active EXCEPT ![Exec(c)] = @ /\ frame[c].target \notin TerminalStatuses]
    BY <1>7, RunningSteps DEF Resolve, At, UpdateExecution, TypeInv, InCall
  <2>2. \A f \in Executions :
          \/ status'[f] = status[f] /\ active'[f] = active[f]
          \/ status'[f] # NoStatus /\ (active'[f] => status'[f] \in Awaited)
    BY <1>0, <2>1 DEF TypeOK, Awaited, NoStatus, TerminalStatuses
  <2> QED BY <1>1, <1>2, <1>7, <2>2 DEF Resolve, Return, Goto
<1>8. CASE \/ \E j \in Jobs : QueueApplication(c, j)
           \/ QueueRefused(c) \/ QueueDuplicate(c) \/ RecordApproval(c)
  BY <1>0, <1>1, <1>2, <1>8
     DEF QueueApplication, QueueRefused, QueueDuplicate, RecordApproval, Return, Goto, rowVars
<1>9. CASE \/ \E e \in Executions : Retry(c, e)
           \/ \E e \in Executions, t \in TerminalStatuses \cup {"SUBMISSION_STATUS_UNKNOWN"} :
                Reconcile(c, e, t) \/ Handoff(c, e, t)
  BY <1>1, <1>2, <1>9 DEF Retry, Reconcile, Handoff, Goto, rowVars
<1> QED BY <1>4, <1>5, <1>6, <1>7, <1>8, <1>9 DEF Click

\* A submission that fails retryably is attempted as often as configured and no
\* more, however it is interrupted and reclaimed in between, as long as no two
\* processes run one execution at once (executor.py counts from what it read).
THEOREM AttemptsAreBounded ==
  ASSUME Exclusive
  PROVE  Spec => []AttemptsBounded
<1>1. Init => SubmissionInv /\ CountInv
  <2>1. Init => CountInv
    BY PipelineAssumption DEF Init, CountInv, Counts, Counted, Counting, BeforeSubmit
  <2> QED BY <2>1, InitKeeps
<1>2. ASSUME SubmissionInv, CountInv, [Next]_vars PROVE CountInv'
  <2>0. TypeInv /\ TypeOK /\ OneRunner
    BY <1>2 DEF SubmissionInv, TypeInv
  <2>a. /\ Counting \cap {"idle", "claiming", "claimed", "read"} = {}
        /\ {"submit", "outcome"} \cap {"idle", "claiming", "claimed", "read"} = {}
    BY DEF Counting, BeforeSubmit
  <2>1. ASSUME UNCHANGED rowVars,
               \A q \in Procs : \/ pc'[q] \in {"idle", "claiming", "claimed", "read"}
                                \/ pc'[q] = pc[q] /\ frame'[q] = frame[q]
        PROVE  CountInv'
    BY <1>2, <2>a, <2>1, CountKept DEF rowVars
  <2>2. CASE UNCHANGED vars
    BY <2>1, <2>2 DEF vars, procVars
  <2>3. ASSUME NEW p \in Procs, Process(p) PROVE CountInv'
    BY <1>2, <2>0, <2>3, ProcessCounts
  <2>4. ASSUME NEW p \in Procs, Raise(p) \/ Crash(p) PROVE CountInv'
    BY <2>0, <2>1, <2>4 DEF Raise, Crash, Return, Goto, TypeOK
  <2>5. ASSUME NEW w \in Workers, Worker(w) PROVE CountInv'
    BY <2>0, <2>1, <2>5 DEF Worker, Select, Claim, CooldownSkip, Begin, Return, Goto, TypeOK
  <2>6. ASSUME NEW c \in Clicks, Click(c) PROVE CountInv'
    BY <1>2, <2>0, <2>6, ClickCounts
  <2>7. CASE Environment
    BY <2>1, <2>7 DEF Environment, UpdateState, Regenerate, RefreshSponsorship, LeaseExpires, procVars
  <2> QED BY <1>2, <2>2, <2>3, <2>4, <2>5, <2>6, <2>7 DEF Next
<1>3. SubmissionInv /\ [Next]_vars => SubmissionInv'
  BY NextKeeps
<1>4. CountInv => AttemptsBounded
  BY DEF CountInv, Counted, AttemptsBounded
<1> QED BY <1>1, <1>2, <1>3, <1>4, PTL DEF Spec

-----------------------------------------------------------------------------
(* An application the provider got is remembered as made.                  *)

\* What the row of a received application shows.
Remembered == InFlightStatuses \cup {"SUBMISSION_STATUS_UNKNOWN", "APPLIED"}

\* Where a call works on a row it found active.
Opened == BeforeSubmit \cup {"outcome", "confirm", "resolve"}

\* A resolution that takes the application for not made is true.
Honest(p) ==
  /\ pc[p] \in Opened => active[Exec(p)]
  /\ pc[p] = "resolve" /\ frame[p].target \notin Remembered => received[Exec(p)] = 0

Kept(e) ==
  /\ received[e] > 0 => status[e] \in Remembered
  /\ status[e] \in Awaited => active[e]

MemoryInv == (\A p \in Procs : Honest(p)) /\ (\A e \in Executions : Kept(e))

\* A step of process p, in which only a row that nobody else runs changes.
LEMMA MemoryKept ==
  ASSUME SubmissionInv, MemoryInv, NEW p \in Procs, UNCHANGED received,
         \A q \in Procs \ {p} : pc'[q] = pc[q] /\ frame'[q] = frame[q],
         \A e \in Executions :
           \/ status'[e] = status[e] /\ active'[e] = active[e]
           \/ /\ \A q \in Procs \ {p} : ~Runs(q, e)
              /\ received[e] > 0 => status'[e] \in Remembered
              /\ status'[e] \in Awaited => active'[e],
         Honest(p)'
  PROVE  MemoryInv'
<1>1. ASSUME NEW q \in Procs \ {p} PROVE Honest(q)'
  <2>1. Opened \subseteq Running /\ "resolve" \in Opened
    BY DEF Opened, Running
  <2>2. CASE pc[q] \in Opened
    <3>1. Exec(q) \in Executions /\ Runs(q, Exec(q)) /\ Exec(q)' = Exec(q)
      BY <1>1, <2>1, <2>2 DEF SubmissionInv, TypeInv, InCall, Runs, Exec
    <3> QED BY <1>1, <2>2, <3>1 DEF MemoryInv, Honest
  <2>3. CASE pc[q] \notin Opened
    BY <1>1, <2>1, <2>3 DEF Honest
  <2> QED BY <2>2, <2>3
<1>2. ASSUME NEW e \in Executions PROVE Kept(e)'
  BY <1>2 DEF MemoryInv, Kept
<1> QED BY <1>1, <1>2 DEF MemoryInv

\* A write of process_execution().
LEMMA WriteRemembers ==
  ASSUME SubmissionInv, MemoryInv, NEW p \in Procs, pc[p] \in Running, active[Exec(p)],
         NEW s \in ExecutionStatus, NEW step \in Running \ {"resolve"}, Write(p, s, step),
         received[Exec(p)] > 0 => s \in Remembered,
         step \in Opened => s \notin TerminalStatuses
  PROVE  MemoryInv'
<1> DEFINE e == Exec(p)
<1>1. /\ status' = [status EXCEPT ![e] = s]
      /\ active' = [active EXCEPT ![e] = @ /\ s \notin TerminalStatuses]
      /\ pc' = [pc EXCEPT ![p] = step] /\ UNCHANGED <<frame, received>>
  BY DEF Write, UpdateExecution, Goto
<1>2. TypeOK /\ OneRunner /\ e \in Executions
  BY DEF SubmissionInv, TypeInv, InCall
<1>3. \A q \in Procs \ {p} : ~Runs(q, e)
  BY <1>2 DEF OneRunner, Runs
<1>4. Awaited \cap TerminalStatuses = {}
  BY DEF Awaited, InFlightStatuses, TerminalStatuses
<1>5. Honest(p)'
  BY <1>1, <1>2 DEF TypeOK, Honest, Exec
<1>6. \A q \in Procs \ {p} : pc'[q] = pc[q] /\ frame'[q] = frame[q]
  BY <1>1, <1>2 DEF TypeOK
<1>7. ASSUME NEW f \in Executions
      PROVE  \/ status'[f] = status[f] /\ active'[f] = active[f]
             \/ /\ \A q \in Procs \ {p} : ~Runs(q, f)
                /\ received[f] > 0 => status'[f] \in Remembered
                /\ status'[f] \in Awaited => active'[f]
  BY <1>1, <1>2, <1>3, <1>4, <1>7 DEF TypeOK
<1> QED BY <1>1, <1>5, <1>6, <1>7, MemoryKept

\* A step of process p that writes nothing to a row and does not take it to one
\* it has not found active.
LEMMA StayRemembers ==
  ASSUME SubmissionInv, MemoryInv, NEW p \in Procs, UNCHANGED <<status, active, received>>,
         \A q \in Procs \ {p} : pc'[q] = pc[q] /\ frame'[q] = frame[q],
         \/ pc'[p] \notin Opened
         \/ /\ pc'[p] # "resolve" /\ frame'[p].exec = frame[p].exec
            /\ active[Exec(p)]
  PROVE  MemoryInv'
<1>1. Honest(p)'
  BY DEF Honest, Opened, Exec
<1> QED BY <1>1, MemoryKept

\* process_execution() keeps what is remembered.
LEMMA ProcessRemembers ==
  ASSUME SubmissionInv, MemoryInv, NEW p \in Procs, Process(p)
  PROVE  MemoryInv'
<1> USE RunningSteps
<1> DEFINE e == Exec(p)
<1>0. TypeOK /\ OneRunner /\ Knows(p) /\ Honest(p) /\ (pc[p] \in Running => e \in Executions)
  BY DEF SubmissionInv, TypeInv, InCall, MemoryInv
<1>a. /\ BeforeSubmit = {"start", "discover", "fill", "validate", "recheck", "gate", "mark", "submit"}
      /\ Opened = BeforeSubmit \cup {"outcome", "confirm", "resolve"}
  BY DEF BeforeSubmit, Opened
<1>b. pc[p] \in BeforeSubmit => received[e] = 0 /\ active[e]
  BY <1>0, <1>a DEF Knows, Honest
<1>1. CASE LeaveAlone(p) \/ ReadExecution(p)
  <2>1. /\ UNCHANGED <<status, active, received>>
        /\ \A q \in Procs \ {p} : pc'[q] = pc[q] /\ frame'[q] = frame[q]
        /\ frame'[p].exec = frame[p].exec
        /\ pc'[p] \notin Opened \/ (pc'[p] # "resolve" /\ active[e])
    BY <1>0, <1>a, <1>1 DEF LeaveAlone, ReadExecution, Goto, rowVars, TypeOK, Frames
  <2> QED BY <2>1, StayRemembers
<1>2. CASE ResumeGuard(p)
  BY <1>a, <1>2, WriteRemembers DEF ResumeGuard, At, ExecutionStatus, Remembered
<1>3. CASE Start(p) \/ Discover(p) \/ Fill(p)
  BY <1>a, <1>b, <1>3, WriteRemembers DEF Start, Discover, Fill, At, ExecutionStatus, TerminalStatuses
<1>4. CASE Validate(p) /\ ~Goto(p, "recheck")
  BY <1>a, <1>b, <1>4, WriteRemembers DEF Validate, At, ExecutionStatus
<1>5. CASE Gate(p) /\ ~Goto(p, "mark")
  BY <1>a, <1>b, <1>5, WriteRemembers DEF Gate, At, ExecutionStatus
<1>6. CASE (Validate(p) /\ Goto(p, "recheck")) \/ Recheck(p) \/ (Gate(p) /\ Goto(p, "mark"))
  <2>1. pc[p] \in BeforeSubmit
    BY <1>a, <1>6 DEF Validate, Recheck, Gate, At
  <2>2. /\ UNCHANGED <<status, active, received>>
        /\ \A q \in Procs \ {p} : pc'[q] = pc[q] /\ frame'[q] = frame[q]
        /\ frame'[p].exec = frame[p].exec /\ pc'[p] # "resolve"
    BY <1>0, <1>6 DEF Validate, Recheck, Gate, Write, Goto, rowVars, TypeOK, Frames
  <2> QED BY <1>b, <2>1, <2>2, StayRemembers
<1>7. CASE Mark(p)
  <2>1. /\ status' = [status EXCEPT ![e] = "SUBMITTING"]
        /\ active' = [active EXCEPT ![e] = @ /\ "SUBMITTING" \notin TerminalStatuses]
        /\ pc' = [pc EXCEPT ![p] = "submit"] /\ UNCHANGED <<frame, received>>
        /\ pc[p] \in BeforeSubmit /\ e \in Executions
    BY <1>0, <1>a, <1>7 DEF Mark, At, UpdateExecution, Goto
  <2>2. active'[e] /\ \A f \in Executions \ {e} : active'[f] = active[f] /\ status'[f] = status[f]
    BY <1>0, <1>b, <2>1 DEF TypeOK, TerminalStatuses
  <2>3. \A q \in Procs \ {p} : ~Runs(q, e)
    BY <1>0, <1>a, <2>1 DEF OneRunner, Runs
  <2>4. Honest(p)'
    BY <1>0, <2>1, <2>2 DEF Honest, Exec, TypeOK
  <2>5. \A q \in Procs \ {p} : pc'[q] = pc[q] /\ frame'[q] = frame[q]
    BY <1>0, <2>1 DEF TypeOK
  <2> QED BY <1>b, <2>1, <2>2, <2>3, <2>4, <2>5, MemoryKept
<1>8. CASE Submit(p)
  <2>1. /\ pc[p] = "submit" /\ e \in Executions /\ pc' = [pc EXCEPT ![p] = "outcome"]
        /\ UNCHANGED <<status, active>>
    BY <1>0, <1>8 DEF Submit, At, Goto, rowVars
  <2>2. \A q \in Procs : frame'[q].exec = frame[q].exec /\ (q # p => frame'[q] = frame[q])
    BY <1>0, <1>8 DEF Submit, TypeOK, Frames
  <2>3. \A f \in Executions \ {e} : received'[f] = received[f]
    BY <1>0, <1>8 DEF Submit, TypeOK
  <2>4. status[e] = "SUBMITTING" /\ active[e]
    BY <1>0, <1>a, <2>1 DEF Knows, Honest
  <2>5. ASSUME NEW q \in Procs PROVE Honest(q)'
    <3>1. CASE q = p
      BY <1>0, <2>1, <2>2, <2>4, <3>1 DEF Honest, Exec, TypeOK
    <3>2. CASE q # p /\ pc[q] = "resolve"
      <4>1. Exec(q) \in Executions \ {e}
        BY <1>0, <2>1, <2>5, <3>2 DEF OneRunner, Runs, SubmissionInv, TypeInv, InCall
      <4> QED BY <1>0, <2>1, <2>2, <2>3, <2>5, <3>2, <4>1 DEF MemoryInv, Honest, Exec, TypeOK
    <3>3. CASE q # p /\ pc[q] # "resolve"
      BY <1>0, <2>1, <2>2, <2>5, <3>3 DEF MemoryInv, Honest, Exec, TypeOK
    <3> QED BY <3>1, <3>2, <3>3
  <2>6. ASSUME NEW f \in Executions PROVE Kept(f)'
    BY <2>1, <2>3, <2>4, <2>6 DEF MemoryInv, Kept, Remembered, InFlightStatuses
  <2> QED BY <2>5, <2>6 DEF MemoryInv
<1>9. CASE Outcome(p) \/ Confirm(p)
  <2>1. active[e] /\ pc[p] \in {"outcome", "confirm"}
    BY <1>0, <1>a, <1>9 DEF Outcome, Confirm, At, Honest
  <2>2. CASE Outcome(p)
    BY <1>0, <1>a, <2>1, <2>2, WriteRemembers
       DEF Outcome, At, Knows, ExecutionStatus, Remembered, InFlightStatuses, TerminalStatuses
  <2>3. CASE Confirm(p)
    BY <1>a, <2>1, <2>3, WriteRemembers DEF Confirm, At, ExecutionStatus, Remembered
  <2> QED BY <1>9, <2>2, <2>3
<1>10. CASE Finish(p) \/ FinishUntouched(p) \/ Mirror(p)
  <2>1. /\ UNCHANGED <<status, active, received>>
        /\ \A q \in Procs \ {p} : pc'[q] = pc[q] /\ frame'[q] = frame[q]
        /\ pc'[p] = "idle" \/ (pc' = pc /\ frame' = frame)
    BY <1>0, <1>10 DEF Finish, FinishUntouched, Mirror, Return, Goto, rowVars, TypeOK
  <2>2. Honest(p)'
    BY <1>0, <1>a, <2>1 DEF Honest, Exec
  <2> QED BY <2>1, <2>2, MemoryKept
<1> QED
  BY <1>1, <1>2, <1>3, <1>4, <1>5, <1>6, <1>7, <1>8, <1>9, <1>10 DEF Process

\* A request keeps what is remembered.
LEMMA ClickRemembers ==
  ASSUME SubmissionInv, MemoryInv, Exclusive, NEW c \in Clicks, Click(c)
  PROVE  MemoryInv'
<1> USE RunningSteps
<1>0. TypeInv /\ TypeOK /\ OneRunner /\ c \in Procs
  BY DEF SubmissionInv, TypeInv
<1>a. {"idle", "queueing", "record", "read"} \cap Opened = {}
  BY DEF Opened, BeforeSubmit
<1>1. ASSUME NEW step, NEW f, Goto(c, step), frame' = [frame EXCEPT ![c] = f]
      PROVE  \A q \in Procs \ {c} : pc'[q] = pc[q] /\ frame'[q] = frame[q]
  BY <1>0, <1>1 DEF Goto, TypeOK
<1>2. ASSUME NEW step \in {"idle", "queueing", "record", "read"}, NEW f, Goto(c, step),
             frame' = [frame EXCEPT ![c] = f], UNCHANGED <<status, active, received>>
      PROVE  MemoryInv'
  <2>1. pc'[c] \notin Opened
    BY <1>0, <1>a, <1>2 DEF Goto, TypeOK
  <2> QED BY <1>1, <1>2, <2>1, StayRemembers
<1>3. ASSUME NEW e, QueueThen(c, e)
      PROVE  \E step \in {"idle", "read"} :
               \E f : Goto(c, step) /\ frame' = [frame EXCEPT ![c] = f]
  BY <1>3 DEF QueueThen, Return
<1>4. ASSUME NEW j \in Jobs, QueueApplication(c, j) PROVE MemoryInv'
  BY <1>2, <1>4 DEF QueueApplication, rowVars
<1>5. CASE QueueExisting(c)
  BY <1>2, <1>3, <1>5 DEF QueueExisting, rowVars
<1>6. CASE QueueRefused(c) \/ QueueDuplicate(c)
  BY <1>2, <1>6 DEF QueueRefused, QueueDuplicate, Return, rowVars
<1>7. ASSUME NEW e \in Executions, NEW m \in Modes, QueueCreate(c, e, m) PROVE MemoryInv'
  <2>a. PICK step \in {"idle", "read"} :
          \E f : Goto(c, step) /\ frame' = [frame EXCEPT ![c] = f]
    BY <1>3, <1>7 DEF QueueCreate
  <2>1. PICK f : Goto(c, step) /\ frame' = [frame EXCEPT ![c] = f]
    BY <2>a
  <2>2. Honest(c)'
    BY <1>0, <1>a, <2>1 DEF Honest, Goto, TypeOK, Opened
  <2>3. received[e] = 0 /\ \A q \in Procs : ~Runs(q, e)
    BY <1>0, <1>7 DEF QueueCreate, TypeInv, Row, InCall, Runs
  <2>4. UNCHANGED received /\ ~(status'[e] \in Awaited)
    BY <1>0, <1>7 DEF QueueCreate, TypeOK, Awaited, InFlightStatuses
  <2>5. \A g \in Executions \ {e} : status'[g] = status[g] /\ active'[g] = active[g]
    BY <1>0, <1>7 DEF QueueCreate, TypeOK
  <2>6. \A q \in Procs \ {c} : pc'[q] = pc[q] /\ frame'[q] = frame[q]
    BY <1>1, <2>1
  <2> QED BY <1>0, <2>2, <2>3, <2>4, <2>5, <2>6, MemoryKept
<1>8. ASSUME NEW e \in Executions, Retry(c, e) PROVE MemoryInv'
  BY <1>2, <1>8 DEF Retry, rowVars
<1>9. ASSUME NEW e \in Executions, ClaimReadyExecution(c, e) PROVE MemoryInv'
  <2>1. received[e] = 0
    BY <1>0, <1>9 DEF ClaimReadyExecution, SubmissionInv, Remembers, InFlightStatuses, TypeOK
  <2>2. \A q \in Procs : ~Runs(q, e)
    BY <1>9 DEF ClaimReadyExecution, MayRun, Exclusive
  <2>3. /\ UNCHANGED <<received, active>> /\ ~(status'[e] \in Awaited)
        /\ \A g \in Executions \ {e} : status'[g] = status[g]
    BY <1>0, <1>9 DEF ClaimReadyExecution, TypeOK, Awaited, InFlightStatuses
  <2>4. Honest(c)'
    BY <1>0, <1>a, <1>9 DEF ClaimReadyExecution, Goto, Honest, TypeOK, Opened
  <2>5. \A q \in Procs \ {c} : pc'[q] = pc[q] /\ frame'[q] = frame[q]
    BY <1>1, <1>9 DEF ClaimReadyExecution
  <2> QED BY <1>0, <2>1, <2>2, <2>3, <2>4, <2>5, MemoryKept
<1>10. CASE RecordApproval(c)
  <2>1. /\ UNCHANGED <<status, active, received>> /\ pc'[c] \notin Opened
        /\ \A q \in Procs \ {c} : pc'[q] = pc[q] /\ frame'[q] = frame[q]
    BY <1>0, <1>a, <1>10 DEF RecordApproval, Goto, TypeOK
  <2> QED BY <1>0, <2>1, StayRemembers
<1>11. ASSUME NEW e \in Executions, NEW t, Reconcile(c, e, t) \/ Handoff(c, e, t) PROVE MemoryInv'
  <2>1. /\ UNCHANGED <<status, active, received>> /\ Goto(c, "resolve")
        /\ frame' = [frame EXCEPT ![c] = ExecFrame(e, FALSE, t)]
    BY <1>11 DEF Reconcile, Handoff, rowVars
  <2>2. active[e] /\ (t \notin Remembered => received[e] = 0)
    <3>1. CASE Reconcile(c, e, t)
      BY <1>11, <3>1 DEF Reconcile, MemoryInv, Kept, Awaited, Remembered
    <3>2. CASE Handoff(c, e, t)
      BY <1>0, <1>11, <3>2
         DEF Handoff, SubmissionInv, Remembers, InFlightStatuses, HandoffStatuses, TypeOK
    <3> QED BY <1>11, <3>1, <3>2
  <2>3. ExecFrame(e, FALSE, t).exec = e /\ ExecFrame(e, FALSE, t).target = t
    BY DEF ExecFrame
  <2>4. Honest(c)'
    BY <1>0, <2>1, <2>2, <2>3 DEF Honest, Exec, TypeOK
  <2> QED BY <1>0, <1>1, <2>1, <2>4, MemoryKept
<1>12. CASE Resolve(c)
  <2> DEFINE e == Exec(c)  t == frame[c].target
  <2>1. /\ pc[c] = "resolve" /\ e \in Executions
        /\ status' = [status EXCEPT ![e] = t]
        /\ active' = [active EXCEPT ![e] = @ /\ t \notin TerminalStatuses]
        /\ Goto(c, "idle") /\ frame' = [frame EXCEPT ![c] = NoFrame] /\ UNCHANGED received
    BY <1>0, <1>12 DEF Resolve, At, UpdateExecution, Return, TypeInv, InCall
  <2>2. active[e] /\ (t \notin Remembered => received[e] = 0)
    BY <1>0, <2>1 DEF MemoryInv, Honest, Opened
  <2>3. Awaited \cap TerminalStatuses = {}
    BY DEF Awaited, InFlightStatuses, TerminalStatuses
  <2>4. \A q \in Procs \ {c} : ~Runs(q, e)
    BY <1>0, <2>1 DEF OneRunner, Runs
  <2> HIDE DEF t
  <2>5. /\ status'[e] = t /\ (t \in Awaited => active'[e])
        /\ \A g \in Executions \ {e} : status'[g] = status[g] /\ active'[g] = active[g]
    BY <1>0, <2>1, <2>2, <2>3 DEF TypeOK
  <2>6. received[e] > 0 => t \in Remembered
    BY <2>2
  <2>7. Honest(c)'
    BY <1>0, <1>a, <2>1 DEF Honest, Goto, TypeOK, Opened
  <2>8. \A q \in Procs \ {c} : pc'[q] = pc[q] /\ frame'[q] = frame[q]
    BY <1>1, <2>1
  <2> QED BY <1>0, <2>1, <2>4, <2>5, <2>6, <2>7, <2>8, MemoryKept
<1> QED
  BY <1>4, <1>5, <1>6, <1>7, <1>8, <1>9, <1>10, <1>11, <1>12 DEF Click

\* Every step keeps what is remembered, while executions are run one process at a
\* time.
LEMMA NextRemembers ==
  ASSUME Exclusive, SubmissionInv, MemoryInv, [Next]_vars
  PROVE  MemoryInv'
<1> USE RunningSteps
<1>0. TypeInv /\ TypeOK
  BY DEF SubmissionInv, TypeInv
<1>1. ASSUME UNCHANGED <<status, active, received>>, UNCHANGED <<pc, frame>> PROVE MemoryInv'
  BY <1>1 DEF MemoryInv, Honest, Kept, Exec
<1>2. CASE UNCHANGED vars
  BY <1>1, <1>2 DEF vars, rowVars, procVars
<1>3. ASSUME NEW p \in Procs, Process(p) PROVE MemoryInv'
  BY <1>3, ProcessRemembers
<1>4. ASSUME NEW p \in Procs, Raise(p) \/ Crash(p) PROVE MemoryInv'
  <2>1. /\ UNCHANGED <<status, active, received>> /\ pc'[p] = "idle"
        /\ \A q \in Procs \ {p} : pc'[q] = pc[q] /\ frame'[q] = frame[q]
    BY <1>0, <1>4 DEF Raise, Crash, Return, Goto, rowVars, TypeOK
  <2> QED BY <2>1, StayRemembers DEF Opened, BeforeSubmit
<1>5. ASSUME NEW w \in Workers, Worker(w) PROVE MemoryInv'
  <2>1. /\ UNCHANGED <<status, active, received>> /\ pc'[w] \in {"idle", "claiming", "claimed", "read"}
        /\ \A q \in Procs \ {w} : pc'[q] = pc[q] /\ frame'[q] = frame[q]
    BY <1>0, <1>5 DEF Worker, Select, Claim, CooldownSkip, Begin, Return, Goto, rowVars, TypeOK
  <2> QED BY <2>1, StayRemembers DEF Opened, BeforeSubmit
<1>6. ASSUME NEW c \in Clicks, Click(c) PROVE MemoryInv'
  BY <1>6, ClickRemembers
<1>7. CASE Environment
  BY <1>1, <1>7 DEF Environment, UpdateState, Regenerate, RefreshSponsorship, LeaseExpires,
                    rowVars, procVars
<1> QED BY <1>2, <1>3, <1>4, <1>5, <1>6, <1>7 DEF Next

\* The invariant holds throughout.
LEMMA MemoryHolds ==
  ASSUME Exclusive
  PROVE  Spec => [](SubmissionInv /\ MemoryInv)
<1>1. Init => SubmissionInv /\ MemoryInv
  BY InitKeeps DEF Init, MemoryInv, Honest, Kept, Opened, BeforeSubmit, Awaited, InFlightStatuses,
                   NoStatus
<1>2. SubmissionInv /\ [Next]_vars => SubmissionInv'
  BY NextKeeps
<1>3. SubmissionInv /\ MemoryInv /\ [Next]_vars => MemoryInv'
  BY NextRemembers
<1> QED BY <1>1, <1>2, <1>3, PTL DEF Spec

\* An application the provider got is never recorded as not made, as long as a lease
\* outlives the work under it and no request runs beside another process
\* (reconcile.py, handoff.py and the resume guard of executor.py:283).
THEOREM ApplicationsAreRemembered ==
  ASSUME Exclusive
  PROVE  Spec => []ApplicationsRemembered
<1>1. MemoryInv => ApplicationsRemembered
  BY DEF MemoryInv, Kept, Remembered, ApplicationsRemembered
<1> QED BY <1>1, MemoryHolds, PTL

\* Under the same conditions a job whose application the provider has gets a further
\* execution only while its row does not show the first one's outcome
\* (executor.py:61-97 against repo.py:94-99).
THEOREM AppliedJobsRefused ==
  ASSUME Exclusive
  PROVE  Spec => AppliedJobsAreRefused
<1> USE RunningSteps
<1> DEFINE Refused == \A e, f \in Executions :
             LET j == jobOf'[f] IN
             status[f] = NoStatus /\ status'[f] # NoStatus /\ jobOf[e] = j /\ received[e] > 0 =>
               jobState[j] # MirrorOf(status[e]) \/ ~EntersQueue(Eligibility(j))
<1>1. ASSUME SubmissionInv, MemoryInv, [Next]_vars PROVE Refused
  <2>0. TypeInv /\ TypeOK
    BY <1>1 DEF SubmissionInv, TypeInv
  <2>1. ASSUME \A f \in Executions : status[f] = NoStatus => status'[f] = NoStatus PROVE Refused
    BY <2>1
  <2>2. ASSUME NEW p \in Procs, pc[p] \in Running,
               \A f \in Executions \ {Exec(p)} : status'[f] = status[f]
        PROVE  Refused
    BY <2>0, <2>1, <2>2 DEF TypeInv, InCall
  <2>3. ASSUME UNCHANGED status PROVE Refused
    BY <2>1, <2>3
  <2>4. ASSUME NEW p \in Procs, Process(p) PROVE Refused
    <3>1. CASE UNCHANGED status
      BY <2>3, <3>1
    <3>2. CASE ~UNCHANGED status
      <4>1. pc[p] \in Running /\ \A f \in Executions \ {Exec(p)} : status'[f] = status[f]
        BY <2>0, <2>4, <3>2
           DEF Process, LeaveAlone, ResumeGuard, ReadExecution, Start, Discover, Fill, Validate,
               Recheck, Gate, Mark, Submit, Outcome, Confirm, Finish, FinishUntouched, Mirror,
               At, Write, UpdateExecution, rowVars, TypeOK
      <4> QED BY <2>2, <4>1
    <3> QED BY <3>1, <3>2
  <2>5. ASSUME NEW c \in Clicks, NEW e \in Executions, NEW m \in Modes, QueueCreate(c, e, m)
        PROVE  Refused
    <3>1. /\ ActiveFor(jobOf'[e]) = {} /\ \A f \in Executions \ {e} : status'[f] = status[f]
      BY <2>0, <2>5 DEF QueueCreate, TypeOK
    <3>2. ASSUME NEW f \in Executions, jobOf[f] = jobOf'[e], received[f] > 0,
                 jobState[jobOf[f]] = MirrorOf(status[f])
          PROVE  ~EntersQueue(Eligibility(jobOf[f]))
      <4>1. ~active[f]
        BY <3>1, <3>2 DEF ActiveFor
      <4>2. status[f] = "APPLIED"
        BY <1>1, <3>2, <4>1 DEF MemoryInv, Kept, Remembered, Awaited
      <4>3. jobState[jobOf[f]] = "APPLIED"
        BY <3>2, <4>2 DEF MirrorOf, InFlightStatuses
      <4> QED BY <4>3 DEF Eligibility, EntersQueue, TerminalSkipStates
    <3> QED BY <3>1, <3>2
  <2>6. ASSUME NEW c \in Clicks, Click(c), \A e \in Executions, m \in Modes : ~QueueCreate(c, e, m)
        PROVE  Refused
    <3>1. CASE Resolve(c)
      <4>1. pc[c] \in Running /\ \A f \in Executions \ {Exec(c)} : status'[f] = status[f]
        BY <2>0, <3>1 DEF Resolve, At, UpdateExecution, TypeOK
      <4> QED BY <2>2, <4>1
    <3>2. ASSUME NEW e \in Executions, ClaimReadyExecution(c, e) PROVE Refused
      <4>1. \A f \in Executions : status[f] = NoStatus => status'[f] = NoStatus
        BY <2>0, <3>2 DEF ClaimReadyExecution, TypeOK, NoStatus
      <4> QED BY <2>1, <4>1
    <3>3. ASSUME ~Resolve(c), \A e \in Executions : ~ClaimReadyExecution(c, e) PROVE UNCHANGED status
      BY <2>6, <3>3 DEF Click, QueueApplication, QueueExisting, QueueRefused, QueueDuplicate,
                        Retry, RecordApproval, Reconcile, Handoff, rowVars
    <3> QED BY <2>3, <3>1, <3>2, <3>3
  <2>7. ASSUME NEW p \in Procs, Raise(p) \/ Crash(p) PROVE UNCHANGED status
    BY <2>7 DEF Raise, Crash, rowVars
  <2>8. ASSUME NEW w \in Workers, Worker(w) PROVE UNCHANGED status
    BY <2>8 DEF Worker, Select, Claim, CooldownSkip, Begin, rowVars
  <2>9. ASSUME Environment \/ UNCHANGED vars PROVE UNCHANGED status
    BY <2>9 DEF Environment, UpdateState, Regenerate, RefreshSponsorship, LeaseExpires, rowVars, vars
  <2> QED BY <1>1, <2>3, <2>4, <2>5, <2>6, <2>7, <2>8, <2>9 DEF Next
<1>2. SubmissionInv /\ MemoryInv /\ [Next]_vars => [Refused]_vars
  BY <1>1
<1> HIDE DEF Refused
<1>3. Spec => [][Refused]_vars
  BY <1>2, MemoryHolds, PTL DEF Spec
<1> QED BY <1>3 DEF Refused, AppliedJobsAreRefused

=============================================================================

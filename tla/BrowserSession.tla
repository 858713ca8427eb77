--------------------------- MODULE BrowserSession ---------------------------
(***************************************************************************)
(* Browser-assist sessions of one execution: the rows of                   *)
(* browser_assist_sessions (applications/browser_session.py), the calls    *)
(* that drive a real browser for them (applications/browser_assist.py),    *)
(* the registry of live windows each process keeps (browser_runtime.py)    *)
(* and the blocker that every status write keeps in step (blockers.py).    *)
(*                                                                         *)
(* A call is a request, or a pass of the background scheduler, in one      *)
(* process.  Each step is one database transaction or one use of the       *)
(* browser; a process may die between any two.  What a page holds is an    *)
(* input: a discovery pass finds a reason to pause, a form, or a form with *)
(* its submit button.  The candidate works in the visible window.          *)
(***************************************************************************)
EXTENDS Naturals, FiniteSets

CONSTANTS
  Procs,         \* processes of the application
  Calls,         \* concurrent calls
  Home,          \* the process each call runs in
  Passes,        \* the calls that may be passes of the background scheduler
  Sessions,      \* session ids of the execution's job
  Concurrency,   \* BROWSER_ASSIST_CONCURRENCY, per process
  MaxCalls,      \* bound on the calls the candidate begins
  MaxCrashes,    \* bound on crashes
  LeaseMayLapse, \* may a lease expire under a call that still runs?
  None           \* no session, no process, no row

ASSUME SessionAssumption ==
  /\ Home \in [Calls -> Procs] /\ Passes \subseteq Calls
  /\ Concurrency \in Nat \ {0}
  /\ MaxCalls \in Nat /\ MaxCrashes \in Nat
  /\ LeaseMayLapse \in BOOLEAN
  /\ None \notin Procs \cup Sessions

VARIABLES
  status,      \* row: BrowserSessionStatus, None before the row exists
  active,      \* row: active = 1
  lessee,      \* row: lease_owner of a lease that has not expired, else None
  idle,        \* row: active, and last_activity_at is older than
               \* BROWSER_SESSION_TIMEOUT_MINUTES
  execution,   \* ExecutionStatus of the execution; active while APPROVED
  blocker,     \* the unresolved blocker of the execution, None if there is none
  window,      \* what the window of a session shows in each process
  pc, op, at,  \* per call: where it is, what it does, its session
  stage,       \* per call: how far it is with the blocker of a status it wrote
  seen,        \* per call: the status the row showed when it was read again
  submitted,   \* history: sessions in whose window the form was submitted
  crossed,     \* history: since the last status that one call alone wrote to an
               \* active session, another was written while a call still saw to its
               \* blocker, or to a session that had ended, or the blocker was given up
  begun,       \* calls the candidate began
  crashes      \* crashes, and blockers given up

rows  == <<status, active, lessee, idle>>
call  == <<pc, op, at>>
sync  == <<blocker, stage, seen>>
ghost == <<submitted, crossed, crashes>>
vars  == <<rows, execution, sync, window, call, begun, ghost>>

\* BrowserSessionStatus.  PAUSED stands for the PAUSED_* family; DISCOVERING,
\* AWAITING_USER_SUBMIT and CRASHED_RECOVERABLE are written by no code path.
Terminal == {"CONFIRMED", "CLOSED", "EXPIRED"}
BrowserSessionStatus ==
  Terminal \cup {"STARTING", "ACTIVE", "PAUSED", "READY_FOR_FINAL_SUBMIT",
                 "SUBMISSION_STATUS_UNKNOWN", "DUPLICATE_APPLICATION_DETECTED"}

ASSUME NoneAssumption ==
  None \notin Procs \cup Sessions \cup BrowserSessionStatus \cup
             {"form", "sent", "NEEDS_YOU", "APPLICATION_ERROR"}

\* A call whose status write is done and whose blocker is not, and the steps at
\* which a call drives the browser: all but "answer" under a lease it claimed.
Syncing == {"syncRelease", "syncDrop", "syncReturn"}
Driving == {"answer", "look", "open", "reopen", "apply", "judge", "applied", "confirm", "syncRelease",
            "syncDrop", "drop", "release"}
Steps == Driving \cup {"idle", "create", "again", "claim", "close", "expire", "syncReturn"}
Operations == {"start", "resume", "advance", "reconcile", "evidence", "answer", "close", "expire"}

Exists(s) == status[s] # None
Live(c, s) == window[Home[c]][s] # None
Drives(c, s) == pc[c] \in Driving /\ at[c] = s /\ op[c] \notin {"close", "expire"}

Goto(c, step) == pc' = [pc EXCEPT ![c] = step]
Set(c, step, o, s) ==
  /\ Goto(c, step)
  /\ op' = [op EXCEPT ![c] = o]
  /\ at' = [at EXCEPT ![c] = s]
Return(c) == Set(c, "idle", None, None)
Show(p, s, page) == window' = [window EXCEPT ![p][s] = page]

-----------------------------------------------------------------------------
(* browser_session.py: the row. *)

\* update_session(status), its UPDATE: nothing is asked of the status it replaces,
\* and active is only ever taken away.
WriteStatus(c, st) ==
  LET s == at[c] IN
  /\ status' = [status EXCEPT ![s] = st]
  /\ active' = [active EXCEPT ![s] = active[s] /\ st \notin Terminal]
  /\ crossed' = (\/ \E d \in Calls \ {c} : pc[d] \in Syncing
                 \/ ~active[s] /\ (crossed \/ st \notin {"CLOSED", "EXPIRED"}))
  /\ idle' = [idle EXCEPT ![s] = idle[s] /\ st \notin Terminal]
  /\ UNCHANGED <<lessee, submitted, crashes>>

\* touch_activity()
Touch(s) == idle' = [idle EXCEPT ![s] = FALSE] /\ UNCHANGED <<status, active, lessee>>

\* MUTANT: whoever comes takes the lease.
MayClaimAny(c, s) == active[s]

\* claim_session(): unleased, expired, or this process's already.
MayClaim(c, s) == active[s] /\ lessee[s] \in {None, Home[c]}

\* BROWSER_STATUS_MAP: the blocker that a status calls for, if any.
BlockerOf(st) ==
  CASE st = "PAUSED" -> "NEEDS_YOU"
    [] st = "DUPLICATE_APPLICATION_DETECTED" -> "APPLICATION_ERROR"
    [] st = "SUBMISSION_STATUS_UNKNOWN" -> "SUBMISSION_STATUS_UNKNOWN"
    [] OTHER -> None

\* _BROWSER_UNBLOCKED_STATUSES: CLOSED and EXPIRED solve nothing.
Unblocked == {"STARTING", "ACTIVE", "READY_FOR_FINAL_SUBMIT", "CONFIRMED"}

-----------------------------------------------------------------------------
(* _sync_blocker(): after the UPDATE of update_session(), four transactions. *)

\* The call goes on with what it was about.
Synced(c) ==
  /\ stage' = [stage EXCEPT ![c] = "row"]
  /\ seen' = [seen EXCEPT ![c] = None]
  /\ \/ pc[c] = "syncRelease" /\ Set(c, "release", op[c], at[c])
     \/ pc[c] = "syncDrop" /\ Set(c, "drop", op[c], at[c])
     \/ pc[c] = "syncReturn" /\ Return(c)

\* get_session(): the row, as it is by now; what is done about the blocker
\* follows from the status it shows.
ReadRow(c) ==
  LET st == status[at[c]] IN
  /\ pc[c] \in Syncing /\ stage[c] = "row"
  /\ IF BlockerOf(st) # None \/ st \in Unblocked
     THEN /\ stage' = [stage EXCEPT ![c] = "blocker"]
          /\ seen' = [seen EXCEPT ![c] = st]
          /\ UNCHANGED call
     ELSE Synced(c)
  /\ UNCHANGED <<rows, execution, blocker, window, ghost>>

\* get_active_blocker_for_execution(): nothing to do about a blocker of the same
\* code, nor about no blocker.
ReadBlocker(c) ==
  LET code == BlockerOf(seen[c]) IN
  /\ pc[c] \in Syncing /\ stage[c] = "blocker"
  /\ IF blocker = code
     THEN Synced(c)
     ELSE /\ stage' = [stage EXCEPT ![c] = IF code # None THEN "raise" ELSE "resolve"]
          /\ UNCHANGED <<seen, call>>
  /\ UNCHANGED <<rows, execution, blocker, window, ghost>>

\* MUTANT: a blocker of another code is not superseded.
BlockerKept(c) ==
  IF blocker # None /\ BlockerOf(seen[c]) # None THEN blocker ELSE BlockerOf(seen[c])

\* raise_blocker() supersedes whatever is unresolved; resolve_blocker() resolves
\* the row it read.
NewBlocker(c) == BlockerOf(seen[c])

\* The write; a resolution that was under way finds its row resolved already.
WriteBlocker(c) ==
  /\ pc[c] \in Syncing /\ stage[c] \in {"raise", "resolve"}
  /\ blocker' = NewBlocker(c)
  /\ stage' = [d \in Calls |-> IF d = c THEN "row"
                              ELSE IF stage[d] = "resolve" THEN "late" ELSE stage[d]]
  /\ seen' = [seen EXCEPT ![c] = None]
  /\ \/ pc[c] = "syncRelease" /\ Set(c, "release", op[c], at[c])
     \/ pc[c] = "syncDrop" /\ Set(c, "drop", op[c], at[c])
     \/ pc[c] = "syncReturn" /\ Return(c)
  /\ UNCHANGED <<rows, execution, window, ghost>>

\* resolve_blocker(): rowcount 0.
ResolveLate(c) ==
  /\ pc[c] \in Syncing /\ stage[c] = "late"
  /\ Synced(c)
  /\ UNCHANGED <<rows, execution, blocker, window, ghost>>

\* Any exception on the way is swallowed, and the blocker stays as it is.
GiveUpBlocker(c) ==
  /\ pc[c] \in Syncing
  /\ crashes < MaxCrashes /\ crashes' = crashes + 1
  /\ crossed' = TRUE
  /\ Synced(c)
  /\ UNCHANGED <<rows, execution, blocker, window, submitted>>

SyncBlocker(c) ==
  ReadRow(c) \/ ReadBlocker(c) \/ WriteBlocker(c) \/ ResolveLate(c)

-----------------------------------------------------------------------------
(* The beginning of a call. *)

\* start_session(): a job with an active execution, and eligible; an active
\* session of the job is resumed, otherwise one is created.
Start(c) ==
  /\ pc[c] = "idle" /\ execution = "APPROVED"
  /\ \/ \E s \in Sessions : active[s] /\ Set(c, "claim", "resume", s)
     \/ (\A s \in Sessions : ~active[s]) /\ Set(c, "create", "start", None)
  /\ UNCHANGED <<rows, execution, sync, window, ghost>>

\* create_session(): the partial unique index admits one active row for a job.
Create(c) ==
  /\ pc[c] = "create"
  /\ \/ /\ \A s \in Sessions : ~active[s]
        /\ \E s \in Sessions : ~Exists(s)
        /\ LET s == CHOOSE r \in Sessions : ~Exists(r) IN    \* a new id: any will do
             /\ status' = [status EXCEPT ![s] = "STARTING"]
             /\ active' = [active EXCEPT ![s] = TRUE]
             /\ Set(c, "claim", "start", s)
     \/ /\ \E s \in Sessions : active[s]
        /\ Set(c, "again", "start", None)
        /\ UNCHANGED <<status, active>>
     \/ /\ \A s \in Sessions : ~active[s] /\ Exists(s)      \* the bound on sessions
        /\ Return(c)
        /\ UNCHANGED <<status, active>>
  /\ UNCHANGED <<lessee, idle, execution, sync, window, ghost>>

\* DuplicateSessionError: look for the session that was in the way.
Again(c) ==
  /\ pc[c] = "again"
  /\ \/ \E s \in Sessions : active[s] /\ Set(c, "claim", "resume", s)
     \/ (\A s \in Sessions : ~active[s]) /\ Return(c)
  /\ UNCHANGED <<rows, execution, sync, window, ghost>>

\* resume_session(), and mark_user_action_complete() from a paused session.
Resume(c, s) ==
  /\ pc[c] = "idle" /\ Exists(s) /\ status[s] \notin Terminal
  /\ Set(c, "claim", "resume", s)
  /\ UNCHANGED <<rows, execution, sync, window, ghost>>

\* advance_step(): only where the window is.
AdvanceStep(c, s) ==
  /\ pc[c] = "idle" /\ Live(c, s)
  /\ Set(c, "claim", "advance", s)
  /\ UNCHANGED <<rows, execution, sync, window, ghost>>

\* attempt_user_submit_reconciliation(), and the same from independent evidence.
Reconcile(c, s) ==
  /\ pc[c] = "idle" /\ Exists(s) /\ status[s] # "CONFIRMED"
  /\ \E o \in {"reconcile", "evidence"} : Set(c, "claim", o, s)
  /\ UNCHANGED <<rows, execution, sync, window, ghost>>

\* record_verified_custom_answer(): fills a field of the live page, with no claim
\* and no word to the row.  No code of the repository calls it.
Answer(c, s) ==
  /\ pc[c] = "idle" /\ Live(c, s)
  /\ Set(c, "answer", "answer", s)
  /\ UNCHANGED <<rows, execution, sync, window, ghost>>

Answered(c) ==
  /\ pc[c] = "answer"
  /\ Return(c)
  /\ UNCHANGED <<rows, execution, sync, window, ghost>>

\* close_session(): the window of this process goes first; no claim.
Close(c, s) ==
  /\ pc[c] = "idle" /\ Exists(s)
  /\ Show(Home[c], s, None)
  /\ Set(c, "close", "close", s)
  /\ UNCHANGED <<rows, execution, sync, ghost>>

\* MUTANT: a session that waits for the candidate is not stale.
StaleUnlessPaused(s) == active[s] /\ idle[s] /\ status[s] # "PAUSED"

Stale(s) == active[s] /\ idle[s]

\* expire_stale_sessions(): the SELECT.
FindStale(c, s) ==
  /\ pc[c] = "idle" /\ Stale(s)
  /\ Set(c, "expire", "expire", s)
  /\ UNCHANGED <<rows, execution, sync, window, ghost>>

-----------------------------------------------------------------------------
(* The body of a call that drives the browser. *)

\* _claim_or_conflict(): what follows depends on the operation.
Claim(c) ==
  LET s == at[c]
      then == CASE op[c] = "start" -> "open"
                [] op[c] = "resume" -> "look"
                [] op[c] = "advance" -> "apply"
                [] OTHER -> "judge"
  IN
  /\ pc[c] = "claim"
  /\ IF MayClaim(c, s)
     THEN /\ lessee' = [lessee EXCEPT ![s] = Home[c]]
          /\ Set(c, then, op[c], s)
     ELSE Return(c) /\ UNCHANGED lessee
  /\ UNCHANGED <<status, active, idle, execution, sync, window, ghost>>

\* resume_session(): the window is still there, or a fresh one is needed.
Look(c) ==
  LET s == at[c] IN
  /\ pc[c] = "look"
  /\ \/ Live(c, s) /\ Touch(s) /\ UNCHANGED ghost /\ Goto(c, "apply")
     \/ /\ ~Live(c, s)
        /\ IF status[s] = "AWAITING_USER_SUBMIT"           \* which nothing writes
           THEN WriteStatus(c, "SUBMISSION_STATUS_UNKNOWN") /\ Goto(c, "syncRelease")
           ELSE Goto(c, "reopen") /\ UNCHANGED <<rows, ghost>>
  /\ UNCHANGED <<execution, sync, window, op, at>>

\* browser_runtime.open_session(): a slot of the process, and a page that loads.
\* Busy or unavailable, start_session() closes what it created; a page that
\* raises is discarded and leaves the row as it is.
Open(c) ==
  LET s == at[c]
      p == Home[c]
      full == Cardinality({r \in Sessions : window[p][r] # None}) >= Concurrency
  IN
  /\ pc[c] \in {"open", "reopen"}
  /\ \/ ~full /\ Show(p, s, "form") /\ Goto(c, "apply") /\ UNCHANGED <<rows, ghost>>
     \/ /\ pc[c] = "open"
        /\ WriteStatus(c, "CLOSED") /\ Goto(c, "syncRelease") /\ UNCHANGED window
     \/ /\ full => pc[c] = "reopen"
        /\ Goto(c, "release") /\ UNCHANGED <<rows, window, ghost>>
  /\ UNCHANGED <<execution, sync, op, at>>

\* _apply_discovery_outcome(): one discovery pass becomes a status.  A page that
\* shows the confirmation has no form and no submit button.
Apply(c) ==
  LET s == at[c] IN
  /\ pc[c] = "apply"
  /\ \/ /\ Live(c, s)
        /\ \E st \in {"PAUSED", "ACTIVE", "READY_FOR_FINAL_SUBMIT"} :
             /\ window[Home[c]][s] = "sent" => st # "READY_FOR_FINAL_SUBMIT"
             /\ WriteStatus(c, st)
        /\ Goto(c, "syncRelease")
     \/ Goto(c, "release") /\ UNCHANGED <<rows, ghost>>   \* the window is gone, the page
  /\ UNCHANGED <<execution, sync, window, op, at>>     \* raises, or has no next step

\* What the page, or the evidence handed in, says of the submission.
Judge(c) ==
  LET s == at[c]
      gone == op[c] = "reconcile" /\ ~Live(c, s)
      shown == IF op[c] = "reconcile" THEN window[Home[c]][s] = "sent" ELSE submitted # {}
  IN
  /\ pc[c] = "judge"
  /\ \/ gone /\ WriteStatus(c, "SUBMISSION_STATUS_UNKNOWN") /\ Goto(c, "syncRelease")
     \/ ~gone /\ WriteStatus(c, "DUPLICATE_APPLICATION_DETECTED") /\ Goto(c, "syncRelease")
     \/ /\ ~gone /\ Goto(c, "release") /\ UNCHANGED ghost      \* no evidence yet
        /\ IF op[c] = "reconcile" THEN Touch(s) ELSE UNCHANGED rows
     \/ ~gone /\ shown /\ Goto(c, "applied") /\ UNCHANGED <<rows, ghost>>
  /\ UNCHANGED <<execution, sync, window, op, at>>

\* MUTANT: the execution is left alone unless the session waited for a submission.
MarkAppliedIfReady(c) ==
  /\ pc[c] = "applied"
  /\ execution' = IF execution = "APPROVED" /\ status[at[c]] = "READY_FOR_FINAL_SUBMIT"
                  THEN "APPLIED" ELSE execution
  /\ Goto(c, "confirm")
  /\ UNCHANGED <<rows, sync, window, op, at, ghost>>

\* The execution, if it is still active, becomes APPLIED first (a withdrawal
\* between its read and its write is overwritten: the row ends either way) ...
MarkApplied(c) ==
  /\ pc[c] = "applied"
  /\ execution' = IF execution = "APPROVED" THEN "APPLIED" ELSE execution
  /\ Goto(c, "confirm")
  /\ UNCHANGED <<rows, sync, window, op, at, ghost>>

\* ... then the session CONFIRMED.
Confirm(c) ==
  /\ pc[c] = "confirm"
  /\ WriteStatus(c, "CONFIRMED")
  /\ Goto(c, IF op[c] = "reconcile" THEN "syncDrop" ELSE "syncRelease")
  /\ UNCHANGED <<execution, sync, window, op, at>>

\* browser_runtime.close_session(), after the confirmation or the expiry.
Drop(c) ==
  /\ pc[c] = "drop"
  /\ Show(Home[c], at[c], None)
  /\ IF op[c] = "expire" THEN Return(c) ELSE Set(c, "release", op[c], at[c])
  /\ UNCHANGED <<rows, execution, sync, ghost>>

\* release_session_lease(): it does not look at the owner.
Release(c) ==
  LET s == at[c] IN
  /\ pc[c] = "release"
  /\ lessee' = [lessee EXCEPT ![s] = None]
  /\ Return(c)
  /\ UNCHANGED <<status, active, idle, execution, sync, window, ghost>>

\* close_session() and expire_stale_sessions(): the UPDATE, whatever the row says now.
WriteEnd(c) ==
  /\ pc[c] \in {"close", "expire"}
  /\ WriteStatus(c, IF pc[c] = "close" THEN "CLOSED" ELSE "EXPIRED")
  /\ Goto(c, IF pc[c] = "close" THEN "syncReturn" ELSE "syncDrop")
  /\ UNCHANGED <<execution, sync, window, op, at>>

Body(c) ==
  \/ Create(c) \/ Again(c) \/ Claim(c) \/ Look(c) \/ Open(c) \/ Apply(c) \/ Answered(c)
  \/ SyncBlocker(c) \/ Judge(c) \/ MarkApplied(c) \/ Confirm(c) \/ Drop(c)
  \/ Release(c) \/ WriteEnd(c)
Begin(c) ==
  /\ begun < MaxCalls /\ begun' = begun + 1
  /\ \/ Start(c)
     \/ \E s \in Sessions : 
       Resume(c, s) \/ AdvanceStep(c, s) \/ Reconcile(c, s) \/ Answer(c, s) \/ Close(c, s)

-----------------------------------------------------------------------------
(* The candidate, the clock and the death of a process. *)

\* The candidate clicks the submit button in a window that shows a filled form.
Submit(p, s) ==
  /\ window[p][s] = "form" /\ status[s] = "READY_FOR_FINAL_SUBMIT"
  /\ Show(p, s, "sent")
  /\ submitted' = submitted \cup {s}
  /\ UNCHANGED <<rows, execution, sync, call, crossed, crashes>>

\* Another part of the program ends the execution: withdrawn, or reconciled.
EndExecution ==
  /\ execution = "APPROVED"
  /\ execution' = "WITHDRAWN"
  /\ UNCHANGED <<rows, sync, window, call, ghost>>

GrowIdle(s) ==
  /\ active[s] /\ ~idle[s]
  /\ idle' = [idle EXCEPT ![s] = TRUE]
  /\ UNCHANGED <<status, active, lessee, execution, sync, window, call, ghost>>

LeaseLapses(s) ==
  /\ lessee[s] # None
  /\ LeaseMayLapse \/ \A c \in Calls : ~Drives(c, s) \/ Home[c] # lessee[s]
  /\ lessee' = [lessee EXCEPT ![s] = None]
  /\ UNCHANGED <<status, active, idle, execution, sync, window, call, ghost>>

\* A process dies with its windows and its calls.
Crash(p) ==
  LET mine == {c \in Calls : Home[c] = p} IN
  /\ crashes < MaxCrashes
  /\ crashes' = crashes + 1
  /\ window' = [window EXCEPT ![p] = [s \in Sessions |-> None]]
  /\ pc' = [c \in Calls |-> IF c \in mine THEN "idle" ELSE pc[c]]
  /\ op' = [c \in Calls |-> IF c \in mine THEN None ELSE op[c]]
  /\ at' = [c \in Calls |-> IF c \in mine THEN None ELSE at[c]]
  /\ stage' = [c \in Calls |-> IF c \in mine THEN "row" ELSE stage[c]]
  /\ seen' = [c \in Calls |-> IF c \in mine THEN None ELSE seen[c]]
  /\ crossed' = (crossed \/ \E c \in mine : pc[c] \in Syncing)
  /\ UNCHANGED <<rows, execution, blocker, submitted>>

Environment ==
  \/ EndExecution
  \/ \E c \in Calls : GiveUpBlocker(c)
  \/ \E p \in Procs : Crash(p) \/ \E s \in Sessions : Submit(p, s)
  \/ \E s \in Sessions : GrowIdle(s)

-----------------------------------------------------------------------------
Init ==
  /\ status = [s \in Sessions |-> None] /\ active = [s \in Sessions |-> FALSE]
  /\ lessee = [s \in Sessions |-> None] /\ idle = [s \in Sessions |-> FALSE]
  /\ execution = "APPROVED" /\ blocker = None
  /\ window = [p \in Procs |-> [s \in Sessions |-> None]]
  /\ pc = [c \in Calls |-> "idle"] /\ op = [c \in Calls |-> None]
  /\ at = [c \in Calls |-> None]
  /\ stage = [c \in Calls |-> "row"] /\ seen = [c \in Calls |-> None]
  /\ submitted = {} /\ crossed = FALSE /\ begun = 0 /\ crashes = 0

Step(c) == Body(c) /\ UNCHANGED begun
Reap(s) == (\E c \in Passes : FindStale(c, s)) /\ UNCHANGED begun
Lapse(s) == LeaseLapses(s) /\ UNCHANGED begun

Next ==
  \/ \E c \in Calls : Begin(c) \/ Step(c)
  \/ \E s \in Sessions : Reap(s) \/ Lapse(s)
  \/ Environment /\ UNCHANGED begun

\* A call that began goes on, leases run out, and the background scheduler reaps
\* stale sessions again and again; nothing makes the candidate act.
Fairness ==
  /\ \A c \in Calls : WF_vars(Step(c))
  /\ \A s \in Sessions : WF_vars(Lapse(s)) /\ SF_vars(Reap(s))

Spec == Init /\ [][Next]_vars /\ Fairness

TypeOK ==
  /\ status \in [Sessions -> BrowserSessionStatus \cup {None}]
  /\ active \in [Sessions -> BOOLEAN]
  /\ idle \in [Sessions -> BOOLEAN] /\ lessee \in [Sessions -> Procs \cup {None}]
  /\ execution \in {"APPROVED", "APPLIED", "WITHDRAWN"}
  /\ blocker \in {None, "NEEDS_YOU", "APPLICATION_ERROR", "SUBMISSION_STATUS_UNKNOWN"}
  /\ window \in [Procs -> [Sessions -> {None, "form", "sent"}]]
  /\ pc \in [Calls -> Steps] /\ op \in [Calls -> Operations \cup {None}]
  /\ at \in [Calls -> Sessions \cup {None}]
  /\ stage \in [Calls -> {"row", "blocker", "raise", "resolve", "late"}]
  /\ seen \in [Calls -> BrowserSessionStatus \cup {None}]
  /\ submitted \subseteq Sessions /\ crossed \in BOOLEAN
  /\ begun \in 0..MaxCalls /\ crashes \in 0..MaxCrashes

\* A session is CONFIRMED only after its execution has ended, whatever died in
\* between, and an application nobody sent is never recorded as made
\* (doctor.py: browser_confirmation_without_applied_execution).
ConfirmedIsBacked ==
  /\ (\E s \in Sessions : status[s] = "CONFIRMED") => execution # "APPROVED"
  /\ execution = "APPLIED" => submitted # {}

\* Two callers for one session never both drive the browser, of the functions
\* that claim it (docs/browser-assist-sessions.md:109-112).
OneDriver ==
  \A c, d \in Calls : \A s \in Sessions :
    Drives(c, s) /\ Drives(d, s) /\ "answer" \notin {op[c], op[d]} => c = d

\* The blocker that the status of a session calls for, or none where it calls for none.
BlockerMatches(s) ==
  /\ BlockerOf(status[s]) # None => blocker = BlockerOf(status[s])
  /\ status[s] \in {"ACTIVE", "READY_FOR_FINAL_SUBMIT"} => blocker = None

Settled == \A c \in Calls : pc[c] \notin Syncing

\* While the execution is active, an active session that waits for the candidate
\* has its blocker and one that does not wait has none, once the writes have
\* settled: whatever statuses, blockers and calls there were before, each status
\* that one call alone writes and sees to puts the blocker right again.  It may
\* be wrong from the moment two of them cross until the next that does not
\* (update_session(), _sync_blocker()).
BlockerFollowsSession ==
  \A s \in Sessions :
    active[s] /\ execution = "APPROVED" /\ ~crossed /\ Settled => BlockerMatches(s)

\* The blocker stays in sync with the status, whichever calls cross, as the
\* docstring of _sync_blocker() has it.
BlockerInStep ==
  \A s \in Sessions :
    active[s] /\ execution = "APPROVED" /\ crashes = 0 /\ Settled => BlockerMatches(s)

\* A session nobody is active in does not block its job for ever
\* (expire_stale_sessions(), run by the background scheduler).
AbandonedSessionsEnd == \A s \in Sessions : (active[s] /\ idle[s]) ~> ~(active[s] /\ idle[s])

\* A form that was submitted is never opened and filled afresh for the same
\* session: the outcome of a lost window is not guessed
\* (docs/browser-assist-sessions.md:54).
NeverGuessed ==
  [][\A p \in Procs : \A s \in submitted :
       window'[p][s] = "form" => window[p][s] = "form"]_vars

\* An ended session stays ended: a call that was under way when it was closed or
\* expired writes no other status to it (docs/browser-assist-sessions.md:33).
EndedStaysEnded ==
  [][\A s \in Sessions : status[s] \in Terminal => status'[s] \in Terminal]_vars

\* The window of an ended session is closed sooner or later, and its slot freed
\* (the docstring of browser_assist.expire_stale_sessions()).
WindowsReturned ==
  \A p \in Procs : \A s \in Sessions :
    [](status[s] \in Terminal => <>(window[p][s] = None \/ active[s]))
=============================================================================

-------------------------- MODULE AgentOrchestrator --------------------------
(***************************************************************************)
(* The one-click agent (agent/orchestrator.py, agent/run_state.py): every  *)
(* process of the application has one orchestrator, all of them share the  *)
(* single row of agent_run_state.  START writes the desired state and      *)
(* creates the loop, the loop waits for the lease, runs cycles in a thread *)
(* and sleeps between them; STOP asks the loop to end, waits for it and    *)
(* cancels it if it takes too long.  A process's event loop runs one       *)
(* handler at a time up to its next await, but every write to the row is a *)
(* transaction of its own, so two processes interleave between them.       *)
(***************************************************************************)
EXTENDS Naturals, FiniteSets

CONSTANTS
  Instances,      \* processes that may run the application
  Nobody,         \* the instance_id of a free lease
  Gone,           \* the instance_id of a process that is no more
  MaxFaults       \* bound on processes that die, leases that lapse under a working
                  \* owner and cycles that outlast the patience of STOP, together

ASSUME OrchestratorAssumption ==
  /\ Nobody \notin Instances /\ Gone \notin Instances /\ Nobody # Gone
  /\ MaxFaults \in Nat

VARIABLES
  desired,      \* row: what the user asked for last
  testMode,     \* row: whether in TEST MODE
  actual,       \* row: what the loop says it is doing
  owner,        \* row: instance_id of the orchestrator lease
  live,         \* row: lease_expires_at is in the future
  pc,           \* where each process's event loop is; "free" at an await
  task,         \* where each process's loop task is parked
  mode,         \* the mode that start() was called with
  stopEvent,    \* the _stop_event of the living loop is set
  stopping,     \* stop() is waiting for the loop
  active,       \* _became_active
  cycling,      \* a cycle of the task runs in a thread
  orphan,       \* so does a cycle whose task was cancelled
  raised,       \* the executor's flags are ON in the process
  saved,        \* what _saved_config holds
  stalled,      \* history: the lease lapsed while its owner was working
  faults        \* faults so far

row == <<desired, testMode, actual, owner, live>>
local == <<pc, task, mode, stopEvent, stopping, active, cycling, orphan, raised, saved>>
vars == <<row, local, stalled, faults>>

AgentRunState == {"STOPPED", "STARTING", "RUNNING", "STOPPING", "ERROR"}
Handlers == {"down", "free", "desire", "starting", "raise", "check", "renew",
             "failed", "recover", "release", "stopped", "lost", "stopping"}
Parked == {"none", "new", "standby", "cycle", "wait"}

TypeOK ==
  /\ desired \in {"RUNNING", "STOPPED"} /\ testMode \in BOOLEAN
  /\ actual \in AgentRunState
  /\ owner \in Instances \cup {Nobody, Gone} /\ live \in BOOLEAN
  /\ pc \in [Instances -> Handlers] /\ task \in [Instances -> Parked]
  /\ mode \in [Instances -> BOOLEAN] /\ stopEvent \in [Instances -> BOOLEAN]
  /\ stopping \in [Instances -> BOOLEAN] /\ active \in [Instances -> BOOLEAN]
  /\ cycling \in [Instances -> BOOLEAN] /\ orphan \in [Instances -> BOOLEAN]
  /\ raised \in [Instances -> BOOLEAN] /\ stalled \in [Instances -> BOOLEAN]
  /\ saved \in [Instances -> {"none", "on", "off"}]
  /\ faults \in 0..MaxFaults

Off == [i \in Instances |-> FALSE]

Init ==
  /\ desired = "STOPPED" /\ testMode = FALSE /\ actual = "STOPPED"
  /\ owner = Nobody /\ live = FALSE
  /\ pc = [i \in Instances |-> "down"] /\ task = [i \in Instances |-> "none"]
  /\ stopping = Off /\ mode = Off /\ stopEvent = Off /\ active = Off /\ cycling = Off
  /\ orphan = Off /\ raised = Off /\ stalled = Off
  /\ saved = [i \in Instances |-> "none"]
  /\ faults = 0

Goto(i, h) == pc' = [pc EXCEPT ![i] = h]
Park(i, t) == task' = [task EXCEPT ![i] = t]
Free(i) == pc[i] = "free"

-----------------------------------------------------------------------------
(* agent/run_state.py: the lease. *)

\* MUTANT: the WHERE clause forgets that a live lease is somebody's.
TakeAlways(i) == owner' = i /\ live' = TRUE

\* MUTANT: the WHERE clause forgets that a lease runs out.
TakeReleased(i) ==
  /\ owner = Nobody \/ owner = i
  /\ owner' = i
  /\ live' = TRUE

TryAcquire(i) ==
  /\ owner = Nobody \/ ~live \/ owner = i
  /\ owner' = i
  /\ live' = TRUE

RenewLease(i) == owner = i /\ live' = TRUE /\ UNCHANGED owner

\* MUTANT: the release does not look at the instance.
ReleaseAlways(i) == owner' = Nobody /\ live' = FALSE

ReleaseLease(i) ==
  IF owner = i THEN owner' = Nobody /\ live' = FALSE ELSE UNCHANGED <<owner, live>>

-----------------------------------------------------------------------------
(* START: a route of the dashboard, and the restart of a process. *)

\* start() looks at the row first.
AlreadyRunning(m) == actual \in {"RUNNING", "STARTING"} /\ testMode = m

\* The lifespan of a process calls start() if the agent was wanted.
Boot(i) ==
  /\ pc[i] = "down" /\ ~orphan[i]
  /\ \/ /\ desired = "RUNNING" /\ ~AlreadyRunning(testMode)
        /\ Goto(i, "desire")
        /\ mode' = [mode EXCEPT ![i] = testMode]
     \/ /\ desired = "STOPPED" \/ AlreadyRunning(testMode)
        /\ Goto(i, "free")
        /\ UNCHANGED mode
  /\ UNCHANGED <<row, task, stopEvent, stopping, active, cycling, orphan, raised,
                 saved, stalled, faults>>

Start(i, m) ==
  /\ Free(i)
  /\ ~AlreadyRunning(m)
  /\ Goto(i, "desire")
  /\ mode' = [mode EXCEPT ![i] = m]
  /\ UNCHANGED <<row, task, stopEvent, stopping, active, cycling, orphan, raised,
                 saved, stalled, faults>>

\* The wish is written; the loop is created unless the old one still lives.
Desire(i) ==
  /\ pc[i] = "desire"
  /\ desired' = "RUNNING" /\ testMode' = mode[i]
  /\ IF task[i] = "none"
     THEN Park(i, "new")
     ELSE UNCHANGED task
  /\ mode' = [mode EXCEPT ![i] = FALSE]
  /\ Goto(i, "free")
  /\ UNCHANGED <<actual, owner, live, stopEvent, stopping, active, cycling, orphan,
                 raised, saved, stalled, faults>>

-----------------------------------------------------------------------------
(* _loop(). *)

\* The task tries to take the lease, at once and then at intervals.
Acquire(i) ==
  /\ Free(i)
  /\ task[i] = "new" \/ (task[i] = "standby" /\ ~stopEvent[i])
  /\ TryAcquire(i)
  /\ active' = [active EXCEPT ![i] = TRUE]
  /\ stalled' = [stalled EXCEPT ![i] = FALSE]
  /\ Goto(i, "starting")
  /\ UNCHANGED <<desired, testMode, actual, task, mode, stopEvent, stopping, cycling,
                 orphan, raised, saved, faults>>

Standby(i) ==
  /\ Free(i)
  /\ task[i] = "new"
  /\ owner # Nobody /\ live /\ owner # i
  /\ Park(i, "standby")
  /\ UNCHANGED <<row, pc, mode, stopEvent, stopping, active, cycling, orphan, raised,
                 saved, stalled, faults>>

\* Only its own stop event ends a standby.
StandbyEnds(i) ==
  /\ Free(i)
  /\ task[i] = "standby" /\ stopEvent[i]
  /\ Park(i, "none")
  /\ stopEvent' = [stopEvent EXCEPT ![i] = FALSE]
  /\ stopping' = [stopping EXCEPT ![i] = FALSE]
  /\ UNCHANGED <<row, pc, mode, active, cycling, orphan, raised, saved, stalled, faults>>

SetStarting(i) ==
  /\ pc[i] = "starting"
  /\ actual' = "STARTING"
  /\ Goto(i, "raise")
  /\ UNCHANGED <<desired, testMode, owner, live, task, mode, stopEvent, stopping, active,
                 cycling, orphan, raised, saved, stalled, faults>>

\* _apply_config_overrides() remembers what it finds, then RUNNING is written.
RaiseFlags(i) ==
  /\ pc[i] = "raise"
  /\ saved' = [saved EXCEPT ![i] = IF raised[i] THEN "on" ELSE "off"]
  /\ raised' = [raised EXCEPT ![i] = TRUE]
  /\ actual' = "RUNNING"
  /\ Goto(i, "check")
  /\ UNCHANGED <<desired, testMode, owner, live, task, mode, stopEvent, stopping, active,
                 cycling, orphan, stalled, faults>>

\* MUTANT: only a local stop counts.
KeepRunningLocally(i) == ~stopEvent[i]

ShouldKeepRunning(i) == ~stopEvent[i] /\ desired = "RUNNING"

Check(i) ==
  /\ pc[i] = "check"
  /\ Goto(i, IF ShouldKeepRunning(i) THEN "renew" ELSE "release")
  /\ UNCHANGED <<row, task, mode, stopEvent, stopping, active, cycling, orphan, raised,
                 saved, stalled, faults>>

\* The lease is renewed and a cycle begins in a thread.
BeginCycle(i) ==
  /\ pc[i] = "renew"
  /\ RenewLease(i)
  /\ cycling' = [cycling EXCEPT ![i] = TRUE]
  /\ stalled' = [stalled EXCEPT ![i] = FALSE]
  /\ Park(i, "cycle")
  /\ Goto(i, "free")
  /\ UNCHANGED <<desired, testMode, actual, mode, stopEvent, stopping, active, orphan,
                 raised, saved, faults>>

LeaseLost(i) ==
  /\ pc[i] = "renew"
  /\ owner # i
  /\ Goto(i, "lost")
  /\ UNCHANGED <<row, task, mode, stopEvent, stopping, active, cycling, orphan, raised,
                 saved, stalled, faults>>

\* Every stage and every job of a cycle renews the lease, whoever waits for it.
Heartbeat(i) ==
  /\ cycling[i] \/ orphan[i]
  /\ active[i]
  /\ RenewLease(i)
  /\ stalled' = [stalled EXCEPT ![i] = FALSE]
  /\ UNCHANGED <<desired, testMode, actual, local, faults>>

\* The thread is done: the cycle is recorded, or it raised.
EndCycle(i) ==
  /\ Free(i)
  /\ cycling[i]
  /\ cycling' = [cycling EXCEPT ![i] = FALSE]
  /\ \/ Park(i, "wait") /\ UNCHANGED pc
     \/ Goto(i, "failed") /\ UNCHANGED task
  /\ UNCHANGED <<row, mode, stopEvent, stopping, active, orphan, raised, saved, stalled,
                 faults>>

SetError(i) ==
  /\ pc[i] = "failed"
  /\ actual' = "ERROR"
  /\ Goto(i, "recover")
  /\ UNCHANGED <<desired, testMode, owner, live, task, mode, stopEvent, stopping, active,
                 cycling, orphan, raised, saved, stalled, faults>>

Recover(i) ==
  /\ pc[i] = "recover"
  /\ actual' = "RUNNING"
  /\ Park(i, "wait")
  /\ Goto(i, "free")
  /\ UNCHANGED <<desired, testMode, owner, live, mode, stopEvent, stopping, active,
                 cycling, orphan, raised, saved, stalled, faults>>

\* The interval is over, or a stop was seen while it lasted.
Wake(i) ==
  /\ Free(i)
  /\ task[i] = "wait"
  /\ Goto(i, "check")
  /\ UNCHANGED <<row, task, mode, stopEvent, stopping, active, cycling, orphan, raised,
                 saved, stalled, faults>>

RestoreFlags(i) ==
  /\ raised' = [raised EXCEPT ![i] = IF saved[i] = "none" THEN @ ELSE saved[i] = "on"]
  /\ saved' = [saved EXCEPT ![i] = "none"]

\* The end of the loop: flags, then the lease, then the state.
Release(i) ==
  /\ pc[i] = "release"
  /\ RestoreFlags(i)
  /\ ReleaseLease(i)
  /\ Goto(i, "stopped")
  /\ UNCHANGED <<desired, testMode, actual, task, mode, stopEvent, stopping, active,
                 cycling, orphan, stalled, faults>>

SetStopped(i) ==
  /\ pc[i] = "stopped"
  /\ actual' = "STOPPED"
  /\ active' = [active EXCEPT ![i] = FALSE]
  /\ stopEvent' = [stopEvent EXCEPT ![i] = FALSE]
  /\ Park(i, "none")
  /\ stopping' = [stopping EXCEPT ![i] = FALSE]
  /\ Goto(i, "free")
  /\ UNCHANGED <<desired, testMode, owner, live, mode, cycling, orphan, raised, saved,
                 stalled, faults>>

\* Whoever lost the lease leaves the state to its new owner.
Leave(i) ==
  /\ pc[i] = "lost"
  /\ RestoreFlags(i)
  /\ ReleaseLease(i)
  /\ active' = [active EXCEPT ![i] = FALSE]
  /\ stopEvent' = [stopEvent EXCEPT ![i] = FALSE]
  /\ Park(i, "none")
  /\ stopping' = [stopping EXCEPT ![i] = FALSE]
  /\ Goto(i, "free")
  /\ UNCHANGED <<desired, testMode, actual, mode, cycling, orphan, stalled, faults>>

-----------------------------------------------------------------------------
(* STOP: a route of the dashboard, and the shutdown of a process. *)

\* A process that is gone keeps nothing but what it wrote to the row.
Vanish(i) ==
  /\ Goto(i, "down") /\ Park(i, "none")
  /\ stopping' = [stopping EXCEPT ![i] = FALSE]
  /\ stopEvent' = [stopEvent EXCEPT ![i] = FALSE]
  /\ active' = [active EXCEPT ![i] = FALSE]
  /\ cycling' = [cycling EXCEPT ![i] = FALSE]
  /\ raised' = [raised EXCEPT ![i] = FALSE]
  /\ saved' = [saved EXCEPT ![i] = "none"]
  /\ stalled' = [stalled EXCEPT ![i] = FALSE]
  /\ mode' = [mode EXCEPT ![i] = FALSE]

\* The wish is written; the loop is told if there is one.  One stop() of a process
\* at a time; it returns when the loop has ended, with nothing left to do, or cleans
\* up itself when it has lost patience.
Stop(i) ==
  /\ Free(i)
  /\ ~stopping[i]
  /\ desired' = "STOPPED" /\ testMode' = FALSE
  /\ stopping' = [stopping EXCEPT ![i] = task[i] # "none"]
  /\ IF task[i] # "none" /\ active[i]
     THEN Goto(i, "stopping") /\ UNCHANGED stopEvent
     ELSE stopEvent' = [stopEvent EXCEPT ![i] = task[i] # "none"] /\ UNCHANGED pc
  /\ UNCHANGED <<actual, owner, live, task, mode, active, cycling, orphan, raised, saved,
                 stalled, faults>>

SetStopping(i) ==
  /\ pc[i] = "stopping"
  /\ actual' = "STOPPING"
  /\ stopEvent' = [stopEvent EXCEPT ![i] = TRUE]
  /\ Goto(i, "free")
  /\ UNCHANGED <<desired, testMode, owner, live, task, mode, stopping, active, cycling,
                 orphan, raised, saved, stalled, faults>>

\* The shutdown of a process ends with a stop() that finds no loop any more; one
\* that finds a loop is a Stop before it.  An orphaned cycle goes on to its end, and
\* the process with it.
Shutdown(i) ==
  /\ Free(i)
  /\ ~stopping[i]
  /\ task[i] = "none"
  /\ desired' = "STOPPED" /\ testMode' = FALSE
  /\ Vanish(i)
  /\ UNCHANGED <<actual, owner, live, orphan, faults>>

\* Ninety seconds are over in the middle of a cycle: the task is cancelled and
\* stop() cleans up in its place; the thread cannot be cancelled.
StopTimesOut(i) ==
  /\ faults < MaxFaults
  /\ Free(i)
  /\ stopping[i]
  /\ task[i] = "cycle" /\ cycling[i]
  /\ cycling' = [cycling EXCEPT ![i] = FALSE]
  /\ orphan' = [orphan EXCEPT ![i] = TRUE]
  /\ Park(i, "none")
  /\ Goto(i, "release")
  /\ stopEvent' = [stopEvent EXCEPT ![i] = FALSE]
  /\ faults' = faults + 1
  /\ UNCHANGED <<row, mode, stopping, active, raised, saved, stalled>>

OrphanEnds(i) ==
  /\ orphan[i]
  /\ orphan' = [orphan EXCEPT ![i] = FALSE]
  /\ UNCHANGED <<row, pc, task, mode, stopEvent, stopping, active, cycling, raised, saved,
                 stalled, faults>>

-----------------------------------------------------------------------------
(* Time and failures. *)

\* A process dies; the one that takes its place has another instance_id.
Crash(i) ==
  /\ faults < MaxFaults
  /\ pc[i] # "down"
  /\ Vanish(i)
  /\ orphan' = [orphan EXCEPT ![i] = FALSE]
  /\ owner' = IF owner = i THEN Gone ELSE owner
  /\ faults' = faults + 1
  /\ UNCHANGED <<desired, testMode, actual, live>>

\* The lease of a dead process lapses, and that of a loop that waits for its next
\* cycle: nothing renews it then, and the interval is longer than the lease.
LeaseLapses ==
  /\ live
  /\ owner \in Instances => Free(owner) /\ task[owner] = "wait"
  /\ live' = FALSE
  /\ UNCHANGED <<desired, testMode, actual, owner, local, stalled, faults>>

\* The lease of a working owner lapses: it was held up between two heartbeats.
Stall ==
  /\ faults < MaxFaults
  /\ live /\ owner \in Instances
  /\ live' = FALSE
  /\ stalled' = [stalled EXCEPT ![owner] = TRUE]
  /\ faults' = faults + 1
  /\ UNCHANGED <<desired, testMode, actual, owner, local>>

-----------------------------------------------------------------------------
Handler(i) ==
  \/ Desire(i) \/ SetStarting(i) \/ RaiseFlags(i) \/ Check(i) \/ BeginCycle(i)
  \/ LeaseLost(i) \/ SetError(i) \/ Recover(i) \/ Release(i) \/ SetStopped(i)
  \/ Leave(i) \/ SetStopping(i)

Task(i) == Acquire(i) \/ Standby(i) \/ StandbyEnds(i) \/ EndCycle(i) \/ Wake(i)

Turn(i) == Handler(i) \/ Task(i)

User(i) == (\E m \in BOOLEAN : Start(i, m)) \/ Stop(i) \/ Shutdown(i)

Next ==
  \/ \E i \in Instances :
       \/ Boot(i) \/ User(i) \/ Turn(i) \/ Heartbeat(i) \/ StopTimesOut(i) \/ OrphanEnds(i) \/ Crash(i)
  \/ LeaseLapses \/ Stall

Spec == Init /\ [][Next]_vars

\* An event loop goes on with what it has to do, cycles end, time passes, and a
\* supervisor restarts a process that is down.
Fairness ==
  /\ WF_vars(LeaseLapses)
  /\ \A i \in Instances : WF_vars(Boot(i)) /\ WF_vars(Turn(i)) /\ WF_vars(OrphanEnds(i))

FairSpec == Spec /\ Fairness

-----------------------------------------------------------------------------
\* A process works on jobs in the cycle its loop waits for, and in one STOP gave up on.
Works(i) == cycling[i] \/ orphan[i]

\* stop() gave up on the only cycle of the process and has cleaned up since.
Abandoned(i) == orphan[i] /\ ~cycling[i] /\ ~(pc[i] = "release" /\ task[i] = "none")

\* Two processes work on jobs at the same time only if one of them was held up past
\* its lease in the middle of its work, or if one is left with a cycle that outlasted
\* the patience of STOP, whose cleanup gave the lease away under it
\* (orchestrator.py:137-146).  A lapse between two cycles, a crash or a STOP that waits
\* for the cycle is not enough.
OneCycleAtATime ==
  \A i, j \in Instances :
    i # j /\ Works(i) /\ Works(j)
      => stalled[i] \/ stalled[j] \/ Abandoned(i) \/ Abandoned(j)

\* The executor's flags are raised in a process while it runs a cycle and put
\* back to the operator's values when its loop is over, however it ended.
FlagsFollowTheLoop ==
  \A i \in Instances :
    /\ cycling[i] => raised[i]
    /\ Free(i) /\ task[i] = "none" => ~raised[i]

\* The lease of the row is an exclusive lease: no process takes a live one from
\* another, renews or gives back what is not its own.
Lease == INSTANCE ExclusiveLease WITH Holders <- Instances, Dead <- Gone
LeaseIsExclusive == Lease!Spec

\* If the user's last word is STOP, every loop ends for good, in the process that
\* was told and in the others, which only see the row.
StopHonoured ==
  <>[](desired = "STOPPED") => <>[](\A i \in Instances : task[i] = "none")

\* A process that waits for the lease of a dead one gets it, unless it is told to
\* do something else.
StandbyTakesOver ==
  \A i \in Instances :
    (task[i] = "standby" /\ owner = Gone)
      ~> (task[i] # "standby" \/ owner # Gone \/ pc[i] = "desire")

-----------------------------------------------------------------------------
(* What the documents say and the code does not do. *)

\* No process keeps running a cycle without the lease, unless it was held up past it
\* (agent/orchestrator.py:241 "Never keep running cycle stages without a valid lease").
CyclesHoldTheLease ==
  \A i \in Instances : Works(i) /\ ~stalled[i] => owner = i

\* A restart while the desired state is RUNNING brings the loop back
\* (docs/one-click-agent.md:64).
RestartRecovers ==
  \A i \in Instances :
    (pc[i] = "down" /\ desired = "RUNNING") ~> (task[i] # "none" \/ desired = "STOPPED")

\* The lease behind RUNNING never runs out while nothing goes wrong
\* (agent/doctor.py:59).
RunningLeaseUnexpired == actual = "RUNNING" /\ owner # Nobody => live

\* A wish to run does not stay without a loop that could fulfil it
\* (docs/one-click-agent.md:64, agent/run_state.py:11).
WantedRuns ==
  []<>(desired = "RUNNING" => \E i \in Instances : task[i] # "none" \/ ~Free(i))
=============================================================================

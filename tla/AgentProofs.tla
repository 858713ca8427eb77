----------------------------- MODULE AgentProofs -----------------------------
(***************************************************************************)
(* The agent: its orchestrator, which runs one cycle after another, and    *)
(* what a cycle and people make of a posting.                              *)
(*                                                                         *)
(* The orchestrator, for every number of processes and every number of     *)
(* faults: its lease is exclusive, two processes work at once only if one  *)
(* was held up past its lease or was left by STOP with an orphaned cycle,  *)
(* and the executor's flags follow the loop.                               *)
(*                                                                         *)
(* The posting, for every posting, filing, word list and number of         *)
(* callers: documents are made on evidence, and a job that went on to an   *)
(* application is left alone.                                              *)
(***************************************************************************)
EXTENDS AgentOrchestrator, JobPreparation, TLAPS

-----------------------------------------------------------------------------
(* The orchestrator.                                                       *)

\* A cycle of the task runs while the task is parked on it and the event loop is
\* at an await, or answers a request.
CyclingIsParked ==
  \A i \in Instances :
    cycling[i] => task[i] = "cycle" /\ pc[i] \in {"free", "desire", "stopping"}

\* Whoever runs a cycle and was not held up holds a live lease.
CyclerHoldsLease ==
  \A i \in Instances : cycling[i] /\ ~stalled[i] => owner = i /\ live

\* A process that is down has no loop.
DownIsEmpty == \A i \in Instances : pc[i] = "down" => task[i] = "none"

\* Where in its life a loop has the flags raised.
RaisedAt(i) ==
  \/ pc[i] \in {"check", "renew", "failed", "recover", "release", "lost"}
  \/ pc[i] \in {"free", "desire", "stopping"} /\ task[i] \in {"cycle", "wait"}

FlagsRemembered ==
  \A i \in Instances :
    /\ raised[i] <=> RaisedAt(i)
    /\ saved[i] = IF raised[i] THEN "off" ELSE "none"

\* Until stop() has cleaned up after a cycle it gave up on, the lease covers the cycle.
GivenUpHoldsLease ==
  \A i \in Instances :
    pc[i] = "release" /\ task[i] = "none" /\ ~stalled[i] => owner = i /\ live

\* While the loop runs, its task is there.
LoopIsThere ==
  \A i \in Instances :
    pc[i] \in {"starting", "raise", "check", "renew", "failed", "recover"} => task[i] # "none"

IInv == TypeOK /\ CyclingIsParked /\ CyclerHoldsLease /\ GivenUpHoldsLease /\ LoopIsThere
        /\ DownIsEmpty /\ FlagsRemembered

\* The actions of one process.
Step(i) ==
  \/ Boot(i) \/ User(i) \/ Turn(i) \/ Heartbeat(i) \/ StopTimesOut(i)
  \/ OrphanEnds(i) \/ Crash(i)

LEMMA InitEstablishes == Init => IInv
<1>. SUFFICES ASSUME Init PROVE IInv
  OBVIOUS
<1>1. TypeOK
  <2>1. Off \in [Instances -> BOOLEAN] /\ faults \in 0..MaxFaults
    BY OrchestratorAssumption DEF Init, Off
  <2>2. /\ pc \in [Instances -> Handlers] /\ task \in [Instances -> Parked]
        /\ saved \in [Instances -> {"none", "on", "off"}]
    BY DEF Init, Handlers, Parked
  <2>. QED BY <2>1, <2>2 DEF Init, TypeOK, AgentRunState
<1>2. /\ CyclingIsParked /\ CyclerHoldsLease /\ GivenUpHoldsLease /\ LoopIsThere
      /\ DownIsEmpty
  BY DEF Init, Off, CyclingIsParked, CyclerHoldsLease, GivenUpHoldsLease, LoopIsThere, DownIsEmpty
<1>3. FlagsRemembered
  BY DEF Init, Off, FlagsRemembered, RaisedAt
<1>. QED BY <1>1, <1>2, <1>3 DEF IInv

\* Every step of a process keeps the types.
LEMMA StepKeepsTypes ==
  ASSUME TypeOK, NEW i \in Instances, Step(i)
  PROVE  TypeOK'
<1>. USE OrchestratorAssumption DEF TypeOK, AgentRunState, Handlers, Parked, row, Goto, Park, Free
<1>1. CASE Boot(i)
  BY <1>1 DEF Boot
<1>2. CASE \E m \in BOOLEAN : Start(i, m)
  BY <1>2 DEF Start
<1>3. CASE Stop(i)
  BY <1>3 DEF Stop
<1>4. CASE Shutdown(i)
  BY <1>4 DEF Shutdown, Vanish
<1>5. CASE Desire(i)
  BY <1>5 DEF Desire
<1>6. CASE SetStopping(i)
  BY <1>6 DEF SetStopping
<1>8. CASE Acquire(i)
  BY <1>8 DEF Acquire, TryAcquire
<1>9. CASE Standby(i)
  BY <1>9 DEF Standby
<1>10. CASE StandbyEnds(i)
  BY <1>10 DEF StandbyEnds
<1>11. CASE SetStarting(i)
  BY <1>11 DEF SetStarting
<1>12. CASE RaiseFlags(i)
  BY <1>12 DEF RaiseFlags
<1>13. CASE Check(i)
  BY <1>13 DEF Check
<1>14. CASE BeginCycle(i)
  BY <1>14 DEF BeginCycle, RenewLease
<1>15. CASE EndCycle(i)
  BY <1>15 DEF EndCycle
<1>16. CASE SetError(i)
  BY <1>16 DEF SetError
<1>17. CASE Recover(i)
  BY <1>17 DEF Recover
<1>18. CASE Wake(i)
  BY <1>18 DEF Wake
<1>19. CASE LeaseLost(i)
  BY <1>19 DEF LeaseLost
<1>20. CASE Release(i)
  BY <1>20 DEF Release, RestoreFlags, ReleaseLease
<1>21. CASE SetStopped(i)
  BY <1>21 DEF SetStopped
<1>22. CASE Leave(i)
  BY <1>22 DEF Leave, RestoreFlags, ReleaseLease
<1>23. CASE Heartbeat(i)
  BY <1>23 DEF Heartbeat, RenewLease, local
<1>24. CASE StopTimesOut(i)
  BY <1>24 DEF StopTimesOut
<1>25. CASE OrphanEnds(i)
  BY <1>25 DEF OrphanEnds
<1>26. CASE Crash(i)
  BY <1>26 DEF Crash, Vanish
<1>. QED
  BY ONLY Step(i), <1>1, <1>2, <1>3, <1>4, <1>5, <1>6, <1>8, <1>9, <1>10, <1>11, <1>12, <1>13, <1>14, <1>15, <1>16, <1>17, <1>18, <1>19, <1>20, <1>21, <1>22, <1>23, <1>24, <1>25, <1>26
  DEF Step, User, Turn, Handler, Task

\* Every step of a process keeps a cycle parked and its lease held.
LEMMA StepKeepsCycler ==
  ASSUME TypeOK, CyclingIsParked, CyclerHoldsLease, GivenUpHoldsLease, LoopIsThere,
         NEW i \in Instances, Step(i)
  PROVE  CyclingIsParked' /\ CyclerHoldsLease' /\ GivenUpHoldsLease' /\ LoopIsThere'
<1>. USE OrchestratorAssumption DEF TypeOK, CyclingIsParked, CyclerHoldsLease, GivenUpHoldsLease, LoopIsThere, row, Goto, Park, Free
<1>1. CASE Boot(i)
  BY <1>1 DEF Boot
<1>2. CASE \E m \in BOOLEAN : Start(i, m)
  BY <1>2 DEF Start
<1>3. CASE Stop(i)
  BY <1>3 DEF Stop
<1>4. CASE Shutdown(i)
  BY <1>4 DEF Shutdown, Vanish
<1>5. CASE Desire(i)
  BY <1>5 DEF Desire
<1>6. CASE SetStopping(i)
  BY <1>6 DEF SetStopping
<1>8. CASE Acquire(i)
  BY <1>8 DEF Acquire, TryAcquire
<1>9. CASE Standby(i)
  BY <1>9 DEF Standby
<1>10. CASE StandbyEnds(i)
  BY <1>10 DEF StandbyEnds
<1>11. CASE SetStarting(i)
  BY <1>11 DEF SetStarting
<1>12. CASE RaiseFlags(i)
  BY <1>12 DEF RaiseFlags
<1>13. CASE Check(i)
  BY <1>13 DEF Check
<1>14. CASE BeginCycle(i)
  BY <1>14 DEF BeginCycle, RenewLease
<1>15. CASE EndCycle(i)
  BY <1>15 DEF EndCycle
<1>16. CASE SetError(i)
  BY <1>16 DEF SetError
<1>17. CASE Recover(i)
  BY <1>17 DEF Recover
<1>18. CASE Wake(i)
  BY <1>18 DEF Wake
<1>19. CASE LeaseLost(i)
  BY <1>19 DEF LeaseLost
<1>20. CASE Release(i)
  BY <1>20 DEF Release, RestoreFlags, ReleaseLease
<1>21. CASE SetStopped(i)
  BY <1>21 DEF SetStopped
<1>22. CASE Leave(i)
  BY <1>22 DEF Leave, RestoreFlags, ReleaseLease
<1>23. CASE Heartbeat(i)
  BY <1>23 DEF Heartbeat, RenewLease, local
<1>24. CASE StopTimesOut(i)
  BY <1>24 DEF StopTimesOut
<1>25. CASE OrphanEnds(i)
  BY <1>25 DEF OrphanEnds
<1>26. CASE Crash(i)
  BY <1>26 DEF Crash, Vanish
<1>. QED
  BY ONLY Step(i), <1>1, <1>2, <1>3, <1>4, <1>5, <1>6, <1>8, <1>9, <1>10, <1>11, <1>12, <1>13, <1>14, <1>15, <1>16, <1>17, <1>18, <1>19, <1>20, <1>21, <1>22, <1>23, <1>24, <1>25, <1>26
  DEF Step, User, Turn, Handler, Task

\* Every step of a process keeps the flags and what is remembered of them.
LEMMA StepKeepsFlags ==
  ASSUME TypeOK, CyclingIsParked, DownIsEmpty, FlagsRemembered, NEW i \in Instances, Step(i)
  PROVE  DownIsEmpty' /\ FlagsRemembered'
<1>. USE DEF TypeOK, CyclingIsParked, DownIsEmpty, FlagsRemembered, RaisedAt, row, Goto, Park, Free
<1>1. CASE Boot(i)
  BY <1>1 DEF Boot
<1>2. CASE \E m \in BOOLEAN : Start(i, m)
  BY <1>2 DEF Start
<1>3. CASE Stop(i)
  BY <1>3 DEF Stop
<1>4. CASE Shutdown(i)
  BY <1>4 DEF Shutdown, Vanish
<1>5. CASE Desire(i)
  BY <1>5 DEF Desire
<1>6. CASE SetStopping(i)
  BY <1>6 DEF SetStopping
<1>8. CASE Acquire(i)
  BY <1>8 DEF Acquire, TryAcquire
<1>9. CASE Standby(i)
  BY <1>9 DEF Standby
<1>10. CASE StandbyEnds(i)
  BY <1>10 DEF StandbyEnds
<1>11. CASE SetStarting(i)
  BY <1>11 DEF SetStarting
<1>12. CASE RaiseFlags(i)
  BY <1>12 DEF RaiseFlags
<1>13. CASE Check(i)
  BY <1>13 DEF Check
<1>14. CASE BeginCycle(i)
  BY <1>14 DEF BeginCycle, RenewLease
<1>15. CASE EndCycle(i)
  BY <1>15 DEF EndCycle
<1>16. CASE SetError(i)
  BY <1>16 DEF SetError
<1>17. CASE Recover(i)
  BY <1>17 DEF Recover
<1>18. CASE Wake(i)
  BY <1>18 DEF Wake
<1>19. CASE LeaseLost(i)
  BY <1>19 DEF LeaseLost
<1>20. CASE Release(i)
  BY <1>20 DEF Release, RestoreFlags, ReleaseLease
<1>21. CASE SetStopped(i)
  BY <1>21 DEF SetStopped
<1>22. CASE Leave(i)
  BY <1>22 DEF Leave, RestoreFlags, ReleaseLease
<1>23. CASE Heartbeat(i)
  BY <1>23 DEF Heartbeat, RenewLease, local
<1>24. CASE StopTimesOut(i)
  BY <1>24 DEF StopTimesOut
<1>25. CASE OrphanEnds(i)
  BY <1>25 DEF OrphanEnds
<1>26. CASE Crash(i)
  BY <1>26 DEF Crash, Vanish
<1>. QED
  BY ONLY Step(i), <1>1, <1>2, <1>3, <1>4, <1>5, <1>6, <1>8, <1>9, <1>10, <1>11, <1>12, <1>13, <1>14, <1>15, <1>16, <1>17, <1>18, <1>19, <1>20, <1>21, <1>22, <1>23, <1>24, <1>25, <1>26
  DEF Step, User, Turn, Handler, Task

LEMMA TimePreserves ==
  ASSUME IInv, LeaseLapses \/ Stall
  PROVE  IInv'
<1>1. TypeOK'
  <2>1. CASE LeaseLapses
    BY <2>1 DEF IInv, TypeOK, LeaseLapses, local
  <2>2. CASE Stall
    <3>1. faults' \in 0..MaxFaults
      BY <2>2, OrchestratorAssumption DEF IInv, TypeOK, Stall
    <3>2. stalled' \in [Instances -> BOOLEAN]
      BY <2>2 DEF IInv, TypeOK, Stall
    <3>. QED BY <2>2, <3>1, <3>2 DEF IInv, TypeOK, Stall, local
  <2>. QED BY <2>1, <2>2
<1>2. CyclingIsParked' /\ CyclerHoldsLease' /\ GivenUpHoldsLease' /\ LoopIsThere'
  BY DEF IInv, TypeOK, CyclingIsParked, CyclerHoldsLease, GivenUpHoldsLease, LoopIsThere,
         LeaseLapses, Stall, local, Free
<1>3. DownIsEmpty' /\ FlagsRemembered'
  BY DEF IInv, DownIsEmpty, FlagsRemembered, RaisedAt, LeaseLapses, Stall, local
<1>. QED BY <1>1, <1>2, <1>3 DEF IInv

LEMMA NextPreserves == IInv /\ [Next]_vars => IInv'
<1>. SUFFICES ASSUME IInv, [Next]_vars PROVE IInv'
  OBVIOUS
<1>1. ASSUME NEW i \in Instances, Step(i) PROVE IInv'
  BY <1>1, StepKeepsTypes, StepKeepsCycler, StepKeepsFlags DEF IInv
<1>2. CASE LeaseLapses \/ Stall
  BY <1>2, TimePreserves
<1>3. CASE UNCHANGED vars
  BY <1>3 DEF vars, row, local, IInv, TypeOK, CyclingIsParked, CyclerHoldsLease,
              GivenUpHoldsLease, LoopIsThere, DownIsEmpty, FlagsRemembered, RaisedAt
<1>. QED BY <1>1, <1>2, <1>3 DEF Next, Step

\* The inductive invariant holds in every state.
THEOREM Inductive == Spec => []IInv
BY InitEstablishes, NextPreserves, PTL DEF Spec

\* Every variable has its type.
THEOREM TypeCorrect == Spec => []TypeOK
<1>1. IInv => TypeOK
  BY DEF IInv
<1>. QED BY <1>1, Inductive, PTL

\* Two processes at work at once, in a loop's cycle or in an orphan of STOP, need one
\* that was held up past its lease or one whose orphan lost the lease in the cleanup.
THEOREM CyclesExclude == Spec => []OneCycleAtATime
<1>1. IInv => OneCycleAtATime
  BY DEF IInv, CyclerHoldsLease, GivenUpHoldsLease, OneCycleAtATime, Works, Abandoned
<1>. QED BY <1>1, Inductive, PTL

\* The flags are up during a cycle and down when the loop is over.
THEOREM FlagsFollow == Spec => []FlagsFollowTheLoop
<1>1. IInv => FlagsFollowTheLoop
  BY DEF IInv, CyclingIsParked, FlagsRemembered, RaisedAt, FlagsFollowTheLoop, Free
<1>. QED BY <1>1, Inductive, PTL

-----------------------------------------------------------------------------
\* Every step of a process is a step of the lease or leaves it alone.
LEMMA StepIsLeaseStep ==
  ASSUME IInv, NEW i \in Instances, Step(i)
  PROVE  [Lease!Next]_(Lease!LeaseVars)
<1>. USE DEF Lease!Next, Lease!LeaseVars
<1>1. CASE Acquire(i)
  BY <1>1 DEF Acquire, TryAcquire, Lease!Take
<1>2. CASE BeginCycle(i)
  BY <1>2 DEF BeginCycle, RenewLease, Lease!Renew
<1>3. CASE Heartbeat(i)
  BY <1>3 DEF Heartbeat, RenewLease, Lease!Renew
<1>4. CASE Release(i)
  BY <1>4 DEF Release, ReleaseLease, Lease!GiveBack
<1>5. CASE Leave(i)
  BY <1>5 DEF Leave, ReleaseLease, Lease!GiveBack
<1>6. CASE Crash(i)
  BY <1>6 DEF Crash, Lease!Die
<1>7. CASE Boot(i) \/ User(i) \/ StopTimesOut(i) \/ OrphanEnds(i)
  BY <1>7 DEF Boot, User, Start, Stop, Shutdown, StopTimesOut, OrphanEnds, row
<1>8. CASE \/ Desire(i) \/ SetStarting(i) \/ RaiseFlags(i) \/ Check(i) \/ LeaseLost(i)
           \/ SetError(i) \/ Recover(i) \/ SetStopped(i) \/ SetStopping(i)
  BY <1>8 DEF Desire, SetStarting, RaiseFlags, Check, LeaseLost, SetError, Recover,
              SetStopped, SetStopping, row
<1>9. CASE Standby(i) \/ StandbyEnds(i) \/ EndCycle(i) \/ Wake(i)
  BY <1>9 DEF Standby, StandbyEnds, EndCycle, Wake, row
<1>. QED BY <1>1, <1>2, <1>3, <1>4, <1>5, <1>6, <1>7, <1>8, <1>9
         DEF Step, Turn, Handler, Task

\* The row implements the exclusive lease.
THEOREM LeaseImplemented == Spec => LeaseIsExclusive
<1>1. Init => Lease!Init
  BY DEF Init, Lease!Init
<1>2. IInv /\ [Next]_vars => [Lease!Next]_(Lease!LeaseVars)
  <2>. SUFFICES ASSUME IInv, [Next]_vars PROVE [Lease!Next]_(Lease!LeaseVars)
    OBVIOUS
  <2>1. ASSUME NEW i \in Instances, Step(i) PROVE [Lease!Next]_(Lease!LeaseVars)
    BY <2>1, StepIsLeaseStep
  <2>2. CASE LeaseLapses \/ Stall
    BY <2>2 DEF LeaseLapses, Stall, Lease!Next, Lease!Lapse
  <2>3. CASE UNCHANGED vars
    BY <2>3 DEF vars, row, Lease!LeaseVars
  <2>. QED BY <2>1, <2>2, <2>3 DEF Next, Step
<1>. QED BY <1>1, <1>2, Inductive, PTL DEF Spec, LeaseIsExclusive, Lease!Spec

-----------------------------------------------------------------------------
(* The posting.                                                            *)

\* A sponsorship that says no more than the posting does.
Evidence(v) ==
  /\ v = "CONFIRMED_SPONSOR" => Promises(posting) /\ ~Refuses(posting)
  /\ v = "LIKELY_SPONSOR" => Promises(posting) \/ ~Refuses(posting)

\* A state of the job that the posting bears out.
Fits(s) ==
  /\ s = "ANALYZED" => Gates(posting)
  /\ s = "REVIEW_REQUIRED" => Promises(posting) \/ ~Refuses(posting)

\* What a caller has behind it at each step, and what it relies on while nobody
\* else is at work on the row.
Behind(c) ==
  /\ Evidence(frame[c].verdict)
  /\ at[c] \in {"decide", "write analysis", "refresh"} => frame[c].verdict # None
  /\ at[c] = "write" => frame[c].verdict \in EligibleSponsorship
  /\ c \in Desks => at[c] \in {"idle", "decide", "refresh", "generate", "write"}
  /\ c \in Pollers =>
       /\ at[c] # "refresh"
       /\ at[c] # "idle" => IsUsLocation(posting)
       /\ at[c] \notin {"idle", "insert", "analyze"} => IsTargetRole(posting)
       /\ at[c] \in {"generate", "write"} => Gates(posting)
  /\ ~overlapped =>
       /\ at[c] = "write" => sponsorship = frame[c].verdict
       /\ c \in Pollers =>
            /\ at[c] \in {"analyze", "decide", "write analysis"} => state = "DISCOVERED"
            /\ at[c] \in {"generate", "write"} => state \in {"ANALYZED", "SKIPPED"}

Alone ==
  ~overlapped => \A c, d \in Callers : at[c] # "idle" /\ at[d] # "idle" => c = d

PreparationInv ==
  /\ PreparationTypeOK
  /\ Evidence(sponsorship)
  /\ Fits(state)
  /\ Alone
  /\ \A c \in Callers : Behind(c)

\* What a decision says of the posting it is made on, whatever is on file.
LEMMA Decided ==
  ASSUME NEW employer
  PROVE  /\ DecideSponsorship(posting, employer) \in SponsorshipStatus
         /\ Evidence(DecideSponsorship(posting, employer))
<1> DEFINE v == DecideSponsorship(posting, employer)
<1>1. CASE Refuses(posting) /\ Promises(posting)
  BY <1>1 DEF DecideSponsorship, Classify, SponsorshipStatus, Evidence
<1>2. CASE Refuses(posting) /\ ~Promises(posting)
  BY <1>2 DEF DecideSponsorship, Classify, SponsorshipStatus, Evidence
<1>3. CASE Promises(posting) /\ ~Refuses(posting)
  BY <1>3 DEF DecideSponsorship, Classify, SponsorshipStatus, Evidence
<1>4. CASE ~Promises(posting) /\ ~Refuses(posting)
  <2>1. Classify(posting) \in {"LIKELY_SPONSOR", "UNKNOWN"}
    BY <1>4 DEF Classify
  <2>2. HistoricalUpgrade(posting, employer) \in {"LIKELY_SPONSOR", "UNKNOWN"}
    BY DEF HistoricalUpgrade
  <2>3. v \in {"LIKELY_SPONSOR", "UNKNOWN"}
    BY <2>1, <2>2 DEF DecideSponsorship
  <2> QED BY <1>4, <2>3 DEF SponsorshipStatus, Evidence
<1> QED BY <1>1, <1>2, <1>3, <1>4

\* Where a caller goes, with what it carries.
LEMMA CallerMoves ==
  ASSUME PreparationTypeOK, NEW c \in Callers, NEW step \in {"idle"} \cup Steps, Proceed(c, step)
  PROVE  /\ at' \in [Callers -> {"idle"} \cup Steps] /\ at'[c] = step
         /\ \A d \in Callers \ {c} : at'[d] = at[d]
BY DEF PreparationTypeOK, Proceed

LEMMA CallerCarries ==
  ASSUME PreparationTypeOK, NEW c \in Callers, NEW f \in Frames,
         frame' = [frame EXCEPT ![c] = f]
  PROVE  /\ frame' \in [Callers -> Frames] /\ frame'[c] = f
         /\ \A d \in Callers \ {c} : frame'[d] = frame[d]
BY DEF PreparationTypeOK

LEMMA CallerReturns ==
  ASSUME PreparationTypeOK, NEW c \in Callers, Return(c)
  PROVE  /\ at' \in [Callers -> {"idle"} \cup Steps] /\ at'[c] = "idle"
         /\ frame' \in [Callers -> Frames] /\ frame'[c].verdict = None
         /\ \A d \in Callers \ {c} : at'[d] = at[d] /\ frame'[d] = frame[d]
<1>1. NoFrame \in Frames /\ NoFrame.verdict = None
  BY DEF NoFrame, Frames
<1> QED BY <1>1, CallerMoves, CallerCarries DEF Return

\* A step of one caller, for which the others only have to stay where they are.
LEMMA CallerKeeps ==
  ASSUME PreparationInv, NEW c \in Callers, PreparationTypeOK', posting' = posting,
         \A d \in Callers \ {c} : at'[d] = at[d] /\ frame'[d] = frame[d],
         ~overlapped' => \A d \in Callers \ {c} : at[d] = "idle",
         Evidence(sponsorship)', Fits(state'), Behind(c)'
  PROVE  PreparationInv'
<1>1. ASSUME NEW d \in Callers \ {c} PROVE Behind(d)'
  BY <1>1 DEF PreparationInv, Behind, Evidence
<1>2. Alone'
  BY DEF Alone, PreparationInv
<1>3. Fits(state)'
  BY DEF Fits
<1> QED BY <1>1, <1>2, <1>3 DEF PreparationInv

\* The posting is taken up: whoever is not alone then is known to overlap.
LEMMA TakenUp ==
  ASSUME PreparationInv, NEW c \in Callers, at[c] = "idle", NEW step \in Steps, Proceed(c, step),
         \/ frame' = frame /\ step # "decide"
         \/ \E f \in Frames : /\ frame' = [frame EXCEPT ![c] = f]
                             /\ f.verdict # None /\ Evidence(f.verdict),
         BeginIntake, UNCHANGED <<posting, state, sponsorship, decided, year, aged, importing, failures>>,
         c \in Desks => step \in {"decide", "generate"} /\ c \notin Pollers,
         c \in Pollers => /\ step \in {"insert", "analyze"} /\ IsUsLocation(posting)
                          /\ step = "analyze" => state = "DISCOVERED",
         step # "write"
  PROVE  PreparationInv'
<1>1. /\ at' \in [Callers -> {"idle"} \cup Steps] /\ at'[c] = step
      /\ \A d \in Callers \ {c} : at'[d] = at[d]
  BY CallerMoves DEF PreparationInv
<1>2. /\ frame' \in [Callers -> Frames] /\ Evidence(frame'[c].verdict)
      /\ step = "decide" => frame'[c].verdict # None
      /\ \A d \in Callers \ {c} : frame'[d] = frame[d]
  <2>1. CASE frame' = frame /\ step # "decide"
    BY <2>1 DEF PreparationInv, PreparationTypeOK, Behind
  <2>2. CASE \E f \in Frames : /\ frame' = [frame EXCEPT ![c] = f]
                              /\ f.verdict # None /\ Evidence(f.verdict)
    BY <2>2, CallerCarries DEF PreparationInv
  <2> QED BY <2>1, <2>2
<1>3. overlapped' \in BOOLEAN
  BY DEF BeginIntake
<1>4. ~overlapped' => \A d \in Callers \ {c} : at[d] = "idle"
  BY DEF BeginIntake
<1>5. PreparationTypeOK'
  BY <1>1, <1>2, <1>3 DEF PreparationInv, PreparationTypeOK
<1>6. Behind(c)'
  BY <1>1, <1>2 DEF Behind, Evidence, Steps, Callers
<1>7. Evidence(sponsorship)' /\ Fits(state')
  BY DEF PreparationInv, Evidence
<1> QED BY <1>1, <1>2, <1>3, <1>4, <1>5, <1>6, <1>7, CallerKeeps

\* A caller at work stays the only one, if it was.
LEMMA AtWork ==
  ASSUME PreparationInv, NEW c \in Callers, at[c] # "idle", UNCHANGED overlapped
  PROVE  ~overlapped' => \A d \in Callers \ {c} : at[d] = "idle"
BY DEF PreparationInv, Alone

\* A call that returns, whatever its last write was.
LEMMA ReturnKeeps ==
  ASSUME PreparationInv, NEW c \in Callers, at[c] # "idle", Return(c),
         UNCHANGED <<posting, decided, year, aged, importing, overlapped>>,
         failures' \in 0..MaxFailures,
         state' \in ApplicationState \cup {None}, Fits(state'),
         sponsorship' \in SponsorshipStatus, Evidence(sponsorship')
  PROVE  PreparationInv'
<1>1. /\ at' \in [Callers -> {"idle"} \cup Steps] /\ at'[c] = "idle"
      /\ frame' \in [Callers -> Frames] /\ frame'[c].verdict = None
      /\ \A d \in Callers \ {c} : at'[d] = at[d] /\ frame'[d] = frame[d]
  BY CallerReturns DEF PreparationInv
<1>2. PreparationTypeOK'
  BY <1>1 DEF PreparationInv, PreparationTypeOK
<1>3. None \notin SponsorshipStatus
  BY PolicyAssumption DEF SponsorshipStatus
<1>4. Behind(c)'
  BY <1>1, <1>3 DEF Behind, Evidence, SponsorshipStatus
<1>5. Evidence(sponsorship)'
  BY DEF PreparationInv, Evidence
<1> QED BY <1>1, <1>2, <1>4, <1>5, AtWork, CallerKeeps

\* A caller that goes on from one step to the next, with the verdict it had or another.
LEMMA GoesOn ==
  ASSUME PreparationInv, NEW c \in Callers, at[c] # "idle", NEW step \in Steps, Proceed(c, step),
         \/ frame' = frame
         \/ \E f \in Frames : frame' = [frame EXCEPT ![c] = f] /\ Evidence(f.verdict),
         UNCHANGED <<posting, year, aged, importing, overlapped, failures>>,
         decided' \in BOOLEAN, state' \in ApplicationState \cup {None},
         sponsorship' \in SponsorshipStatus, Evidence(sponsorship'), Fits(state')
  PROVE  /\ PreparationTypeOK' /\ at'[c] = step /\ Evidence(frame'[c].verdict)
         /\ Behind(c)' => PreparationInv'
<1>1. /\ at' \in [Callers -> {"idle"} \cup Steps] /\ at'[c] = step
      /\ \A d \in Callers \ {c} : at'[d] = at[d]
  BY CallerMoves DEF PreparationInv
<1>2. /\ frame' \in [Callers -> Frames] /\ Evidence(frame'[c].verdict)
      /\ \A d \in Callers \ {c} : frame'[d] = frame[d]
  <2>1. CASE frame' = frame
    BY <2>1 DEF PreparationInv, PreparationTypeOK, Behind
  <2>2. CASE \E f \in Frames : frame' = [frame EXCEPT ![c] = f] /\ Evidence(f.verdict)
    BY <2>2, CallerCarries DEF PreparationInv
  <2> QED BY <2>1, <2>2
<1>3. PreparationTypeOK'
  BY <1>1, <1>2 DEF PreparationInv, PreparationTypeOK
<1>4. Evidence(sponsorship)'
  BY DEF Evidence
<1> QED BY <1>1, <1>2, <1>3, <1>4, AtWork, CallerKeeps

\* What a decision leaves with its caller.
LEMMA DecisionMade ==
  ASSUME PreparationInv, NEW c \in Callers, DecideNow(c)
  PROVE  /\ Proceed(c, "decide")
         /\ \E f \in Frames : /\ frame' = [frame EXCEPT ![c] = f]
                             /\ f.verdict # None /\ Evidence(f.verdict)
<1> DEFINE v == DecideSponsorship(posting, Profile)
           f == [frame[c] EXCEPT !.verdict = v, !.first = ~decided]
<1>1. v \in SponsorshipStatus /\ Evidence(v)
  BY Decided
<1>2. frame[c] \in Frames
  BY DEF PreparationInv, PreparationTypeOK
<1>3. f \in Frames /\ f.verdict = v
  BY <1>1, <1>2 DEF Frames, PreparationInv, PreparationTypeOK
<1>4. frame' = [frame EXCEPT ![c] = f]
  BY DEF DecideNow
<1> HIDE DEF f
<1>5. f.verdict # None /\ Evidence(f.verdict)
  BY <1>1, <1>3, PolicyAssumption DEF SponsorshipStatus
<1> QED BY <1>3, <1>4, <1>5 DEF DecideNow

LEMMA PollKeeps ==
  ASSUME PreparationInv, NEW c \in Pollers, Poll(c)
  PROVE  PreparationInv'
<1>1. c \in Callers /\ c \notin Desks
  BY PreparationAssumption DEF Callers
<1>2. IsUsLocation(posting)
  BY DEF Poll, PreFilter
<1>3. PICK step \in {"insert", "analyze"} :
        Proceed(c, step) /\ (step = "analyze" => state = "DISCOVERED")
  BY DEF Poll, Unfinished
<1> QED BY <1>1, <1>2, <1>3, TakenUp DEF Poll, jobVars, evidenceVars, Steps

LEMMA InsertKeeps ==
  ASSUME PreparationInv, NEW c \in Pollers, Insert(c)
  PROVE  PreparationInv'
<1>1. c \in Callers /\ c \notin Desks /\ at[c] = "insert"
  BY PreparationAssumption DEF Callers, Insert
<1>2. CASE state # None
  BY <1>1, <1>2, ReturnKeeps DEF Insert, evidenceVars, history, PreparationInv, PreparationTypeOK
<1>3. CASE state = None
  <2>1. /\ PreparationTypeOK' /\ at'[c] = "analyze" /\ Evidence(frame'[c].verdict)
        /\ Behind(c)' => PreparationInv'
    BY <1>1, <1>3, GoesOn DEF Insert, evidenceVars, history, PreparationInv, PreparationTypeOK,
         Steps, ApplicationState, Fits
  <2>2. Behind(c)'
    BY <1>1, <1>3, <2>1 DEF Behind, Evidence, Insert, PreparationInv
  <2> QED BY <2>1, <2>2
<1> QED BY <1>2, <1>3

LEMMA AnalyzeKeeps ==
  ASSUME PreparationInv, NEW c \in Pollers, Analyze(c)
  PROVE  PreparationInv'
<1>1. c \in Callers /\ c \notin Desks /\ at[c] = "analyze"
  BY PreparationAssumption DEF Callers, Analyze
<1>2. UNCHANGED <<posting, sponsorship, decided, year, aged, importing, overlapped, failures>>
  BY DEF Analyze, history
<1>3. CASE ~IsTargetRole(posting) /\ state' = "SKIPPED" /\ Return(c)
  BY <1>1, <1>2, <1>3, ReturnKeeps DEF PreparationInv, PreparationTypeOK, ApplicationState, Fits
<1>4. CASE IsTargetRole(posting) /\ DecideNow(c) /\ UNCHANGED state
  <2>1. /\ Proceed(c, "decide")
        /\ \E f \in Frames : /\ frame' = [frame EXCEPT ![c] = f]
                            /\ f.verdict # None /\ Evidence(f.verdict)
    BY <1>1, <1>4, DecisionMade
  <2>2. state' \in ApplicationState \cup {None}
    BY <1>4 DEF PreparationInv, PreparationTypeOK
  <2>3. /\ PreparationTypeOK' /\ at'[c] = "decide" /\ Evidence(frame'[c].verdict)
        /\ Behind(c)' => PreparationInv'
    BY <1>1, <1>2, <1>4, <2>1, <2>2, GoesOn DEF PreparationInv, PreparationTypeOK, Steps
  <2>4. frame'[c].verdict # None
    BY <1>1, <2>1, CallerCarries DEF PreparationInv
  <2>5. Behind(c)'
    BY <1>1, <1>2, <1>4, <2>3, <2>4 DEF Behind, Evidence, PreparationInv
  <2> QED BY <2>3, <2>5
<1> QED BY <1>3, <1>4 DEF Analyze

LEMMA DecideKeeps ==
  ASSUME PreparationInv, NEW c \in Callers, Decide(c)
  PROVE  PreparationInv'
<1>1. at[c] = "decide" /\ Behind(c) /\ (c \in Pollers => c \notin Desks)
      /\ (c \notin Pollers => c \in Desks)
  BY PreparationAssumption DEF Callers, Decide, PreparationInv
<1>2. UNCHANGED <<posting, state, sponsorship, year, aged, importing, overlapped, failures>>
  BY DEF Decide, evidenceVars, history
<1>3. CASE Return(c) /\ UNCHANGED decided
  BY <1>1, <1>2, <1>3, ReturnKeeps DEF PreparationInv, PreparationTypeOK
<1>4. CASE /\ decided' = TRUE
           /\ Proceed(c, IF c \in Pollers THEN "write analysis" ELSE "refresh") /\ UNCHANGED frame
  <2> DEFINE step == IF c \in Pollers THEN "write analysis" ELSE "refresh"
  <2>1. /\ PreparationTypeOK' /\ at'[c] = step /\ Evidence(frame'[c].verdict)
        /\ Behind(c)' => PreparationInv'
    BY <1>1, <1>2, <1>4, GoesOn DEF PreparationInv, PreparationTypeOK, Steps
  <2>2. Behind(c)'
    BY <1>1, <1>2, <1>4, <2>1 DEF Behind, Evidence
  <2> QED BY <2>1, <2>2
<1> QED BY <1>3, <1>4 DEF Decide

LEMMA WriteAnalysisKeeps ==
  ASSUME PreparationInv, NEW c \in Pollers, WriteAnalysis(c)
  PROVE  PreparationInv'
<1>1. c \in Callers /\ c \notin Desks /\ at[c] = "write analysis"
  BY PreparationAssumption DEF Callers, WriteAnalysis
<1>2. /\ Behind(c) /\ frame[c].verdict \in SponsorshipStatus
      /\ Evidence(frame[c].verdict)
  BY <1>1 DEF PreparationInv, PreparationTypeOK, Behind, Frames
<1>3. UNCHANGED <<posting, decided, year, aged, importing, overlapped, failures, frame>>
  BY DEF WriteAnalysis, evidenceVars, history
<1>4. /\ sponsorship' = frame[c].verdict
      /\ state' \in ApplicationState /\ Fits(state')
  BY DEF WriteAnalysis, ApplicationState, Fits
<1>5. /\ PreparationTypeOK' /\ at'[c] = "reread" /\ Evidence(frame'[c].verdict)
      /\ Behind(c)' => PreparationInv'
  BY <1>1, <1>2, <1>3, <1>4, GoesOn DEF WriteAnalysis, Steps, PreparationInv, PreparationTypeOK
<1>6. Behind(c)'
  BY <1>1, <1>2, <1>3, <1>5 DEF Behind, Evidence
<1> QED BY <1>5, <1>6

LEMMA RereadKeeps ==
  ASSUME PreparationInv, NEW c \in Pollers, Reread(c)
  PROVE  PreparationInv'
<1>1. c \in Callers /\ c \notin Desks /\ at[c] = "reread" /\ Behind(c)
  BY PreparationAssumption DEF Callers, Reread, PreparationInv
<1>2. UNCHANGED <<posting, state, sponsorship, decided, year, aged, importing, overlapped, failures>>
  BY DEF Reread, jobVars, evidenceVars, history
<1>3. CASE Return(c)
  BY <1>1, <1>2, <1>3, ReturnKeeps DEF PreparationInv, PreparationTypeOK
<1>4. CASE /\ state = "ANALYZED" /\ sponsorship # "UNKNOWN"
           /\ Proceed(c, "generate") /\ UNCHANGED frame
  <2>1. /\ PreparationTypeOK' /\ at'[c] = "generate" /\ Evidence(frame'[c].verdict)
        /\ Behind(c)' => PreparationInv'
    BY <1>1, <1>2, <1>4, GoesOn DEF PreparationInv, PreparationTypeOK, Steps
  <2>2. Behind(c)'
    BY <1>1, <1>2, <1>4, <2>1 DEF Behind, Evidence, Fits, PreparationInv
  <2> QED BY <2>1, <2>2
<1> QED BY <1>3, <1>4 DEF Reread

LEMMA GenerateKeeps ==
  ASSUME PreparationInv, NEW c \in Callers, Generate(c)
  PROVE  PreparationInv'
<1>1. /\ at[c] = "generate" /\ Behind(c) /\ frame[c] \in Frames
      /\ (c \in Pollers => c \notin Desks) /\ (c \notin Pollers => c \in Desks)
  BY PreparationAssumption DEF Callers, Generate, PreparationInv, PreparationTypeOK
<1>2. UNCHANGED <<posting, state, sponsorship, decided, year, aged, importing, overlapped, failures>>
  BY DEF Generate, jobVars, evidenceVars, history
<1>3. CASE Return(c)
  BY <1>1, <1>2, <1>3, ReturnKeeps DEF PreparationInv, PreparationTypeOK
<1>4. CASE /\ sponsorship \in EligibleSponsorship /\ Proceed(c, "write")
           /\ frame' = [frame EXCEPT ![c].verdict = sponsorship]
  <2> DEFINE f == [frame[c] EXCEPT !.verdict = sponsorship]
  <2>1. f \in Frames /\ f.verdict = sponsorship
    BY <1>1 DEF Frames, PreparationInv, PreparationTypeOK
  <2>2. frame' = [frame EXCEPT ![c] = f]
    BY <1>4
  <2> HIDE DEF f
  <2>3. frame'[c] = f
    BY <2>1, <2>2, <1>1, CallerCarries DEF PreparationInv
  <2>4. /\ PreparationTypeOK' /\ at'[c] = "write" /\ Evidence(frame'[c].verdict)
        /\ Behind(c)' => PreparationInv'
    BY <1>1, <1>2, <1>4, <2>1, <2>2, GoesOn DEF PreparationInv, PreparationTypeOK, Steps
  <2>5. Behind(c)'
    BY <1>1, <1>2, <1>4, <2>1, <2>3, <2>4 DEF Behind, Evidence
  <2> QED BY <2>4, <2>5
<1> QED BY <1>3, <1>4 DEF Generate

LEMMA WriteKeeps ==
  ASSUME PreparationInv, NEW c \in Callers, Write(c)
  PROVE  PreparationInv'
<1>1. FinalState(frame[c].verdict) \in {"REVIEW_REQUIRED", "READY_TO_APPLY"}
  BY DEF FinalState
<1>2. state' \in ApplicationState
  BY <1>1 DEF Write, ApplicationState
<1>3. Behind(c) /\ at[c] = "write"
  BY DEF Write, PreparationInv
<1>4. Fits(state')
  BY <1>3 DEF Write, FinalState, Fits, Behind, Evidence
<1> QED BY <1>2, <1>4, ReturnKeeps DEF Write, evidenceVars, history, PreparationInv, PreparationTypeOK

LEMMA RegenerateKeeps ==
  ASSUME PreparationInv, NEW d \in Desks, Regenerate(d)
  PROVE  PreparationInv'
<1>1. d \in Callers /\ d \notin Pollers
  BY PreparationAssumption DEF Callers
<1> QED BY <1>1, TakenUp DEF Regenerate, jobVars, evidenceVars, Steps

LEMMA RefreshKeeps ==
  ASSUME PreparationInv, NEW d \in Desks, Refresh(d)
  PROVE  PreparationInv'
<1>1. d \in Callers /\ d \notin Pollers
  BY PreparationAssumption DEF Callers
<1>2. /\ Proceed(d, "decide")
      /\ \E f \in Frames : /\ frame' = [frame EXCEPT ![d] = f]
                          /\ f.verdict # None /\ Evidence(f.verdict)
  BY <1>1, DecisionMade DEF Refresh
<1> QED BY <1>1, <1>2, TakenUp DEF Refresh, jobVars, Steps

LEMMA WriteSponsorshipKeeps ==
  ASSUME PreparationInv, NEW d \in Desks, WriteSponsorship(d)
  PROVE  PreparationInv'
<1>1. d \in Callers /\ at[d] = "refresh" /\ Behind(d) /\ frame[d] \in Frames
  BY DEF Callers, WriteSponsorship, PreparationInv, PreparationTypeOK
<1>2. frame[d].verdict \in SponsorshipStatus /\ Evidence(frame[d].verdict)
  BY <1>1 DEF Behind, Frames
<1> QED BY <1>1, <1>2, ReturnKeeps DEF WriteSponsorship, evidenceVars, history,
      PreparationInv, PreparationTypeOK

LEMMA FailKeeps ==
  ASSUME PreparationInv, NEW c \in Callers, Fail(c)
  PROVE  PreparationInv'
<1>1. failures' \in 0..MaxFailures
  BY PreparationAssumption DEF Fail, PreparationInv, PreparationTypeOK
<1> QED BY <1>1, ReturnKeeps DEF Fail, jobVars, evidenceVars, PreparationInv, PreparationTypeOK

\* What happens around the callers.
LEMMA AroundKeeps ==
  ASSUME PreparationInv, Import \/ Recompute \/ AbandonImport \/ NewYear \/ Age \/ UpdateState
  PROVE  PreparationInv'
<1>1. UNCHANGED <<posting, sponsorship, decided, callVars, overlapped>>
  BY DEF Import, Recompute, AbandonImport, NewYear, Age, UpdateState, jobVars, history
<1>2. state' = state \/ state' \in ManualTargets(state)
  BY DEF Import, Recompute, AbandonImport, NewYear, Age, UpdateState, jobVars
<1>3. year' \in FirstYear..LastYear /\ failures' \in 0..MaxFailures
      /\ aged' \in BOOLEAN /\ importing' \in BOOLEAN
  <2>1. year' = year \/ (year < LastYear /\ year' = year + 1)
    BY DEF Import, Recompute, AbandonImport, NewYear, Age, UpdateState, evidenceVars
  <2>2. failures' = failures \/ (failures < MaxFailures /\ failures' = failures + 1)
    BY DEF Import, Recompute, AbandonImport, NewYear, Age, UpdateState, history
  <2>3. aged' \in {aged, TRUE} /\ importing' \in {importing, TRUE, FALSE}
    BY DEF Import, Recompute, AbandonImport, NewYear, Age, UpdateState, evidenceVars
  <2>4. /\ year \in FirstYear..LastYear /\ failures \in 0..MaxFailures
        /\ aged \in BOOLEAN /\ importing \in BOOLEAN
    BY DEF PreparationInv, PreparationTypeOK
  <2>5. year' \in FirstYear..LastYear
    BY <2>1, <2>4, PreparationAssumption
  <2>6. failures' \in 0..MaxFailures
    BY <2>2, <2>4, PreparationAssumption
  <2>7. aged' \in BOOLEAN /\ importing' \in BOOLEAN
    BY <2>3, <2>4
  <2> QED BY <2>5, <2>6, <2>7
<1>4. PreparationTypeOK'
  BY <1>1, <1>2, <1>3 DEF callVars, PreparationInv, PreparationTypeOK, ManualTargets, ApplicationState
<1>5. /\ state = "DISCOVERED" => state' = "DISCOVERED"
      /\ state \in {"ANALYZED", "SKIPPED"} => state' \in {"ANALYZED", "SKIPPED"}
  BY <1>2 DEF ManualTargets
<1>6. \A c \in Callers : Behind(c)'
  BY <1>1, <1>5 DEF Behind, Evidence, callVars, PreparationInv
<1>7. Alone' /\ Evidence(sponsorship)' /\ Fits(state)'
  BY <1>1, <1>2 DEF Alone, Evidence, Fits, ManualTargets, callVars, PreparationInv
<1> QED BY <1>1, <1>4, <1>6, <1>7 DEF PreparationInv

LEMMA PreparationBegins == PreparationInit => PreparationInv
<1> SUFFICES ASSUME PreparationInit PROVE PreparationInv
  OBVIOUS
<1>1. None \notin SponsorshipStatus
  BY PolicyAssumption DEF SponsorshipStatus
<1>2. NoFrame \in Frames /\ NoFrame.verdict = None
  BY DEF NoFrame, Frames
<1>3. /\ at \in [Callers -> {"idle"} \cup Steps] /\ frame \in [Callers -> Frames]
      /\ \A c \in Callers : at[c] = "idle" /\ frame[c] = NoFrame
  BY <1>2 DEF PreparationInit
<1>4. year \in FirstYear..LastYear /\ failures \in 0..MaxFailures
  BY PreparationAssumption DEF PreparationInit
<1>5. PreparationTypeOK
  BY <1>3, <1>4 DEF PreparationInit, PreparationTypeOK, SponsorshipStatus
<1>6. \A c \in Callers : Behind(c)
  BY <1>1, <1>2, <1>3 DEF Behind, Evidence, SponsorshipStatus
<1>7. Evidence(sponsorship) /\ Alone
  BY <1>3, PreparationAssumption DEF PreparationInit, Evidence, Alone
<1>8. Fits(state)
  BY PreparationAssumption DEF PreparationInit, Fits
<1> QED BY <1>5, <1>6, <1>7, <1>8 DEF PreparationInv

THEOREM PreparationInductive == PreparationSpec => []PreparationInv
<1>1. PreparationInit => PreparationInv
  BY PreparationBegins
<1>2. PreparationInv /\ [PreparationNext]_preparationVars => PreparationInv'
  <2> SUFFICES ASSUME PreparationInv, [PreparationNext]_preparationVars PROVE PreparationInv'
    OBVIOUS
  <2>1. CASE UNCHANGED preparationVars
    <3>1. UNCHANGED <<posting, state, sponsorship, decided, year, aged, importing, at, frame,
                      overlapped, failures>>
      BY <2>1 DEF preparationVars, jobVars, evidenceVars, callVars, history
    <3> QED BY <3>1 DEF PreparationInv, PreparationTypeOK, Evidence, Alone, Behind, Fits
  <2>2. ASSUME NEW c \in Pollers, Poll(c) PROVE PreparationInv'
    BY <2>2, PollKeeps
  <2>3. ASSUME NEW c \in Pollers, PollerStep(c) PROVE PreparationInv'
    <3>1. c \in Callers
      BY DEF Callers
    <3> QED BY <2>3, <3>1, InsertKeeps, AnalyzeKeeps, DecideKeeps, WriteAnalysisKeeps,
          RereadKeeps, GenerateKeeps, WriteKeeps DEF PollerStep
  <2>4. ASSUME NEW d \in Desks, Regenerate(d) \/ Refresh(d) PROVE PreparationInv'
    BY <2>4, RegenerateKeeps, RefreshKeeps
  <2>5. ASSUME NEW d \in Desks, DeskStep(d) PROVE PreparationInv'
    <3>1. d \in Callers
      BY DEF Callers
    <3> QED BY <2>5, <3>1, DecideKeeps, WriteSponsorshipKeeps, GenerateKeeps, WriteKeeps
          DEF DeskStep
  <2>6. ASSUME NEW c \in Callers, Fail(c) PROVE PreparationInv'
    BY <2>6, FailKeeps
  <2>7. ASSUME Import \/ Recompute \/ AbandonImport \/ NewYear \/ Age \/ UpdateState
        PROVE  PreparationInv'
    BY <2>7, AroundKeeps
  <2> QED BY <2>1, <2>2, <2>3, <2>4, <2>5, <2>6, <2>7 DEF PreparationNext
<1> QED BY <1>1, <1>2, PTL DEF PreparationSpec

\* Type correctness of the preparation of a posting.
THEOREM PreparationTypes == PreparationSpec => []PreparationTypeOK
<1>1. PreparationInv => PreparationTypeOK
  BY DEF PreparationInv
<1> QED BY <1>1, PreparationInductive, PTL

\* Only the last step of a call, or a person's move on the board, makes a job one whose
\* documents are there; every other step that gives it a state gives it another.
LEMMA OnlyWritePackages ==
  ASSUME PreparationInv, PreparationNext, state' # state,
         state' \in {"READY_TO_APPLY", "REVIEW_REQUIRED"}
  PROVE  (\E c \in Callers : Write(c)) \/ (MovedByHand /\ UNCHANGED posting)
<1>1. \A c \in Pollers \cup Desks : c \in Callers
  BY DEF Callers
<1>2. \A c \in Callers : ~(Insert(c) \/ Analyze(c) \/ WriteAnalysis(c))
  BY DEF Insert, Analyze, WriteAnalysis
<1>3. \A c \in Callers : ~(Poll(c) \/ Decide(c) \/ Reread(c) \/ Generate(c) \/ Regenerate(c)
                           \/ Refresh(c) \/ WriteSponsorship(c) \/ Fail(c))
  BY DEF Poll, Decide, Reread, Generate, Regenerate, Refresh, WriteSponsorship, Fail, jobVars
<1>4. ~(Import \/ Recompute \/ AbandonImport \/ NewYear \/ Age)
  BY DEF Import, Recompute, AbandonImport, NewYear, Age, jobVars
<1>5. UpdateState => MovedByHand /\ UNCHANGED posting
  BY DEF UpdateState, ManualTargets, MovedByHand, callVars
<1> QED BY <1>1, <1>2, <1>3, <1>4, <1>5 DEF PreparationNext, PollerStep, DeskStep

\* A job gets its documents on evidence: READY_TO_APPLY only for a posting that promises
\* and nowhere refuses, or by a person's move of one that does not just refuse, and,
\* with nobody else at work on the row, only while the row says the same and the
\* executor's gates will admit it.
THEOREM DocumentsOnEvidence == PreparationSpec => PackagedOnEvidence
<1> DEFINE Packaged ==
      /\ state' = "READY_TO_APPLY" /\ ~MovedByHand => Promises(posting) /\ ~Refuses(posting)
      /\ Promises(posting) \/ ~Refuses(posting)
      /\ ~overlapped' /\ ~MovedByHand =>
           /\ sponsorship =
                IF state' = "READY_TO_APPLY" THEN "CONFIRMED_SPONSOR" ELSE "LIKELY_SPONSOR"
           /\ \/ ExecutorAdmits(posting, sponsorship)
              \/ EmploymentType(posting) \notin {"FULL_TIME", "UNKNOWN"}
              \/ \E d \in Desks : at[d] = "write"
<1>1. ASSUME PreparationInv, PreparationNext, state' # state,
             state' \in {"READY_TO_APPLY", "REVIEW_REQUIRED"}
      PROVE  Packaged
  <2>0. CASE MovedByHand
    BY <1>1, <2>0 DEF MovedByHand, PreparationInv, Fits
  <2>a. CASE ~MovedByHand
    <3>1. PICK c \in Callers : Write(c)
      BY <1>1, <2>a, OnlyWritePackages
    <3>2. /\ at[c] = "write" /\ Behind(c) /\ UNCHANGED overlapped
          /\ state' = FinalState(frame[c].verdict)
      BY <1>1, <3>1 DEF Write, history, PreparationInv
    <3>3. \/ frame[c].verdict = "CONFIRMED_SPONSOR" /\ state' = "READY_TO_APPLY"
          \/ frame[c].verdict = "LIKELY_SPONSOR" /\ state' = "REVIEW_REQUIRED"
      BY <3>2 DEF Behind, EligibleSponsorship, FinalState
    <3>4. ~overlapped' => sponsorship = frame[c].verdict
      BY <3>2 DEF Behind
    <3>5. c \in Pollers => IsUsLocation(posting) /\ IsTargetRole(posting) /\ Gates(posting)
      BY <3>2 DEF Behind
    <3>6. c \in Desks => \E d \in Desks : at[d] = "write"
      BY <3>2
    <3>7. (sponsorship = "CONFIRMED_SPONSOR" \/ sponsorship = "LIKELY_SPONSOR") /\ c \in Pollers =>
            \/ ExecutorAdmits(posting, sponsorship)
            \/ EmploymentType(posting) \notin {"FULL_TIME", "UNKNOWN"}
      BY <3>5 DEF ExecutorAdmits
    <3>8. c \in Pollers \/ c \in Desks
      BY DEF Callers
    <3> QED BY <3>2, <3>3, <3>4, <3>6, <3>7, <3>8 DEF Behind, Evidence
  <2> QED BY <2>0, <2>a
<1>2. PreparationInv /\ [PreparationNext]_preparationVars =>
        [state' # state /\ state' \in {"READY_TO_APPLY", "REVIEW_REQUIRED"} =>
           Packaged]_preparationVars
  BY <1>1
<1> QED BY <1>2, PreparationInductive, PTL DEF PreparationSpec, PackagedOnEvidence

\* A job that went on to an application is left alone by discovery, unless another call
\* was at work on its row too; a person may have its documents made again.
THEOREM ApplicationsAreKept == PreparationSpec => AppliedKept
<1>1. ASSUME PreparationInv, PreparationNext, state = "APPLIED", state' # state
      PROVE  overlapped \/ \E d \in Desks : at[d] = "write"
  <2> SUFFICES ASSUME ~overlapped, \A d \in Desks : at[d] # "write" PROVE FALSE
    OBVIOUS
  <2>1. \A c \in Pollers : at[c] \notin {"analyze", "write analysis", "write"}
    BY <1>1 DEF PreparationInv, Behind, Callers
  <2>2. \A c \in Pollers : ~(Analyze(c) \/ WriteAnalysis(c) \/ Write(c))
    BY <2>1 DEF Analyze, WriteAnalysis, Write
  <2>3. \A d \in Desks : ~Write(d)
    BY DEF Write
  <2>4. \A c \in Callers : ~Insert(c)
    BY <1>1, PreparationAssumption DEF Insert
  <2>5. \A c \in Callers : ~(Poll(c) \/ Decide(c) \/ Reread(c) \/ Generate(c) \/ Regenerate(c)
                             \/ Refresh(c) \/ WriteSponsorship(c) \/ Fail(c))
    BY <1>1 DEF Poll, Decide, Reread, Generate, Regenerate, Refresh, WriteSponsorship, Fail, jobVars
  <2>6. ~(Import \/ Recompute \/ AbandonImport \/ NewYear \/ Age \/ UpdateState)
    BY <1>1 DEF Import, Recompute, AbandonImport, NewYear, Age, UpdateState, ManualTargets, jobVars
  <2> QED BY <1>1, <2>2, <2>3, <2>4, <2>5, <2>6 DEF PreparationNext, PollerStep, DeskStep, Callers
<1>2. PreparationInv /\ [PreparationNext]_preparationVars =>
        [state = "APPLIED" /\ state' # state =>
           overlapped \/ \E d \in Desks : at[d] = "write"]_preparationVars
  BY <1>1
<1> QED BY <1>2, PreparationInductive, PTL DEF PreparationSpec, AppliedKept

=============================================================================

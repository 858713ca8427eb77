---------------------------- MODULE DiscoveryFleet ----------------------------
(***************************************************************************)
(* The poll queue behind the discovery circuit (workers/circuit.py): what  *)
(* _process_poll_item() asks of the provider's circuit before an attempt,  *)
(* what the attempt reports to it on the way, and what it gives back.      *)
(* PollQueue says what an attempt does to its portal and takes the circuit *)
(* as a refusal that may happen at any time; here it is a row of its own,  *)
(* and every step of a worker is one of PollQueue's or none.               *)
(***************************************************************************)
EXTENDS PollQueue, ProviderCircuit

VARIABLES
  circuit,    \* the provider's row of provider_circuit_state
  gate,       \* where each item is with the circuit
  stranded    \* an item was cut off between admission and its last report

fleetVars == <<circuit, gate, stranded>>
allVars == <<vars, fleetVars>>

\* The item has taken an inflight slot and not given it back.
Inside == {"probing", "fetching", "reported", "leaving"}
Gates == {"out", "admitted", "refused"} \cup Inside

Pass(x, to) == gate' = [gate EXCEPT ![x] = to]

-----------------------------------------------------------------------------
(* Before the attempt.                                                     *)

\* The item has been claimed and is about to ask.
Asking(w) == gate[w] = "out" /\ pc[w] = "claimed"

\* may_attempt() lets it through, as the one probe unless the circuit is CLOSED.
MayAttempt(w) ==
  /\ Asking(w) /\ Admits(circuit)
  /\ circuit' = Admitted(circuit)
  /\ Pass(w, "admitted")
  /\ UNCHANGED <<vars, stranded>>

\* It does not: the lease is kept for a while.
TurnedAway(w) ==
  /\ Asking(w) /\ ~Admits(circuit)
  /\ CooldownSkip(w)
  /\ UNCHANGED fleetVars

TakeSlot(w) ==
  /\ gate[w] = "admitted" /\ HasSlot(circuit)
  /\ circuit' = AcquireInflightSlot(circuit)
  /\ Pass(w, "probing")
  /\ Begin(w)
  /\ UNCHANGED stranded

NoSlot(w) ==
  /\ gate[w] = "admitted" /\ ~HasSlot(circuit)
  /\ Pass(w, "refused")
  /\ UNCHANGED <<vars, circuit, stranded>>

\* No slot: the probe is given back, whoever holds it, and the lease kept.
GiveUp(w) ==
  /\ gate[w] = "refused"
  /\ circuit' = ReleaseHalfOpenProbe(circuit)
  /\ Pass(w, "out")
  /\ CooldownSkip(w)
  /\ UNCHANGED stranded

-----------------------------------------------------------------------------
(* The attempt, and what it reports.                                       *)

ProbePortal(w) == gate[w] = "probing" /\ Probe(w) /\ UNCHANGED fleetVars

\* record_result(success): as soon as the structural probe answers.
RecordAnswer(w) ==
  /\ gate[w] = "probing" /\ pc[w] = "clear"
  /\ circuit' = RecordResult(circuit, TRUE)
  /\ Pass(w, "fetching")
  /\ UNCHANGED <<vars, stranded>>

\* What follows an answered probe: the fetch, and the record of a poll that worked.
FetchPortal(w) ==
  /\ gate[w] = "fetching"
  /\ Clear(w) \/ Fetch(w) \/ (pc[w] = "mark" /\ MarkPollResult(w))
  /\ UNCHANGED fleetVars

\* MUTANT: only a fetch that fails is reported, as a success is at the probe.
RecordFetchFailure(w) ==
  /\ gate[w] \in {"probing", "fetching"} /\ pc[w] \in {"markFailed", "markBroken"}
  /\ circuit' = IF gate[w] = "fetching" THEN RecordResult(circuit, FALSE) ELSE circuit
  /\ Pass(w, "reported")
  /\ UNCHANGED <<vars, stranded>>

\* record_result(failure), of the probe or of the fetch: the second result of
\* one attempt when its probe had answered.
RecordFailure(w) ==
  /\ gate[w] \in {"probing", "fetching"} /\ pc[w] \in {"markFailed", "markBroken"}
  /\ circuit' = RecordResult(circuit, FALSE)
  /\ Pass(w, "reported")
  /\ UNCHANGED <<vars, stranded>>

\* Schema drift of too many tenants is a failure too, once the poll is on record.
RecordDrift(w) ==
  /\ gate[w] = "fetching" /\ pc[w] = "ack"
  /\ circuit' = RecordResult(circuit, FALSE)
  /\ Pass(w, "reported")
  /\ UNCHANGED <<vars, stranded>>

\* The portal's own bookkeeping of the failure.
CountPortal(w) ==
  /\ gate[w] = "reported"
  /\ \/ pc[w] # "mark" /\ MarkPollResult(w)
     \/ ReadFailures(w) \/ CountFailure(w) \/ UpsertDeadLetter(w) \/ Disable(w)
  /\ UNCHANGED fleetVars

AckPortal(w) ==
  /\ gate[w] \in {"fetching", "reported"}
  /\ Ack(w)
  /\ Pass(w, "leaving")
  /\ UNCHANGED <<circuit, stranded>>

\* finally: release_inflight_slot().
Leave(w) ==
  /\ gate[w] = "leaving"
  /\ circuit' = ReleaseInflightSlot(circuit)
  /\ Pass(w, "out")
  /\ UNCHANGED <<vars, stranded>>

-----------------------------------------------------------------------------
(* Crashes, time and administrators.                                       *)

\* A poll worker, a cycle or an operator dies; a slot and a probe stay taken.
FleetCrash(x) ==
  /\ Crash(x)
  /\ IF x \in Workers
     THEN Pass(x, "out") /\ stranded' = (stranded \/ gate[x] # "out")
     ELSE UNCHANGED <<gate, stranded>>
  /\ UNCHANGED circuit

\* So does a worker between the release of its lease and that of its slot; the
\* first time only.
CrashLeaving(w) ==
  /\ ~stranded
  /\ gate[w] = "leaving"
  /\ Pass(w, "out")
  /\ stranded' = TRUE
  /\ UNCHANGED <<vars, circuit>>

\* CIRCUIT_BREAKER_COOLDOWN_SECONDS have passed since opened_at.
CooldownElapses ==
  /\ circuit.state = "OPEN" /\ ~circuit.cooled
  /\ circuit' = [circuit EXCEPT !.cooled = TRUE]
  /\ UNCHANGED <<vars, gate, stranded>>

\* POST /fleet/circuit/{provider}/close and .../force-probe
AdminCloses == circuit' = ForceClose(circuit) /\ UNCHANGED <<vars, gate, stranded>>
AdminProbes == circuit' = ForceProbe(circuit) /\ UNCHANGED <<vars, gate, stranded>>

-----------------------------------------------------------------------------
FleetInit ==
  /\ Init
  /\ circuit = NewRow
  /\ gate = [w \in Workers |-> "out"]
  /\ stranded = FALSE

\* Claiming: as in PollQueue, by a worker that is done with its last item.
ClaimPortal(w) ==
  /\ gate[w] = "out"
  /\ Claim(w)
  /\ UNCHANGED fleetVars

SelectPortal(w, p) ==
  /\ gate[w] = "out"
  /\ Select(w, p)
  /\ UNCHANGED fleetVars

\* What a worker does with the portal it claimed.
Work(w) ==
  \/ MayAttempt(w) \/ TurnedAway(w) \/ TakeSlot(w) \/ NoSlot(w) \/ GiveUp(w)
  \/ ProbePortal(w) \/ RecordAnswer(w) \/ FetchPortal(w) \/ RecordFailure(w)
  \/ RecordDrift(w) \/ CountPortal(w) \/ AckPortal(w) \/ Leave(w)

FleetNext ==
  \/ \E w \in Workers :
       \/ \E p \in Portals : SelectPortal(w, p)
       \/ ClaimPortal(w) \/ Work(w) \/ CrashLeaving(w)
  \/ \E c \in Cycles : Cycle(c) /\ UNCHANGED fleetVars
  \/ \E o \in Operators : Operator(o) /\ UNCHANGED fleetVars
  \/ \E x \in Procs : FleetCrash(x)
  \/ \E p \in Portals :
       (SyncPortal(p) \/ LeaseExpires(p) \/ ComesDue(p)) /\ UNCHANGED fleetVars
  \/ CooldownElapses \/ AdminCloses \/ AdminProbes

FleetSpec == FleetInit /\ [][FleetNext]_allVars

\* A live worker keeps claiming, one portal as well as another, and finishes what
\* it claimed; whoever began a requeue or a cycle ends it; time passes.  Nothing is
\* assumed of what the circuit answers.
FleetFairness ==
  /\ \A w \in Workers : WF_allVars(ClaimPortal(w) \/ Work(w))
  /\ \A c \in Cycles : WF_allVars((FetchJobs(c) \/ DiscoverFromRegistry(c)) /\ UNCHANGED fleetVars)
  /\ \A o \in Operators :
       WF_allVars((ResetFailureCounters(o) \/ ResolveDeadLetter(o)) /\ UNCHANGED fleetVars)
  /\ \A p \in Portals :
       /\ SF_allVars(\E w \in Workers : SelectPortal(w, p))
       /\ WF_allVars(LeaseExpires(p) /\ UNCHANGED fleetVars)
       /\ WF_allVars(ComesDue(p) /\ UNCHANGED fleetVars)
  /\ WF_allVars(CooldownElapses)

FairFleet == FleetSpec /\ FleetFairness

-----------------------------------------------------------------------------
\* Every variable has its type.
FleetTypeOK ==
  /\ TypeOK
  /\ circuit \in Rows
  /\ gate \in [Workers -> Gates]
  /\ stranded \in BOOLEAN

\* A worker at another portal of the provider goes through the circuit p waits at.
Competing(p) == \E w \in Workers : portal[w] # p /\ gate[w] # "out"

\* A due portal gets polled, whatever the provider answers and whoever crashes:
\* the circuit never shuts it out for good unless a worker died inside, or the
\* other portals of the provider for ever take the probe from it.
DuePortalsPolled ==
  \A p \in Portals :
    []~stranded /\ <>[]~Competing(p) => (enabled[p] /\ due[p] ~> ~due[p] \/ ~enabled[p])

\* The same wherever a worker died: no crash keeps a provider from being polled.
NeverShutOut ==
  \A p \in Portals : <>[]~Competing(p) => (enabled[p] /\ due[p] ~> ~due[p] \/ ~enabled[p])
=============================================================================

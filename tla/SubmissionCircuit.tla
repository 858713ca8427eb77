-------------------------- MODULE SubmissionCircuit --------------------------
(***************************************************************************)
(* How the application workers use the submission circuit of one provider  *)
(* (applications/worker.py, applications/circuit.py): an item is admitted, *)
(* takes a slot, is executed, reports what became of it, and leaves.  A    *)
(* refused item gets a lease cooldown, which does not concern the circuit. *)
(***************************************************************************)
EXTENDS ProviderCircuit, FiniteSets

CONSTANTS
  Submitters,      \* worker threads, each with at most one item at a time
  MaxExceptions,   \* bound on unexpected exceptions out of process_execution()
  MaxCrashes       \* bound on workers that die in the middle of an item

ASSUME WorkersAssumption ==
  IsFiniteSet(Submitters) /\ MaxExceptions \in Nat /\ MaxCrashes \in Nat

VARIABLES
  circuit,      \* the row of application_provider_circuit_state
  at,           \* where each worker is with its item
  probes,       \* workers that were let through as a HALF_OPEN probe
  streak,       \* submission failures reported in a row
  exceptions,   \* exceptions so far
  crashes       \* crashes so far

circuitVars == <<circuit, at, probes, streak, exceptions, crashes>>

\* The worker has taken an inflight slot and not given it back.
Holding == {"executing", "succeeded", "failed", "untried", "leaving"}
Steps == {"idle", "admitted", "refused"} \cup Holding

Holders == {w \in Submitters : at[w] \in Holding}

Proceed(w, step) == at' = [at EXCEPT ![w] = step]

-----------------------------------------------------------------------------
\* may_attempt() lets the item of w through, as a probe unless CLOSED.
MayAttempt(w) ==
  /\ at[w] = "idle"
  /\ Admits(circuit)
  /\ circuit' = Admitted(circuit)
  /\ Proceed(w, "admitted")
  /\ probes' = IF circuit.state = "CLOSED" THEN probes ELSE probes \cup {w}
  /\ UNCHANGED <<streak, exceptions, crashes>>

TakeSlot(w) ==
  /\ at[w] = "admitted"
  /\ \/ HasSlot(circuit) /\ circuit' = AcquireInflightSlot(circuit) /\ Proceed(w, "executing")
     \/ ~HasSlot(circuit) /\ UNCHANGED circuit /\ Proceed(w, "refused")
  /\ UNCHANGED <<probes, streak, exceptions, crashes>>

\* MUTANT: the finally clause covers the refused item too.
GiveUpReleasingSlot(w) ==
  /\ at[w] = "refused"
  /\ circuit' = ReleaseInflightSlot(ReleaseHalfOpenProbe(circuit))
  /\ Proceed(w, "idle")
  /\ probes' = probes \ {w}
  /\ UNCHANGED <<streak, exceptions, crashes>>

\* No slot: the probe is given back, whoever holds it.
GiveUp(w) ==
  /\ at[w] = "refused"
  /\ circuit' = ReleaseHalfOpenProbe(circuit)
  /\ Proceed(w, "idle")
  /\ probes' = probes \ {w}
  /\ UNCHANGED <<streak, exceptions, crashes>>

\* process_execution() returned: with a status that counts as a submission that
\* succeeded or failed, or with one that says submit() was never reached.
Execute(w) ==
  /\ at[w] = "executing"
  /\ \E outcome \in {"succeeded", "failed", "untried"} : Proceed(w, outcome)
  /\ UNCHANGED <<circuit, probes, streak, exceptions, crashes>>

\* It raised: the attempt is recorded and the lease released, and that is all.
Raise(w) ==
  /\ exceptions < MaxExceptions
  /\ at[w] = "executing"
  /\ Proceed(w, "leaving")
  /\ exceptions' = exceptions + 1
  /\ UNCHANGED <<circuit, probes, streak, crashes>>

\* MUTANT: a submission that was never tried keeps the probe.
ReportKeepingProbe(w) ==
  /\ \/ /\ at[w] \in {"succeeded", "failed"}
        /\ circuit' = RecordResult(circuit, at[w] = "succeeded")
        /\ streak' = IF at[w] = "succeeded" THEN 0 ELSE OneMore(streak)
     \/ at[w] = "untried" /\ UNCHANGED <<circuit, streak>>
  /\ Proceed(w, "leaving")
  /\ probes' = probes \ {w}
  /\ UNCHANGED <<exceptions, crashes>>

\* The result of a submission is recorded; one never tried frees the probe.
Report(w) ==
  /\ \/ /\ at[w] \in {"succeeded", "failed"}
        /\ circuit' = RecordResult(circuit, at[w] = "succeeded")
        /\ streak' = IF at[w] = "succeeded" THEN 0 ELSE OneMore(streak)
     \/ at[w] = "untried" /\ circuit' = ReleaseHalfOpenProbe(circuit) /\ UNCHANGED streak
  /\ Proceed(w, "leaving")
  /\ probes' = probes \ {w}
  /\ UNCHANGED <<exceptions, crashes>>

\* finally: the slot is given back.
Leave(w) ==
  /\ at[w] = "leaving"
  /\ circuit' = ReleaseInflightSlot(circuit)
  /\ Proceed(w, "idle")
  /\ probes' = probes \ {w}
  /\ UNCHANGED <<streak, exceptions, crashes>>

\* The worker dies; another one takes its place.
Die(w) ==
  /\ crashes < MaxCrashes
  /\ at[w] # "idle"
  /\ Proceed(w, "idle")
  /\ probes' = probes \ {w}
  /\ crashes' = crashes + 1
  /\ UNCHANGED <<circuit, streak, exceptions>>

-----------------------------------------------------------------------------
\* APPLICATION_CIRCUIT_BREAKER_COOLDOWN_SECONDS have passed since opened_at.
CooldownElapses ==
  /\ circuit.state = "OPEN" /\ ~circuit.cooled
  /\ circuit' = [circuit EXCEPT !.cooled = TRUE]
  /\ UNCHANGED <<at, probes, streak, exceptions, crashes>>

\* POST /applications/circuit/{provider}/close
AdminCloses ==
  /\ circuit' = ForceClose(circuit)
  /\ streak' = 0
  /\ UNCHANGED <<at, probes, exceptions, crashes>>

\* POST /applications/circuit/{provider}/force-probe
AdminProbes ==
  /\ circuit' = ForceProbe(circuit)
  /\ UNCHANGED <<at, probes, streak, exceptions, crashes>>

CircuitInit ==
  /\ circuit = NewRow
  /\ at = [w \in Submitters |-> "idle"]
  /\ probes = {}
  /\ streak = 0
  /\ exceptions = 0
  /\ crashes = 0

\* What a worker does with an item it was let through with.
Work(w) == TakeSlot(w) \/ GiveUp(w) \/ Execute(w) \/ Report(w) \/ Leave(w)

CircuitNext ==
  \/ \E w \in Submitters : MayAttempt(w) \/ Work(w) \/ Raise(w) \/ Die(w)
  \/ CooldownElapses \/ AdminCloses \/ AdminProbes

CircuitSpec == CircuitInit /\ [][CircuitNext]_circuitVars

\* A live worker finishes its item, and time passes.
Fairness == WF_circuitVars(CooldownElapses) /\ \A w \in Submitters : WF_circuitVars(Work(w))

FairCircuit == CircuitSpec /\ Fairness

-----------------------------------------------------------------------------
\* Every variable has its type.
CircuitTypeOK ==
  /\ circuit \in Rows
  /\ at \in [Submitters -> Steps]
  /\ probes \subseteq Submitters
  /\ streak \in 0..TripAfter
  /\ exceptions \in 0..MaxExceptions
  /\ crashes \in 0..MaxCrashes

\* Never more submissions to the provider at once than it has slots, although a
\* slot may be counted that a dead worker took with it.
SlotsRespected == Cardinality(Holders) <= circuit.slots /\ circuit.slots <= SlotLimit

\* A provider whose last TripAfter submissions all failed is paused: the next item
\* waits for a cooldown, a probe or an operator.
FailingProviderPaused == streak = TripAfter => circuit.state # "CLOSED"

\* At most one attempt at a time is let through as a HALF_OPEN probe.
OneProbe == Cardinality(probes) <= 1

\* The provider is never disabled for good: always again the circuit would let an
\* item through, and always again a slot is free.
NeverDisabled == []<>Admits(circuit) /\ []<>HasSlot(circuit)

\* It heals by itself as long as no worker dies or raises in the middle of an
\* item, with cooldowns alone and whatever becomes of the submissions.
SelfHeals == [](exceptions = 0 /\ crashes = 0) => NeverDisabled
=============================================================================

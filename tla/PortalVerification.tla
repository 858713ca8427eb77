------------------------- MODULE PortalVerification -------------------------
(***************************************************************************)
(* The life of one career portal under verification: the verification      *)
(* queue and its leases (workers/leasing.py, workers/queue.py), a worker's *)
(* attempt (workers/runner.py), the transitions of the portal's status     *)
(* (registry/lifecycle.py), its mirror in the table that is polled         *)
(* (registry/sync.py), and its dead letter (workers/dead_letter.py).       *)
(*                                                                         *)
(* Worker threads take the portal from the queue under a lease.  Desks --  *)
(* the dashboard, the command line, an acquisition batch -- verify,        *)
(* enable, disable or quarantine it without one.  Each step is one         *)
(* database transaction, or the probe of the provider; what it says is an  *)
(* input.  Portals are independent of each other.                          *)
(***************************************************************************)
EXTENDS Naturals, FiniteSets

CONSTANTS
  Workers,        \* worker threads
  Desks,          \* callers that take no lease
  Slots,          \* PROVIDER_CONCURRENCY_DEFAULT
  Threshold,      \* REGISTRY_STALE_AFTER_PERMANENT_FAILURES
  MaxRequests,    \* bound on what the desks begin
  MaxFaults,      \* bound on exceptions, crashes and attempts that outlast their lease
  None            \* no holder, no result

ASSUME VerificationAssumption ==
  /\ Workers \cap Desks = {} /\ {None, "yes", "no"} \cap (Workers \cup Desks) = {}
  /\ Threshold \in Nat \ {0} /\ MaxRequests \in Nat /\ MaxFaults \in Nat
  /\ Slots \in Nat \ {0}

VARIABLES
  portal,     \* row of registry_portals
  mirror,     \* row of company_registry: none, enabled ("on") or disabled ("off")
  letter,     \* an open dead letter of the portal
  holder,     \* whose attempt verify_lease_attempt_id is
  live,       \* verify_lease_expires_at is in the future
  provider,   \* its circuit row: inflight slots taken, and whether a dead or failed
              \* worker still has the half-open probe
  pc,         \* per caller: where it is
  result,     \* per caller: the VerificationResult it applies
  seen,       \* per caller: the portal row as it last read it, or None
  confirmed,  \* history: a probe succeeded
  evidence,   \* history: failed probes since a success nobody interfered with
  doubted,    \* history: another company answered, or a human quarantined the portal
  crossed,    \* history: "yes" after a row was written between another's read and
              \* write of it, or a caller died between a status and its mirror; the
              \* caller whose sync is healing that; or "no"
  requests,   \* requests so far
  faults      \* exceptions, crashes and late attempts so far

lease == <<holder, live>>
rows  == <<portal, mirror, letter>>
ghost == <<confirmed, evidence, doubted, crossed>>
vars  == <<rows, lease, provider, pc, result, seen, ghost, requests, faults>>

Callers == Workers \cup Desks

\* PortalStatus; CANDIDATE stands for DISCOVERED too, which differs in no guard.
\* DEGRADED and DISABLED are written by no code path.
PortalStatus == {"CANDIDATE", "VERIFIED", "ACTIVE", "STALE", "QUARANTINED"}
Portals ==
  [status : PortalStatus, enabled : BOOLEAN,
   failures : 0..Threshold,     \* consecutive_permanent_failures, counted no further
   linked : BOOLEAN]            \* registry_entry_id is set

ProviderRows == [inflight : 0..Slots, probeLost : BOOLEAN]

VerificationResult == {"VERIFIED", "AMBIGUOUS", "UNSUPPORTED", "FAILED", "TEMPORARY_FAILURE"}
Pollable == {"VERIFIED", "ACTIVE"}
Regressed == {"STALE", "QUARANTINED"}
Settled == {"VERIFIED", "ACTIVE", "QUARANTINED"}   \* _TERMINAL_VERIFICATION_STATES

\* Between a read of the portal and the writes that rely on it ...
Relying == {"apply", "mirrorOn", "activate", "mirrorOff"}
\* ... and between a change of its status and that of its mirror.
Syncing == {"sync", "mirrorOn", "activate", "mirrorOff"}
Steps == Relying \cup Syncing \cup
  {"idle", "selected", "claimed", "probe", "after", "letter", "disable",
   "finish", "reset", "resolve"}

More(n) == IF n < Threshold THEN n + 1 ELSE n
Goto(c, step) == pc' = [pc EXCEPT ![c] = step]
\* A call ends, and with it what it knew.
Return(c) ==
  /\ Goto(c, "idle")
  /\ result' = [result EXCEPT ![c] = None]
  /\ seen' = [seen EXCEPT ![c] = None]
Alone(c) == \A d \in Callers \ {c} : pc[d] \in {"idle", "selected", "claimed", "probe"}
\* A write to the portal crosses whoever relies on an earlier read of it.
Cross(c) ==
  crossed' = IF \E d \in Callers \ {c} : pc[d] \in Relying THEN "yes" ELSE crossed
\* A sync that writes the mirror with nobody in between heals what a race left.
Heal(c) == IF crossed = c THEN "no" ELSE crossed
Untouched == UNCHANGED <<confirmed, evidence, doubted>>

-----------------------------------------------------------------------------
(* The queue. *)

\* MUTANT: a lease that has run out is still a lease.
DueUnowned == portal.enabled /\ portal.status = "CANDIDATE" /\ holder = None

Due == portal.enabled /\ portal.status = "CANDIDATE" /\ ~live

\* claim_verification_batch(): the SELECT ...
Select(w) ==
  /\ pc[w] = "idle" /\ Due
  /\ Goto(w, "selected")
  /\ UNCHANGED <<rows, lease, result, seen, ghost, provider, faults>>

\* MUTANT: the UPDATE trusts the SELECT about the lease.
MayTakeStale == portal.enabled

\* ... and the condition of the UPDATE, which does not ask for the status again.
MayTake == portal.enabled /\ ~live

Take(w) ==
  /\ pc[w] = "selected"
  /\ IF MayTake THEN holder' = w /\ live' = TRUE /\ Goto(w, "claimed")
     ELSE Goto(w, "idle") /\ UNCHANGED lease
  /\ UNCHANGED <<rows, result, seen, ghost, provider, faults>>

\* extend_verification_lease() and release_verification_lease(): the attempt's own.
Extend(w) == holder' = holder /\ live' = (live \/ holder = w)
Free(w) == IF holder = w THEN holder' = None /\ live' = FALSE ELSE UNCHANGED lease

\* may_attempt() and acquire_inflight_slot(): no worker passes the gate while the
\* slots are taken or the half-open probe is out.
Enter(w) ==
  /\ pc[w] = "claimed"
  /\ ~provider.probeLost /\ provider.inflight < Slots
  /\ provider' = [provider EXCEPT !.inflight = @ + 1]
  /\ Goto(w, "probe")
  /\ UNCHANGED <<rows, lease, result, seen, ghost, faults>>

\* release_inflight_slot(), by a worker that has passed the gate.
ReturnSlot ==
  provider' = [provider EXCEPT !.inflight = IF @ = 0 THEN 0 ELSE @ - 1]

\* The circuit is open or the provider has no slot: _cooldown_skip().
Refuse(w) ==
  /\ pc[w] = "claimed"
  /\ Extend(w)
  /\ Goto(w, "idle")
  /\ UNCHANGED <<rows, result, seen, ghost, provider, faults>>

-----------------------------------------------------------------------------
(* One verification, by a worker or a desk. *)

\* verify_portal(), a worker's record_result(), which takes the half-open probe back
\* whoever has it, and then the read of apply_verification_outcome(): between them
\* the caller touches nothing that is shared.
Probe(c) ==
  /\ pc[c] = "probe"
  /\ provider' = IF c \in Workers THEN [provider EXCEPT !.probeLost = FALSE] ELSE provider
  /\ seen' = [seen EXCEPT ![c] = portal]
  /\ \E r \in VerificationResult :
       /\ result' = [result EXCEPT ![c] = r]
       /\ confirmed' = (confirmed \/ r = "VERIFIED")
       /\ evidence' = IF r = "FAILED" THEN More(evidence) ELSE evidence
       /\ doubted' = (doubted \/ r = "AMBIGUOUS")
  /\ Goto(c, "apply")
  /\ UNCHANGED <<rows, lease, crossed, faults>>

\* The status a result leads to.  QUARANTINED is left by none.
NextStatus(p, r, failures) ==
  CASE r = "VERIFIED" /\ p.status \in {"CANDIDATE", "STALE"} -> "VERIFIED"
    [] r = "AMBIGUOUS" -> "QUARANTINED"
    [] r = "FAILED" /\ failures >= Threshold /\ p.status \in Pollable -> "STALE"
    [] r = "FAILED" /\ failures >= Threshold /\ p.status = "CANDIDATE" -> "QUARANTINED"
    [] OTHER -> p.status

\* MUTANT: a success does not reset the count.
NextFailuresKept(p, r) == IF r = "FAILED" THEN More(p.failures) ELSE p.failures

NextFailures(p, r) ==
  CASE r = "VERIFIED" -> 0
    [] r = "FAILED" -> More(p.failures)
    [] OTHER -> p.failures

\* apply_verification_outcome() writes the fields that change: the others are left as they are now.
ApplyOutcome(c) ==
  LET p == seen[c]
      r == result[c]
      failures == NextFailures(p, r)
      status == NextStatus(p, r, failures)
  IN
  /\ pc[c] = "apply"
  /\ portal' = [portal EXCEPT
       !.status = IF status # p.status \/ r = "AMBIGUOUS" THEN status ELSE @,
       !.failures = IF r \in {"VERIFIED", "FAILED"} THEN failures ELSE @]
  /\ evidence' = IF r = "VERIFIED" /\ Alone(c) THEN 0 ELSE evidence
  /\ Cross(c)
  /\ Goto(c, "sync")
  /\ seen' = [seen EXCEPT ![c] = None]
  /\ result' = [result EXCEPT ![c] = IF @ = "FAILED" THEN @ ELSE None]
  /\ UNCHANGED <<mirror, letter, lease, confirmed, doubted, provider, faults>>

-----------------------------------------------------------------------------
(* sync_portal_to_operational_registry(). *)

\* MUTANT: a disabled portal is a reason for nothing.
BranchEnabled(p) ==
  CASE p.status \in Pollable /\ p.enabled -> "mirrorOn"
    [] p.status \in Regressed /\ p.linked -> "mirrorOff"
    [] OTHER -> "after"

\* Where what it read leads.
Branch(p) ==
  CASE p.status \in Pollable /\ p.enabled -> "mirrorOn"
    [] (p.status \in Regressed \/ ~p.enabled) /\ p.linked -> "mirrorOff"
    [] OTHER -> "after"

Sync(c) ==
  /\ pc[c] = "sync"
  /\ Goto(c, Branch(portal))
  /\ crossed' = IF crossed = "yes" /\ Alone(c) /\ Branch(portal) # "after" THEN c ELSE crossed
  /\ Untouched /\ UNCHANGED <<rows, lease, result, seen, provider, faults>>

\* The entry, by id, by tenant or a new one, is enabled ...
MirrorOn(c) ==
  /\ pc[c] = "mirrorOn"
  /\ mirror' = "on"
  /\ Goto(c, "activate")
  /\ UNCHANGED <<portal, letter, lease, result, seen, ghost, provider, faults>>

\* ... and then the portal linked to it, and ACTIVE.
Activate(c) ==
  /\ pc[c] = "activate"
  /\ portal' = [portal EXCEPT !.status = "ACTIVE", !.linked = TRUE]
  /\ crossed' = IF \E d \in Callers \ {c} : pc[d] \in Relying THEN "yes" ELSE Heal(c)
  /\ Untouched
  /\ Goto(c, "after")
  /\ UNCHANGED <<mirror, letter, lease, result, seen, provider, faults>>

MirrorOff(c) ==
  /\ pc[c] = "mirrorOff"
  /\ mirror' = "off"
  /\ crossed' = Heal(c) /\ Untouched
  /\ Goto(c, "after")
  /\ UNCHANGED <<portal, letter, lease, result, seen, provider, faults>>

-----------------------------------------------------------------------------
(* The end of an attempt. *)

\* A desk is done.  A worker reads the portal once more: enough failures make a
\* dead letter of it.
After(c) ==
  /\ pc[c] = "after"
  /\ IF c \in Desks THEN Return(c)
     ELSE /\ seen' = [seen EXCEPT ![c] = portal]
          /\ Goto(c, IF result[c] = "FAILED" /\ portal.failures >= Threshold
                     THEN "letter" ELSE "finish")
          /\ UNCHANGED result
  /\ UNCHANGED <<rows, lease, ghost, provider, faults>>

\* record_permanent_failure(): the letter, then the portal.
WriteLetter(w) ==
  /\ pc[w] = "letter"
  /\ letter' = TRUE
  /\ Goto(w, "disable")
  /\ UNCHANGED <<portal, mirror, lease, result, seen, ghost, provider, faults>>

\* The portal is not synced: it is off already, unless a race made it ACTIVE again.
Disable(w) ==
  /\ pc[w] = "disable"
  /\ portal' = [portal EXCEPT !.enabled = FALSE]
  /\ crossed' = IF portal.status \in Pollable \/ \E d \in Callers \ {w} : pc[d] \in Relying
                THEN "yes" ELSE crossed
  /\ Untouched
  /\ Goto(w, "finish")
  /\ UNCHANGED <<mirror, letter, lease, result, seen, provider, faults>>

\* Settled, the lease is released; otherwise it is extended: the backoff.
Finish(w) ==
  /\ pc[w] = "finish"
  /\ IF seen[w].status \in Settled THEN Free(w) ELSE Extend(w)
  /\ ReturnSlot
  /\ Return(w)
  /\ UNCHANGED <<rows, ghost, faults>>

Attempt(c) ==
  \/ ApplyOutcome(c) \/ Sync(c) \/ MirrorOn(c) \/ Activate(c) \/ MirrorOff(c)
  \/ After(c) \/ WriteLetter(c) \/ Disable(c) \/ Finish(c)

-----------------------------------------------------------------------------
(* The desks. *)

\* portal_verify(), the verify command, an acquisition batch: no lease, no letter.
Verify(d) ==
  /\ Goto(d, "probe")
  /\ UNCHANGED <<rows, lease, result, seen, ghost, provider, faults>>

\* portal_enable(), portal_disable() and portal_quarantine(): a write, then a sync.
Edit(d) ==
  /\ \/ \E b \in BOOLEAN : portal' = [portal EXCEPT !.enabled = b] /\ UNCHANGED doubted
     \/ portal' = [portal EXCEPT !.status = "QUARANTINED"] /\ doubted' = TRUE
  /\ Cross(d) /\ UNCHANGED <<confirmed, evidence>>
  /\ Goto(d, "sync")
  /\ UNCHANGED <<mirror, letter, lease, result, seen, provider, faults>>

\* requeue(): an open letter ...
Requeue(d) ==
  /\ letter
  /\ Goto(d, "reset")
  /\ UNCHANGED <<rows, lease, result, seen, ghost, provider, faults>>

Request(d) ==
  /\ pc[d] = "idle" /\ requests < MaxRequests
  /\ requests' = requests + 1
  /\ Verify(d) \/ Edit(d) \/ Requeue(d)

\* ... the portal enabled with its counter at zero ...
Reset(d) ==
  /\ pc[d] = "reset"
  /\ portal' = [portal EXCEPT !.enabled = TRUE, !.failures = 0]
  /\ Cross(d) /\ Untouched
  /\ Goto(d, "resolve")
  /\ UNCHANGED <<mirror, letter, lease, result, seen, provider, faults>>

\* ... and the letter resolved.
Resolve(d) ==
  /\ pc[d] = "resolve"
  /\ letter' = FALSE
  /\ Goto(d, "idle")
  /\ UNCHANGED <<portal, mirror, lease, result, seen, ghost, provider, faults>>

-----------------------------------------------------------------------------
(* Faults, time and the poll queue. *)

\* What a worker that raises or dies leaves of its place at the provider: the slot
\* is returned by an exception and kept by the dead (reset_inflight_slots() has no
\* caller); the half-open probe, if it had it, stays out until a result is recorded.
Leave(w) ==
  \E inflight \in IF pc[w] = "claimed" \/ provider.inflight = 0 THEN {provider.inflight}
                  ELSE {provider.inflight - 1, provider.inflight},
    probe \in IF pc[w] \in {"claimed", "probe"} THEN BOOLEAN ELSE {FALSE} :
      provider' = [inflight |-> inflight, probeLost |-> provider.probeLost \/ probe]

\* The caller raises or dies.  An exception of a worker frees its lease.
Fail(c) ==
  /\ pc[c] \notin {"idle", "selected"} /\ faults < MaxFaults
  /\ faults' = faults + 1
  /\ \/ c \in Workers /\ Free(c) /\ Leave(c)
     \/ c \in Workers /\ UNCHANGED lease /\ Leave(c)
     \/ c \in Desks /\ UNCHANGED <<lease, provider>>
  /\ crossed' = IF pc[c] \in Syncing THEN "yes" ELSE crossed
  /\ Return(c)
  /\ UNCHANGED <<rows, confirmed, evidence, doubted>>

Attempting(w) == pc[w] \notin {"idle", "selected"}

\* A backoff ends, or the lease of a dead worker.
LeaseLapses ==
  /\ live /\ ~Attempting(holder)
  /\ live' = FALSE
  /\ UNCHANGED <<rows, holder, pc, result, seen, ghost, provider, faults>>

\* An attempt takes longer than its lease.
Outlast ==
  /\ live /\ Attempting(holder) /\ faults < MaxFaults
  /\ live' = FALSE
  /\ faults' = faults + 1
  /\ UNCHANGED <<rows, holder, provider, pc, result, seen, ghost>>

\* The poll queue gives the mirror up, or an operator requeues it there.
PollsGiveUp ==
  /\ mirror = "on" /\ mirror' = "off"
  /\ UNCHANGED <<portal, letter, lease, pc, result, seen, ghost, provider, faults>>
PollsRequeued ==
  /\ mirror = "off" /\ mirror' = "on"
  /\ crossed' = "yes" /\ Untouched
  /\ UNCHANGED <<portal, letter, lease, pc, result, seen, provider, faults>>

-----------------------------------------------------------------------------
Init ==
  /\ portal = [status |-> "CANDIDATE", enabled |-> TRUE, failures |-> 0, linked |-> FALSE]
  /\ mirror = "none" /\ letter = FALSE
  /\ holder = None /\ live = FALSE
  /\ provider = [inflight |-> 0, probeLost |-> FALSE]
  /\ pc = [c \in Callers |-> "idle"] /\ result = [c \in Callers |-> None]
  /\ seen = [c \in Callers |-> None]
  /\ confirmed = FALSE /\ evidence = 0 /\ doubted = FALSE /\ crossed = "no"
  /\ requests = 0 /\ faults = 0

Work(w) == Select(w) \/ Take(w) \/ Refuse(w)  \* ... or Enter, which has a fairness of its own
Serve(d) == Reset(d) \/ Resolve(d)

Next ==
  \/ \E d \in Desks : Request(d)
  \/ /\ \/ \E w \in Workers : Work(w) \/ Enter(w)
        \/ \E d \in Desks : Serve(d)
        \/ \E c \in Callers : Probe(c) \/ Attempt(c) \/ Fail(c)
        \/ LeaseLapses \/ Outlast \/ PollsGiveUp \/ PollsRequeued
     /\ UNCHANGED requests

Quietly(A) == A /\ UNCHANGED requests

\* Workers look for work again and again and end their attempts, and leases run out.
\* A gate that finds a free slot and no lost probe again and again lets one through:
\* a circuit cools down (ProviderCircuit), and the assumption is that the provider's
\* other portals do not have the slots or the probe every time.
Fairness ==
  /\ \A w \in Workers : /\ WF_vars(Quietly(Work(w) \/ Probe(w) \/ Attempt(w)))
                        /\ SF_vars(Quietly(Enter(w)))
  /\ \A d \in Desks : WF_vars(Quietly(Serve(d) \/ Attempt(d)))
  /\ WF_vars(Quietly(LeaseLapses))

Spec == Init /\ [][Next]_vars /\ Fairness

TypeOK ==
  /\ portal \in Portals /\ mirror \in {"none", "on", "off"} /\ letter \in BOOLEAN
  /\ holder \in Workers \cup {None} /\ live \in BOOLEAN
  /\ provider \in ProviderRows
  /\ pc \in [Callers -> Steps]
  /\ result \in [Callers -> VerificationResult \cup {None}]
  /\ seen \in [Callers -> Portals \cup {None}]
  /\ confirmed \in BOOLEAN /\ doubted \in BOOLEAN
  /\ crossed \in Callers \cup {"yes", "no"}
  /\ evidence \in 0..Threshold
  /\ requests \in 0..MaxRequests /\ faults \in 0..MaxFaults

\* A portal is polled, or counts as verified, only if a probe of it once succeeded
\* as what it claims to be, whoever races whom (registry/models.py:62).
OnlyVerifiedPolled ==
  portal.status \in Pollable \/ mirror # "none" => confirmed

\* A portal is given up only for as many permanent failures as it takes, with no
\* undisturbed success between them, or for an identity in doubt: transient
\* failures, lost updates and late writes never add up to it
\* (apply_verification_outcome()).
DemotedForCause ==
  [][LET now == portal'.status IN
     now \in Regressed /\ now # portal.status
       => evidence >= Threshold \/ (now = "QUARANTINED" /\ doubted')]_vars

\* The table that is polled follows the portal: an enabled entry is that of an
\* enabled portal in status ACTIVE.  A race, or a crash between a status and its
\* mirror, may break this, and the next sync that writes without interference
\* repairs it (sync_portal_to_operational_registry()).
MirrorFollows ==
  mirror = "on" /\ crossed = "no" /\ (\A c \in Callers : pc[c] \notin Syncing)
    => portal.status = "ACTIVE" /\ portal.enabled

\* A live lease leaves its holder only when the holder ends its attempt: neither a
\* worker whose own lease ran out meanwhile nor one with an old SELECT takes it or
\* frees it, and the backoff it stands for afterwards is nobody's to cut short
\* (claim_verification_batch(), release_verification_lease()).
LiveLeaseKept ==
  [][\A w \in Workers :
       holder = w /\ live /\ holder' # w
         => Attempting(w) /\ pc'[w] = "idle"]_vars

\* The lease of a verification is an exclusive lease, whatever is done under it.
Lease ==
  INSTANCE ExclusiveLease WITH Holders <- Workers, Nobody <- None, Dead <- "dead", owner <- holder
LeaseIsExclusive == Lease!Spec

\* Two workers verify the portal at once only if an attempt outlasted its lease.
OneVerifierAtATime ==
  faults = 0 => \A v, w \in Workers : Attempting(v) /\ Attempting(w) => v = w

\* The provider is closed to every worker for good: dead ones hold all its slots, or
\* one took the half-open probe and never recorded a result.
Inside == {w \in Workers : pc[w] \notin {"idle", "selected", "claimed"}}
ShutOut == provider.probeLost \/ provider.inflight - Cardinality(Inside) >= Slots

\* A portal that needs verification is probed again and again, or stops needing it:
\* failures, skips, late attempts, exceptions and crashes only delay the next probe,
\* as long as none of them shuts the provider (runner.py:517-548).
Pending == portal.status = "CANDIDATE" /\ portal.enabled
PendingIsProbed == Pending ~> (~Pending \/ ShutOut \/ \E c \in Callers : pc[c] = "apply")

\* Without that excuse it is not so in this code: one worker that dies inside, or one
\* exception before the result of a half-open probe is recorded, is enough.
PendingAlwaysProbed == Pending ~> (~Pending \/ \E c \in Callers : pc[c] = "apply")

\* Not so in this code.  A requeued letter makes its portal claimable again ("re-enables
\* the work item", dead_letter.py:49) ...
RequeuedIsPending ==
  [][\A d \in Desks : pc[d] = "resolve" /\ pc'[d] = "idle" /\ ~letter' => Pending]_vars
\* ... a verified portal is polled in the end, though its verifier dies before the sync ...
VerifiedIsPolled ==
  (portal.status = "VERIFIED" /\ portal.enabled) ~> (portal.status # "VERIFIED" \/ ~portal.enabled)
\* ... and a portal that an operator disabled is not polled once its sync is done.
DisabledNotPolled ==
  mirror = "on" /\ (\A c \in Callers : pc[c] = "idle") => portal.enabled

=============================================================================

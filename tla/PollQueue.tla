------------------------------- MODULE PollQueue -------------------------------
(***************************************************************************)
(* The discovery worker fleet: the poll queue of leased portals            *)
(* (workers/leasing.py, workers/queue.py), one poll attempt from its claim *)
(* to its release (workers/runner.py), and what becomes of a portal that   *)
(* fails permanently (workers/dead_letter.py).  The agent's own discovery  *)
(* cycle (agent/cycle.py) polls the same portals and takes no lease.       *)
(*                                                                         *)
(* A worker here is one item of a batch: claimed together with the rest of *)
(* the batch, then waiting for a thread of the pool.  Each step is one     *)
(* database transaction or one call of the provider.                       *)
(***************************************************************************)
EXTENDS Naturals, FiniteSets

CONSTANTS
  Portals,          \* rows of company_registry
  Workers,          \* items a poll worker is processing
  Cycles,           \* discovery cycles of the agent
  Operators,        \* people requeueing dead letters
  DeadLetterMax,    \* DEAD_LETTER_MAX_ATTEMPTS
  MaxLetters,       \* bound on the dead letters of one portal
  MaxCrashes,       \* bound on crashes
  LeaseMayLapse,    \* may a lease expire while its holder is still working?
  RequeueOverlaps,  \* may a portal be requeued while a worker is at it?
  None              \* no worker, no portal

Procs == Workers \cup Cycles \cup Operators

ASSUME PollAssumption ==
  /\ Workers \cap Cycles = {} /\ Workers \cap Operators = {} /\ Cycles \cap Operators = {}
  /\ None \notin Procs \cup Portals /\ IsFiniteSet(Workers)
  /\ DeadLetterMax \in Nat \ {0}
  /\ MaxLetters \in Nat \ {0}
  /\ MaxCrashes \in Nat
  /\ LeaseMayLapse \in BOOLEAN
  /\ RequeueOverlaps \in BOOLEAN

VARIABLES
  enabled,    \* company_registry.enabled
  verified,   \* its registry_portals row is VERIFIED or ACTIVE, and enabled
  due,        \* next_poll_at has passed
  owner,      \* the claim whose lease_attempt_id the row carries
  live,       \* lease_expires_at lies in the future
  failures,   \* consecutive_permanent_failures, as far as it matters
  letter,     \* the last dead_letters row of the portal, 0 if none
  open,       \* that row is unresolved
  pc,         \* where each process is
  portal,     \* the portal it is at
  seen,       \* the counter, or the dead letter, it read
  streak,     \* history: permanent failures since the last answered probe on record, or
              \* requeue, that came while no other attempt was counting a failure
  crashes     \* crashes so far

rowVars    == <<enabled, due, failures>>
leaseVars  == <<owner, live>>
letterVars == <<letter, open>>
procVars   == <<pc, portal, seen>>
vars == <<rowVars, verified, leaseVars, letterVars, procVars, streak, crashes>>

\* The steps of an attempt during which the provider is being called.
Polling == {"probe", "clear", "fetch"}
\* The steps of an attempt after its claim.
Working ==
  Polling \cup {"claimed", "mark", "markFailed", "markBroken", "read", "count", "record", "disable", "ack"}
Steps == {"idle", "selected", "reset", "resolve"} \cup Working

Works(w, p) == pc[w] \in Working /\ portal[w] = p

\* RequeueOverlaps = FALSE: a portal is requeued while no worker is at it, and
\* claimed while nobody requeues it.
MayRequeue(p) == RequeueOverlaps \/ \A w \in Workers : ~Works(w, p)
MayClaim(p) == RequeueOverlaps \/ \A o \in Operators : portal[o] # p

Goto(w, step) == pc' = [pc EXCEPT ![w] = step]
Return(w) ==
  /\ Goto(w, "idle")
  /\ portal' = [portal EXCEPT ![w] = None]
  /\ seen' = [seen EXCEPT ![w] = 0]

-----------------------------------------------------------------------------
(* Claiming.                                                               *)

\* claim_poll_batch(), the SELECT: a candidate of this worker.
Select(w, p) ==
  /\ pc[w] = "idle"
  /\ enabled[p] /\ due[p] /\ ~live[p]
  /\ Goto(w, "selected")
  /\ portal' = [portal EXCEPT ![w] = p]
  /\ UNCHANGED <<rowVars, verified, leaseVars, letterVars, seen, streak, crashes>>

\* MUTANT: an UPDATE that trusts the SELECT.
ClaimUnguarded(w) ==
  LET p == portal[w] IN
  /\ pc[w] = "selected" /\ MayClaim(p)
  /\ owner' = [owner EXCEPT ![p] = w]
  /\ live' = [live EXCEPT ![p] = TRUE]
  /\ Goto(w, "claimed")
  /\ UNCHANGED <<rowVars, verified, letterVars, portal, seen, streak, crashes>>

\* claim_poll_batch(), the UPDATE: enabled and the lease are looked at again,
\* next_poll_at is not.
Claim(w) ==
  LET p == portal[w] IN
  /\ pc[w] = "selected" /\ MayClaim(p)
  /\ IF enabled[p] /\ ~live[p]
     THEN /\ owner' = [owner EXCEPT ![p] = w]
          /\ live' = [live EXCEPT ![p] = TRUE]
          /\ Goto(w, "claimed")
          /\ UNCHANGED <<portal, seen>>
     ELSE Return(w) /\ UNCHANGED leaseVars
  /\ UNCHANGED <<rowVars, verified, letterVars, streak, crashes>>

\* release_poll_lease(expected_attempt_id).
Release(w) ==
  LET p == portal[w] IN
  IF owner[p] = w
  THEN /\ owner' = [owner EXCEPT ![p] = None]
       /\ live' = [live EXCEPT ![p] = FALSE]
  ELSE UNCHANGED leaseVars

\* _cooldown_skip(): the circuit or the provider's slots refuse; the lease is
\* kept as a cooldown if it is still this claim's.
CooldownSkip(w) ==
  LET p == portal[w] IN
  /\ pc[w] = "claimed"
  /\ live' = [live EXCEPT ![p] = @ \/ owner[p] = w]
  /\ Return(w)
  /\ UNCHANGED <<rowVars, owner, verified, letterVars, streak, crashes>>

-----------------------------------------------------------------------------
(* One attempt: _execute_poll() and _handle_poll_failure().                *)

Begin(w) ==
  /\ pc[w] = "claimed"
  /\ Goto(w, "probe")
  /\ UNCHANGED <<rowVars, verified, leaseVars, letterVars, portal, seen, streak, crashes>>

\* A permanent failure of portal p: what the counter is meant to count.
OneMoreFailure(p) ==
  streak' = [streak EXCEPT ![p] = IF @ < DeadLetterMax THEN @ + 1 ELSE @]

\* The portal starts afresh, unless another attempt has seen a failure of it and has
\* not yet put it into the counter or into a letter: that failure still counts.
StartsAfresh(x, p) ==
  streak' = IF \E w \in Workers \ {x} : portal[w] = p /\ pc[w] \in {"markBroken", "read", "count", "record"}
            THEN streak ELSE [streak EXCEPT ![p] = 0]

\* A call of the provider answers, or fails for a while, or for good.
Call(w, answered) ==
  /\ \/ Goto(w, answered) /\ UNCHANGED streak
     \/ Goto(w, "markFailed") /\ UNCHANGED streak
     \/ Goto(w, "markBroken") /\ OneMoreFailure(portal[w])
  /\ UNCHANGED <<rowVars, verified, leaseVars, letterVars, portal, seen, crashes>>

\* The structural probe.
Probe(w) == pc[w] = "probe" /\ Call(w, "clear")

\* update_entry(consecutive_permanent_failures=0), before any job is fetched.
Clear(w) ==
  /\ pc[w] = "clear"
  /\ failures' = [failures EXCEPT ![portal[w]] = 0]
  /\ StartsAfresh(w, portal[w])
  /\ Goto(w, "fetch")
  /\ UNCHANGED <<enabled, due, verified, leaseVars, letterVars, portal, seen, crashes>>

\* fetch_jobs_result(); a response of another shape ends as an answered poll.
Fetch(w) == pc[w] = "fetch" /\ Call(w, "mark")

\* mark_poll_result(): next_poll_at moves into the future.
MarkPollResult(w) ==
  /\ pc[w] \in {"mark", "markFailed", "markBroken"}
  /\ due' = [due EXCEPT ![portal[w]] = FALSE]
  /\ Goto(w, IF pc[w] = "markBroken" THEN "read" ELSE "ack")
  /\ UNCHANGED <<enabled, failures, verified, leaseVars, letterVars, portal, seen, streak, crashes>>

\* get_entry() and update_entry(): the counter is read, then written.
ReadFailures(w) ==
  /\ pc[w] = "read"
  /\ seen' = [seen EXCEPT ![w] = failures[portal[w]]]
  /\ Goto(w, "count")
  /\ UNCHANGED <<rowVars, verified, leaseVars, letterVars, portal, streak, crashes>>

\* MUTANT: the threshold is compared with the counter as it was read.
CountFailureOnce(w) ==
  LET count == seen[w] + 1 IN
  /\ pc[w] = "count"
  /\ failures' = [failures EXCEPT ![portal[w]] = IF count < DeadLetterMax THEN count ELSE DeadLetterMax]
  /\ Goto(w, IF count >= DeadLetterMax - 1 THEN "record" ELSE "ack")
  /\ UNCHANGED <<enabled, due, verified, leaseVars, letterVars, portal, seen, streak, crashes>>

\* The counter saturates at DeadLetterMax: nothing tells larger values apart.
CountFailure(w) ==
  LET count == seen[w] + 1 IN
  /\ pc[w] = "count"
  /\ failures' = [failures EXCEPT ![portal[w]] = IF count < DeadLetterMax THEN count ELSE DeadLetterMax]
  /\ Goto(w, IF count >= DeadLetterMax THEN "record" ELSE "ack")
  /\ UNCHANGED <<enabled, due, verified, leaseVars, letterVars, portal, seen, streak, crashes>>

\* MUTANT: disabled first, and recorded only by the next step.
UpsertDisabling(w) ==
  /\ pc[w] = "record"
  /\ enabled' = [enabled EXCEPT ![portal[w]] = FALSE]
  /\ Goto(w, "disable")
  /\ UNCHANGED <<due, failures, verified, leaseVars, letterVars, portal, seen, streak, crashes>>

\* upsert_dead_letter(): the unresolved row is updated, or there is a new one.
UpsertDeadLetter(w) ==
  LET p == portal[w] IN
  /\ pc[w] = "record"
  /\ letter' = [letter EXCEPT ![p] = IF open[p] THEN @ ELSE @ + 1]
  /\ open' = [open EXCEPT ![p] = TRUE]
  /\ Goto(w, "disable")
  /\ UNCHANGED <<rowVars, verified, leaseVars, portal, seen, streak, crashes>>

\* MUTANT: the dead letter is recorded and the row left enabled.
DisableNothing(w) ==
  /\ pc[w] = "disable"
  /\ Goto(w, "ack")
  /\ UNCHANGED <<rowVars, verified, leaseVars, letterVars, portal, seen, streak, crashes>>

\* _disable(), in a transaction of its own.
Disable(w) ==
  /\ pc[w] = "disable"
  /\ enabled' = [enabled EXCEPT ![portal[w]] = FALSE]
  /\ Goto(w, "ack")
  /\ UNCHANGED <<due, failures, verified, leaseVars, letterVars, portal, seen, streak, crashes>>

\* ack(), retry() and fail() all release the lease.
Ack(w) ==
  /\ pc[w] = "ack"
  /\ Release(w)
  /\ Return(w)
  /\ UNCHANGED <<rowVars, verified, letterVars, streak, crashes>>

-----------------------------------------------------------------------------
(* The agent's discovery cycle, without leases, counters or dead letters.  *)

\* list_due_for_poll(), read once for the whole cycle.
ListDue(c, p) ==
  /\ pc[c] = "idle"
  /\ enabled[p] /\ due[p]
  /\ Goto(c, "selected")
  /\ portal' = [portal EXCEPT ![c] = p]
  /\ UNCHANGED <<rowVars, verified, leaseVars, letterVars, seen, streak, crashes>>

\* A tenant of no known provider, or beyond the cycle's budget, is passed over.
FetchJobs(c) ==
  /\ pc[c] = "selected"
  /\ \/ Goto(c, "fetch") /\ UNCHANGED <<portal, seen>>
     \/ Return(c)
  /\ UNCHANGED <<rowVars, verified, leaseVars, letterVars, streak, crashes>>

DiscoverFromRegistry(c) ==
  /\ pc[c] = "fetch"
  /\ due' = [due EXCEPT ![portal[c]] = FALSE]
  /\ Return(c)
  /\ UNCHANGED <<enabled, failures, verified, leaseVars, letterVars, streak, crashes>>

-----------------------------------------------------------------------------
(* Operators and re-verification.                                          *)

\* requeue(): the unresolved dead letter ...
Requeue(o, p) ==
  /\ pc[o] = "idle"
  /\ open[p] /\ letter[p] < MaxLetters
  /\ MayRequeue(p)
  /\ Goto(o, "reset")
  /\ portal' = [portal EXCEPT ![o] = p]
  /\ seen' = [seen EXCEPT ![o] = letter[p]]
  /\ UNCHANGED <<rowVars, verified, leaseVars, letterVars, streak, crashes>>

\* ... the portal starts afresh ...
ResetFailureCounters(o) ==
  LET p == portal[o] IN
  /\ pc[o] = "reset"
  /\ enabled' = [enabled EXCEPT ![p] = TRUE]
  /\ failures' = [failures EXCEPT ![p] = 0]
  /\ StartsAfresh(o, p)
  /\ Goto(o, "resolve")
  /\ UNCHANGED <<due, verified, leaseVars, letterVars, portal, seen, crashes>>

\* ... and the dead letter that was read is resolved.
ResolveDeadLetter(o) ==
  LET p == portal[o] IN
  /\ pc[o] = "resolve"
  /\ open' = [open EXCEPT ![p] = @ /\ letter[p] # seen[o]]
  /\ Return(o)
  /\ UNCHANGED <<rowVars, verified, leaseVars, letter, streak, crashes>>

\* sync_portal_to_operational_registry(), after a verification or an operator's
\* decision: the row of a pollable portal is enabled, that of another disabled,
\* whatever the row said.
SyncPortal(p) ==
  /\ verified' \in {[verified EXCEPT ![p] = pollable] : pollable \in BOOLEAN}
  /\ enabled' = [enabled EXCEPT ![p] = verified'[p]]
  /\ UNCHANGED <<due, failures, leaseVars, letterVars, procVars, streak, crashes>>

-----------------------------------------------------------------------------
(* Crashes and time.                                                       *)

\* A process dies between two steps; its lease stays behind.
Crash(x) ==
  /\ crashes < MaxCrashes
  /\ pc[x] # "idle"
  /\ Return(x)
  /\ crashes' = crashes + 1
  /\ UNCHANGED <<rowVars, verified, leaseVars, letterVars, streak>>

\* lease_expires_at passes.
LeaseExpires(p) ==
  /\ live[p]
  /\ LeaseMayLapse \/ \A w \in Workers : ~Works(w, p)
  /\ live' = [live EXCEPT ![p] = FALSE]
  /\ UNCHANGED <<rowVars, owner, verified, letterVars, procVars, streak, crashes>>

\* next_poll_at passes.
ComesDue(p) ==
  /\ ~due[p]
  /\ due' = [due EXCEPT ![p] = TRUE]
  /\ UNCHANGED <<enabled, failures, verified, leaseVars, letterVars, procVars, streak, crashes>>

-----------------------------------------------------------------------------
Init ==
  /\ enabled = [p \in Portals |-> TRUE]
  /\ verified = [p \in Portals |-> TRUE]
  /\ due = [p \in Portals |-> TRUE]
  /\ owner = [p \in Portals |-> None]
  /\ live = [p \in Portals |-> FALSE]
  /\ failures = [p \in Portals |-> 0]
  /\ letter = [p \in Portals |-> 0]
  /\ open = [p \in Portals |-> FALSE]
  /\ pc = [x \in Procs |-> "idle"]
  /\ portal = [x \in Procs |-> None]
  /\ seen = [x \in Procs |-> 0]
  /\ streak = [p \in Portals |-> 0]
  /\ crashes = 0

\* What a worker does with the item it claimed, once it has begun.
Attempt(w) ==
  \/ Probe(w) \/ Clear(w) \/ Fetch(w) \/ MarkPollResult(w)
  \/ ReadFailures(w) \/ CountFailure(w) \/ UpsertDeadLetter(w) \/ Disable(w) \/ Ack(w)

Worker(w) ==
  \/ \E p \in Portals : Select(w, p)
  \/ Claim(w) \/ CooldownSkip(w) \/ Begin(w) \/ Attempt(w)

Cycle(c) ==
  \/ \E p \in Portals : ListDue(c, p)
  \/ FetchJobs(c) \/ DiscoverFromRegistry(c)

Operator(o) ==
  \/ \E p \in Portals : Requeue(o, p)
  \/ ResetFailureCounters(o) \/ ResolveDeadLetter(o)

Next ==
  \/ \E w \in Workers : Worker(w)
  \/ \E c \in Cycles : Cycle(c)
  \/ \E o \in Operators : Operator(o)
  \/ \E x \in Procs : Crash(x)
  \/ \E p \in Portals : SyncPortal(p) \/ LeaseExpires(p) \/ ComesDue(p)

Spec == Init /\ [][Next]_vars

-----------------------------------------------------------------------------
(* Properties.                                                             *)

\* Every variable has its type.
TypeOK ==
  /\ enabled \in [Portals -> BOOLEAN]
  /\ verified \in [Portals -> BOOLEAN]
  /\ due \in [Portals -> BOOLEAN]
  /\ owner \in [Portals -> Workers \cup {None}]
  /\ live \in [Portals -> BOOLEAN]
  /\ failures \in [Portals -> 0..DeadLetterMax]
  /\ letter \in [Portals -> 0..MaxLetters]
  /\ open \in [Portals -> BOOLEAN]
  /\ pc \in [Procs -> Steps]
  /\ portal \in [Procs -> Portals \cup {None}]
  /\ seen \in [Procs -> Nat]
  /\ streak \in [Portals -> 0..DeadLetterMax]
  /\ crashes \in 0..MaxCrashes

\* No two workers ever poll one portal at the same time.
OnePollAtATime ==
  \A v, w \in Workers :
    pc[v] \in Polling /\ pc[w] \in Polling /\ portal[v] = portal[w] => v = w

\* The lease of each portal is an exclusive lease, whatever is done under it: a crash
\* leaves it behind, and nobody who comes late takes it or gives it back.
Lease(p) ==
  INSTANCE ExclusiveLease
    WITH Holders <- Workers, Nobody <- None, Dead <- "dead", owner <- owner[p], live <- live[p]
LeasesAreExclusive == \A p \in Portals : Lease(p)!Spec

\* A portal the fleet gave up is on the list an operator requeues from, even
\* when the worker that gave it up died on the way.
GivenUpIsListed ==
  \A p \in Portals : ~enabled[p] => open[p] \/ ~verified[p]

\* A portal is given up only for DeadLetterMax permanent failures with no answered
\* probe on record and no requeue among them, unless these came between a failure of
\* another attempt and its count: the counter is read, and written in a later
\* transaction, but neither lost updates nor late writes of any number of attempts and
\* requeues add up to a letter (_handle_poll_failure()).
GivenUpForCause ==
  [][\A p \in Portals : open'[p] /\ ~open[p] => streak[p] >= DeadLetterMax]_vars

\* Not so once a requeue overlaps an attempt, or a lease lapses under one: what a
\* worker writes is one more than what the counter says then, so that no requeue and
\* no failure is undone.
CountsAreFresh ==
  \A w \in Workers : pc[w] = "count" => seen[w] = failures[portal[w]]

\* A portal is claimed only when it is due: its backoff is kept.
BackoffKept ==
  [][\A p \in Portals, w \in Workers :
       pc[w] = "selected" /\ pc'[w] = "claimed" /\ portal[w] = p => due[p]]_vars

\* Some worker is at step "step" of an attempt at p.
At(p, step) == \E w \in Workers : pc[w] = step /\ portal[w] = p

\* What becomes of a portal that goes on failing permanently.
GivenUpAgain(p) == []<>At(p, "read") => []<>(open[p] /\ ~enabled[p])

\* Nothing retries for ever: a portal whose probe never answers any more and
\* that goes on failing permanently is given up, after every requeue again.
ProbesFailingGivenUp ==
  \A p \in Portals : <>[]~At(p, "clear") => GivenUpAgain(p)

\* The same for a portal none of whose polls succeeds any more, whether or not
\* the probe answers.
PollsFailingGivenUp ==
  \A p \in Portals : <>[]~At(p, "mark") => GivenUpAgain(p)

=============================================================================

--------------------------- MODULE PollQueueProofs ---------------------------
(***************************************************************************)
(* What the poll queue guarantees for every number of portals, workers,    *)
(* cycles and operators: one poll of a portal at a time while leases       *)
(* outlive the work they cover, a dead letter behind every portal given up *)
(* while nobody requeues a portal under a worker, and, whatever overlaps,  *)
(* DeadLetterMax failures behind every dead letter.                        *)
(***************************************************************************)
EXTENDS DiscoveryFleet, FiniteSetTheorems, TLAPS

-----------------------------------------------------------------------------
(* Types, and where a process is.                                          *)

\* A process at work has a portal.
Placed == \A x \in Procs : pc[x] # "idle" => portal[x] \in Portals

\* There is room for another dead letter while none is open, also once the one
\* an operator is looking at is resolved.
LettersBounded ==
  /\ \A p \in Portals : letter[p] = MaxLetters => open[p]
  /\ \A o \in Operators : pc[o] \in {"reset", "resolve"} => seen[o] < MaxLetters

TypeInv == TypeOK /\ Placed /\ LettersBounded

LEMMA TypeInit == Init => TypeInv
BY PollAssumption
   DEF Init, TypeInv, TypeOK, Placed, LettersBounded, Procs, Steps, Working, Polling

\* Claiming, and the end of an item, keep the types.
LEMMA ClaimKeepsTypes ==
  ASSUME TypeInv, NEW w \in Workers
  PROVE  /\ \A p \in Portals : Select(w, p) => TypeInv'
         /\ Claim(w) \/ CooldownSkip(w) \/ Begin(w) \/ Ack(w) => TypeInv'
<1>. USE PollAssumption DEF TypeInv, TypeOK, Placed, LettersBounded, Procs, Steps, Working,
       Polling, Goto, Return, Release, rowVars, leaseVars, letterVars
<1>1. ASSUME NEW p \in Portals, Select(w, p) PROVE TypeInv'
  BY <1>1 DEF Select
<1>2. ASSUME Claim(w) PROVE TypeInv'
  <2>1. portal[w] \in Portals
    BY <1>2 DEF Claim
  <2>2. CASE enabled[portal[w]] /\ ~live[portal[w]]
    <3>1. /\ owner' = [owner EXCEPT ![portal[w]] = w]
          /\ live' = [live EXCEPT ![portal[w]] = TRUE]
          /\ pc' = [pc EXCEPT ![w] = "claimed"]
          /\ UNCHANGED <<portal, seen, rowVars, verified, letterVars, streak, crashes>>
      BY <1>2, <2>2 DEF Claim
    <3>. QED BY <2>1, <3>1
  <2>3. CASE ~(enabled[portal[w]] /\ ~live[portal[w]])
    <3>1. /\ Return(w)
          /\ UNCHANGED <<leaseVars, rowVars, verified, letterVars, streak, crashes>>
      BY <1>2, <2>3 DEF Claim
    <3>. QED BY <2>1, <3>1
  <2>. QED BY <2>2, <2>3
<1>3. ASSUME CooldownSkip(w) PROVE TypeInv'
  BY <1>3 DEF CooldownSkip
<1>4. ASSUME Begin(w) PROVE TypeInv'
  BY <1>4 DEF Begin
<1>5. ASSUME Ack(w) PROVE TypeInv'
  BY <1>5 DEF Ack
<1>. QED BY <1>1, <1>2, <1>3, <1>4, <1>5

LEMMA AttemptKeepsTypes ==
  ASSUME TypeInv, NEW w \in Workers,
         Probe(w) \/ Clear(w) \/ Fetch(w) \/ MarkPollResult(w) \/ ReadFailures(w)
           \/ CountFailure(w) \/ UpsertDeadLetter(w) \/ Disable(w)
  PROVE  TypeInv'
<1>. USE PollAssumption DEF TypeInv, TypeOK, Placed, LettersBounded, Procs, Steps, Working,
       Polling, Goto, rowVars, leaseVars, letterVars
<1>1. CASE Probe(w)
  BY <1>1 DEF Probe, Call, OneMoreFailure
<1>2. CASE Clear(w)
  BY <1>2 DEF Clear, StartsAfresh
<1>3. CASE Fetch(w)
  BY <1>3 DEF Fetch, Call, OneMoreFailure
<1>4. CASE MarkPollResult(w)
  BY <1>4 DEF MarkPollResult
<1>5. CASE ReadFailures(w)
  BY <1>5 DEF ReadFailures
<1>6. CASE CountFailure(w)
  BY <1>6 DEF CountFailure
<1>7. CASE UpsertDeadLetter(w)
  BY <1>7 DEF UpsertDeadLetter
<1>8. CASE Disable(w)
  BY <1>8 DEF Disable
<1>. QED BY <1>1, <1>2, <1>3, <1>4, <1>5, <1>6, <1>7, <1>8

LEMMA OthersKeepTypes ==
  ASSUME TypeInv,
         \/ \E c \in Cycles : Cycle(c)
         \/ \E o \in Operators : Operator(o)
         \/ \E x \in Procs : Crash(x)
         \/ \E p \in Portals : SyncPortal(p) \/ LeaseExpires(p) \/ ComesDue(p)
  PROVE  TypeInv'
<1>. USE PollAssumption DEF TypeInv, TypeOK, Placed, LettersBounded, Procs, Steps, Working,
       Polling, Goto, Return, rowVars, leaseVars, letterVars, procVars
<1>1. ASSUME NEW c \in Cycles, Cycle(c) PROVE TypeInv'
  <2>1. ASSUME NEW p \in Portals, ListDue(c, p) PROVE TypeInv'
    BY <2>1 DEF ListDue
  <2>2. CASE FetchJobs(c)
    BY <2>2 DEF FetchJobs
  <2>3. CASE DiscoverFromRegistry(c)
    BY <2>3 DEF DiscoverFromRegistry
  <2>. QED BY <1>1, <2>1, <2>2, <2>3 DEF Cycle
<1>2. ASSUME NEW o \in Operators, NEW p \in Portals, Requeue(o, p) PROVE TypeInv'
  BY <1>2 DEF Requeue
<1>3. ASSUME NEW o \in Operators, ResetFailureCounters(o) PROVE TypeInv'
  BY <1>3 DEF ResetFailureCounters, StartsAfresh
<1>4. ASSUME NEW o \in Operators, ResolveDeadLetter(o) PROVE TypeInv'
  BY <1>4 DEF ResolveDeadLetter
<1>5. ASSUME NEW x \in Procs, Crash(x) PROVE TypeInv'
  BY <1>5 DEF Crash
<1>6. ASSUME NEW p \in Portals, SyncPortal(p) PROVE TypeInv'
  <2>1. /\ verified' \in [Portals -> BOOLEAN]
        /\ enabled' \in [Portals -> BOOLEAN]
    BY <1>6 DEF SyncPortal
  <2>. QED BY <1>6, <2>1 DEF SyncPortal
<1>7. ASSUME NEW p \in Portals, LeaseExpires(p) \/ ComesDue(p) PROVE TypeInv'
  <2>1. CASE LeaseExpires(p)
    BY <2>1 DEF LeaseExpires
  <2>2. CASE ComesDue(p)
    BY <2>2 DEF ComesDue
  <2>. QED BY <1>7, <2>1, <2>2
<1>. QED BY <1>1, <1>2, <1>3, <1>4, <1>5, <1>6, <1>7 DEF Operator

LEMMA TypeStep == TypeInv /\ [Next]_vars => TypeInv'
<1>1. TypeInv /\ UNCHANGED vars => TypeInv'
  BY DEF vars, rowVars, leaseVars, letterVars, procVars, TypeInv, TypeOK, Placed, LettersBounded
<1>. QED BY <1>1, ClaimKeepsTypes, AttemptKeepsTypes, OthersKeepTypes DEF Next, Worker, Attempt

\* Every variable keeps its type, and the dead letters their bound.
THEOREM TypeCorrect == Spec => []TypeOK
<1>1. TypeInv => TypeOK
  BY DEF TypeInv
<1>. QED BY TypeInit, TypeStep, <1>1, PTL DEF Spec

-----------------------------------------------------------------------------
(* One worker at a portal.                                                 *)

\* The leases are held by the workers that work under them.
Held ==
  \A w \in Workers, p \in Portals : Works(w, p) => live[p] /\ owner[p] = w

LeaseInv == TypeInv /\ Held

\* Whoever works at a portal is alone there.
LEMMA Alone ==
  ASSUME Held, NEW v \in Workers, NEW w \in Workers, NEW p \in Portals,
         Works(v, p), Works(w, p)
  PROVE  v = w
BY DEF Held

\* The steps of an attempt at its portal, but the last, leave leases alone.
LEMMA AttemptGoesOn ==
  ASSUME TypeInv, NEW w \in Workers, Begin(w) \/ (Attempt(w) /\ ~Ack(w))
  PROVE  /\ pc[w] \in Working /\ portal[w] \in Portals
         /\ \E step \in Working : pc' = [pc EXCEPT ![w] = step]
         /\ UNCHANGED <<portal, owner, live>>
<1>. USE DEF TypeInv, TypeOK, Placed, Procs, Working, Polling, Goto, rowVars, leaseVars, letterVars
<1>1. CASE Begin(w)
  BY <1>1 DEF Begin
<1>2. CASE Probe(w)
  BY <1>2 DEF Probe, Call
<1>3. CASE Clear(w)
  BY <1>3 DEF Clear
<1>4. CASE Fetch(w)
  BY <1>4 DEF Fetch, Call
<1>5. CASE MarkPollResult(w)
  BY <1>5 DEF MarkPollResult
<1>6. CASE ReadFailures(w)
  BY <1>6 DEF ReadFailures
<1>7. CASE CountFailure(w)
  BY <1>7 DEF CountFailure
<1>8. CASE UpsertDeadLetter(w)
  BY <1>8 DEF UpsertDeadLetter
<1>9. CASE Disable(w)
  BY <1>9 DEF Disable
<1>. QED BY <1>1, <1>2, <1>3, <1>4, <1>5, <1>6, <1>7, <1>8, <1>9 DEF Attempt

\* A worker's step keeps the leases held.
LEMMA WorkerHolds ==
  ASSUME LeaseInv, NEW w \in Workers, Worker(w)
  PROVE  Held'
<1>. USE PollAssumption DEF LeaseInv, TypeInv, TypeOK, Placed, Procs, Held, Works
<1>1. ASSUME NEW p \in Portals, Select(w, p) PROVE Held'
  BY <1>1 DEF Select, Goto, leaseVars, Working, Polling
<1>2. CASE Claim(w)
  <2>1. portal[w] \in Portals
    BY <1>2 DEF Claim
  <2>2. CASE enabled[portal[w]] /\ ~live[portal[w]]
    <3>1. /\ owner' = [owner EXCEPT ![portal[w]] = w]
          /\ live' = [live EXCEPT ![portal[w]] = TRUE]
          /\ pc' = [pc EXCEPT ![w] = "claimed"]
          /\ portal' = portal
      BY <1>2, <2>2 DEF Claim, Goto
    <3>2. \A v \in Workers : ~Works(v, portal[w])
      BY <2>1, <2>2
    <3>. QED BY <2>1, <3>1, <3>2
  <2>3. CASE ~(enabled[portal[w]] /\ ~live[portal[w]])
    BY <1>2, <2>3 DEF Claim, Return, Goto, leaseVars, Working, Polling
  <2>. QED BY <2>2, <2>3
<1>3. CASE CooldownSkip(w)
  BY <1>3 DEF CooldownSkip, Return, Goto, Working, Polling
<1>4. CASE Begin(w) \/ (Attempt(w) /\ ~Ack(w))
  BY <1>4, AttemptGoesOn
<1>5. CASE Ack(w)
  <2>1. portal[w] \in Portals /\ Works(w, portal[w])
    BY <1>5 DEF Ack, Working
  <2>2. /\ owner' = [owner EXCEPT ![portal[w]] = None]
        /\ live' = [live EXCEPT ![portal[w]] = FALSE]
        /\ pc' = [pc EXCEPT ![w] = "idle"]
        /\ portal' = [portal EXCEPT ![w] = None]
    BY <1>5, <2>1 DEF Ack, Release, Return, Goto
  <2>3. \A v \in Workers : Works(v, portal[w]) => v = w
    BY <2>1, Alone
  <2>. QED BY <2>1, <2>2, <2>3 DEF Working, Polling
<1>. QED BY <1>1, <1>2, <1>3, <1>4, <1>5 DEF Worker, Attempt

\* So does everybody else's, when a lease does not lapse under its holder.
LEMMA OthersHold ==
  ASSUME ~LeaseMayLapse, LeaseInv,
         \/ \E c \in Cycles : Cycle(c)
         \/ \E o \in Operators : Operator(o)
         \/ \E x \in Procs : Crash(x)
         \/ \E p \in Portals : SyncPortal(p) \/ LeaseExpires(p) \/ ComesDue(p)
  PROVE  Held'
<1>. USE PollAssumption DEF LeaseInv, TypeInv, TypeOK, Placed, Procs, Held, Works, Goto, Return,
       rowVars, leaseVars, letterVars, procVars
<1>1. ASSUME NEW c \in Cycles, Cycle(c) PROVE Held'
  BY <1>1 DEF Cycle, ListDue, FetchJobs, DiscoverFromRegistry
<1>2. ASSUME NEW o \in Operators, Operator(o) PROVE Held'
  BY <1>2 DEF Operator, Requeue, ResetFailureCounters, ResolveDeadLetter
<1>3. ASSUME NEW x \in Procs, Crash(x) PROVE Held'
  BY <1>3 DEF Crash, Working, Polling
<1>4. ASSUME NEW p \in Portals, SyncPortal(p) \/ ComesDue(p) PROVE Held'
  BY <1>4 DEF SyncPortal, ComesDue
<1>5. ASSUME NEW p \in Portals, LeaseExpires(p) PROVE Held'
  BY <1>5 DEF LeaseExpires
<1>. QED BY <1>1, <1>2, <1>3, <1>4, <1>5

LEMMA LeaseInitially == Init => LeaseInv
BY TypeInit, PollAssumption DEF Init, LeaseInv, Held, Works, Working, Polling, Procs

LEMMA LeaseStep == ~LeaseMayLapse /\ LeaseInv /\ [Next]_vars => LeaseInv'
<1>1. LeaseInv /\ UNCHANGED vars => Held'
  BY DEF LeaseInv, Held, Works, vars, leaseVars, procVars
<1>. QED BY <1>1, TypeStep, WorkerHolds, OthersHold DEF LeaseInv, Next

\* No two workers poll a portal at the same time, provided every lease outlives
\* the work done under it.
THEOREM OnePollOfAPortal ==
  ASSUME ~LeaseMayLapse
  PROVE  Spec => []OnePollAtATime
<1>1. LeaseInv => OnePollAtATime
  BY Alone DEF LeaseInv, TypeInv, TypeOK, Placed, OnePollAtATime, Works, Working, Polling, Procs
<1>2. LeaseInv /\ [Next]_vars => LeaseInv'
  BY LeaseStep
<1>. QED BY LeaseInitially, <1>1, <1>2, PTL DEF Spec

-----------------------------------------------------------------------------
(* Dead letters.                                                           *)

\* Nobody requeues a portal a worker is at.
Apart ==
  \A o \in Operators, w \in Workers, p \in Portals : portal[o] = p => ~Works(w, p)

\* The dead letter is there before its portal is disabled, and as long as the
\* portal stays disabled.
Listed ==
  /\ GivenUpIsListed
  /\ \A w \in Workers, p \in Portals : pc[w] = "disable" /\ portal[w] = p => open[p]
  /\ \A o \in Operators, p \in Portals :
       pc[o] = "resolve" /\ portal[o] = p => enabled[p] \/ ~verified[p]

LetterInv == LeaseInv /\ Apart /\ Listed

\* Nobody else works where a worker works, and no operator is there.
LEMMA AloneAtPortal ==
  ASSUME LetterInv, NEW w \in Workers, NEW p \in Portals, Works(w, p)
  PROVE  /\ \A v \in Workers : Works(v, p) => v = w
         /\ \A o \in Operators : portal[o] # p
BY Alone DEF LetterInv, LeaseInv, Apart

LEMMA WorkerStaysApart ==
  ASSUME ~RequeueOverlaps, LetterInv, NEW w \in Workers, Worker(w)
  PROVE  Apart'
<1>. USE PollAssumption DEF LetterInv, LeaseInv, TypeInv, TypeOK, Placed, Procs, Apart, Works
<1>1. ASSUME NEW p \in Portals, Select(w, p) PROVE Apart'
  BY <1>1 DEF Select, Goto, Working, Polling
<1>2. CASE Claim(w)
  <2>1. \A o \in Operators : portal[o] # portal[w]
    BY <1>2 DEF Claim, MayClaim
  <2>2. /\ \A x \in Procs \ {w} : pc'[x] = pc[x] /\ portal'[x] = portal[x]
        /\ pc'[w] = "idle" \/ portal'[w] = portal[w]
    BY <1>2 DEF Claim, Return, Goto
  <2>. QED BY <2>1, <2>2 DEF Working, Polling
<1>3. CASE CooldownSkip(w)
  BY <1>3 DEF CooldownSkip, Return, Goto, Working, Polling
<1>4. CASE Begin(w) \/ (Attempt(w) /\ ~Ack(w))
  BY <1>4, AttemptGoesOn
<1>5. CASE Ack(w)
  BY <1>5 DEF Ack, Return, Goto, Working, Polling
<1>. QED BY <1>1, <1>2, <1>3, <1>4, <1>5 DEF Worker, Attempt

LEMMA OthersStayApart ==
  ASSUME ~RequeueOverlaps, LetterInv,
         \/ \E c \in Cycles : Cycle(c)
         \/ \E o \in Operators : Operator(o)
         \/ \E x \in Procs : Crash(x)
         \/ \E p \in Portals : SyncPortal(p) \/ LeaseExpires(p) \/ ComesDue(p)
  PROVE  Apart'
<1>. USE PollAssumption DEF LetterInv, LeaseInv, TypeInv, TypeOK, Placed, Procs, Apart, Works,
       Goto, Return, procVars
<1>1. ASSUME NEW c \in Cycles, Cycle(c) PROVE Apart'
  BY <1>1 DEF Cycle, ListDue, FetchJobs, DiscoverFromRegistry
<1>2. ASSUME NEW o \in Operators, NEW p \in Portals, Requeue(o, p) PROVE Apart'
  BY <1>2 DEF Requeue, MayRequeue
<1>3. ASSUME NEW o \in Operators, ResetFailureCounters(o) \/ ResolveDeadLetter(o) PROVE Apart'
  BY <1>3 DEF ResetFailureCounters, ResolveDeadLetter
<1>4. ASSUME NEW x \in Procs, Crash(x) PROVE Apart'
  BY <1>4 DEF Crash, Working, Polling
<1>5. ASSUME NEW p \in Portals, SyncPortal(p) \/ LeaseExpires(p) \/ ComesDue(p) PROVE Apart'
  BY <1>5 DEF SyncPortal, LeaseExpires, ComesDue
<1>. QED BY <1>1, <1>2, <1>3, <1>4, <1>5 DEF Operator

\* The steps of which Listed says nothing.
QuietSteps ==
  {"idle", "selected", "claimed", "probe", "clear", "fetch", "mark", "markFailed", "markBroken",
   "ack", "reset"}

\* A step that leaves the portals' records alone and takes processes only to
\* such steps keeps it.
LEMMA QuietStep ==
  ASSUME LetterInv, UNCHANGED <<enabled, verified, open>>,
         \A x \in Procs : \/ pc'[x] \in QuietSteps
                          \/ pc'[x] = pc[x] /\ portal'[x] = portal[x]
  PROVE  Listed'
BY DEF LetterInv, Listed, GivenUpIsListed, QuietSteps, Procs

LEMMA QuietWorker ==
  ASSUME LetterInv, NEW w \in Workers,
         \/ \E p \in Portals : Select(w, p)
         \/ Claim(w) \/ CooldownSkip(w) \/ Begin(w) \/ Ack(w)
  PROVE  Listed'
<1>. USE DEF LetterInv, LeaseInv, TypeInv, TypeOK, Procs, QuietSteps, Goto, Return, rowVars, letterVars
<1>1. ASSUME NEW p \in Portals, Select(w, p) PROVE Listed'
  BY <1>1, QuietStep DEF Select
<1>2. ASSUME Claim(w) PROVE Listed'
  BY <1>2, QuietStep DEF Claim
<1>3. ASSUME CooldownSkip(w) PROVE Listed'
  BY <1>3, QuietStep DEF CooldownSkip
<1>4. ASSUME Begin(w) PROVE Listed'
  BY <1>4, QuietStep DEF Begin
<1>5. ASSUME Ack(w) PROVE Listed'
  BY <1>5, QuietStep DEF Ack
<1>. QED BY <1>1, <1>2, <1>3, <1>4, <1>5

\* What an attempt writes, and what it has established by then.
LEMMA AttemptKeepsLetters ==
  ASSUME LetterInv, NEW w \in Workers, Attempt(w)
  PROVE  Listed'
<1>. DEFINE p == portal[w]
<1>0. /\ TypeInv /\ Listed
      /\ p \in Portals /\ Works(w, p)
      /\ DeadLetterMax \in Nat \ {0}
  BY PollAssumption DEF LetterInv, LeaseInv, TypeInv, TypeOK, Placed, Procs, Works, Working, Polling,
     Attempt, Probe, Clear, Fetch, MarkPollResult, ReadFailures, CountFailure, UpsertDeadLetter,
     Disable, Ack
<1>a. /\ \A v \in Workers \ {w} : ~Works(v, p)
      /\ \A o \in Operators : portal[o] # p
  BY <1>0, AloneAtPortal
<1>b. \A v \in Workers \ {w} :
        portal[v] = p => pc[v] \notin {"markBroken", "read", "count", "record", "disable"}
  BY <1>a DEF Works, Working, Polling
<1>c. \A o \in Operators : o # w
  BY PollAssumption
<1>. HIDE DEF p
<1>. USE DEF TypeInv, TypeOK, Procs, Goto, rowVars, leaseVars, letterVars
<1>1. CASE Probe(w) \/ Fetch(w)
  <2>1. PICK step \in {"clear", "mark", "markFailed", "markBroken"} :
          /\ pc' = [pc EXCEPT ![w] = step]
          /\ UNCHANGED <<enabled, verified, open, portal>>
    BY <1>1, Zenon DEF Probe, Fetch, Call, Goto, rowVars, letterVars
  <2>. QED BY <2>1, <1>0, QuietStep DEF QuietSteps
<1>2. CASE Clear(w)
  BY <1>0, <1>2 DEF Clear, Listed, GivenUpIsListed
<1>3. CASE MarkPollResult(w)
  BY <1>0, <1>3 DEF MarkPollResult, Listed, GivenUpIsListed
<1>4. CASE ReadFailures(w)
  BY <1>0, <1>4 DEF ReadFailures, Listed, GivenUpIsListed, p
<1>5. CASE CountFailure(w)
  BY <1>0, <1>5 DEF CountFailure, Listed, GivenUpIsListed
<1>6. CASE UpsertDeadLetter(w)
  BY <1>0, <1>6 DEF UpsertDeadLetter, Listed, GivenUpIsListed, p
<1>7. CASE Disable(w)
  BY <1>0, <1>a, <1>b, <1>c, <1>7 DEF Disable, Listed, GivenUpIsListed, p
<1>8. CASE Ack(w)
  BY <1>8, QuietWorker
<1>. QED BY <1>1, <1>2, <1>3, <1>4, <1>5, <1>6, <1>7, <1>8 DEF Attempt

LEMMA OthersKeepLetters ==
  ASSUME ~RequeueOverlaps, LetterInv,
         \/ \E c \in Cycles : Cycle(c)
         \/ \E o \in Operators : Operator(o)
         \/ \E x \in Procs : Crash(x)
         \/ \E p \in Portals : SyncPortal(p) \/ LeaseExpires(p) \/ ComesDue(p)
  PROVE  Listed'
<1>0. /\ TypeInv /\ Listed /\ Apart
      /\ DeadLetterMax \in Nat \ {0}
      /\ \A o \in Operators : o \notin Workers
  BY PollAssumption DEF LetterInv, LeaseInv
<1>. USE <1>0 DEF TypeInv, TypeOK, Placed, Procs, Goto, Return, QuietSteps, rowVars, letterVars, procVars
<1>1. ASSUME NEW c \in Cycles, Cycle(c) PROVE Listed'
  BY <1>1, QuietStep DEF Cycle, ListDue, FetchJobs, DiscoverFromRegistry
<1>2. ASSUME NEW o \in Operators, NEW p \in Portals, Requeue(o, p) PROVE Listed'
  BY <1>2, QuietStep DEF Requeue
<1>3. ASSUME NEW o \in Operators, ResetFailureCounters(o) PROVE Listed'
  <2>. DEFINE p == portal[o]
  <2>1. p \in Portals /\ \A w \in Workers : ~Works(w, p)
    BY <1>3 DEF ResetFailureCounters, Apart
  <2>2. \A w \in Workers : portal[w] = p =>
          pc[w] \notin {"markBroken", "read", "count", "record", "disable"}
    BY <2>1 DEF Works, Working, Polling
  <2>. QED BY <1>3, <2>1, <2>2 DEF ResetFailureCounters, Listed, GivenUpIsListed
<1>4. ASSUME NEW o \in Operators, ResolveDeadLetter(o) PROVE Listed'
  <2>. DEFINE p == portal[o]
  <2>1. p \in Portals /\ \A w \in Workers : ~Works(w, p)
    BY <1>4 DEF ResolveDeadLetter, Apart
  <2>2. \A w \in Workers : portal[w] = p =>
          pc[w] \notin {"markBroken", "read", "count", "record", "disable"}
    BY <2>1 DEF Works, Working, Polling
  <2>3. enabled[p] \/ ~verified[p]
    BY <1>4, <2>1 DEF ResolveDeadLetter, Listed
  <2>. QED BY <1>4, <2>1, <2>2, <2>3 DEF ResolveDeadLetter, Listed, GivenUpIsListed
<1>5. ASSUME NEW x \in Procs, Crash(x) PROVE Listed'
  BY <1>5, QuietStep DEF Crash
<1>6. ASSUME NEW p \in Portals, SyncPortal(p) PROVE Listed'
  BY <1>6 DEF SyncPortal, Listed, GivenUpIsListed
<1>7. ASSUME NEW p \in Portals, LeaseExpires(p) PROVE Listed'
  BY <1>7, QuietStep DEF LeaseExpires
<1>8. ASSUME NEW p \in Portals, ComesDue(p) PROVE Listed'
  BY <1>8, QuietStep DEF ComesDue
<1>. QED BY <1>1, <1>2, <1>3, <1>4, <1>5, <1>6, <1>7, <1>8 DEF Operator

LEMMA LetterInitially == Init => LetterInv
BY LeaseInitially, PollAssumption
   DEF Init, LetterInv, Apart, Listed, GivenUpIsListed, Works, Working, Polling, Procs

LEMMA LetterStep ==
  ASSUME ~LeaseMayLapse, ~RequeueOverlaps
  PROVE  LetterInv /\ [Next]_vars => LetterInv'
<1>1. LetterInv /\ UNCHANGED vars => Apart' /\ Listed'
  BY DEF LetterInv, Apart, Listed, GivenUpIsListed, Works, vars, rowVars, letterVars, procVars
<1>2. LetterInv /\ [Next]_vars => LeaseInv'
  BY LeaseStep DEF LetterInv
<1>3. LetterInv /\ Next => Apart'
  BY WorkerStaysApart, OthersStayApart DEF Next
<1>4. LetterInv /\ Next => Listed'
  BY QuietWorker, AttemptKeepsLetters, OthersKeepLetters DEF Next, Worker
<1>. QED BY <1>1, <1>2, <1>3, <1>4 DEF LetterInv

\* A portal given up is on the list of dead letters, whoever crashes when,
\* provided leases outlive the work and no portal is requeued under a worker.
THEOREM GivenUpPortalsAreListed ==
  ASSUME ~LeaseMayLapse, ~RequeueOverlaps
  PROVE  Spec => []GivenUpIsListed
<1>1. LetterInv => GivenUpIsListed
  BY DEF LetterInv, Listed
<1>2. LetterInv /\ [Next]_vars => LetterInv'
  BY LetterStep
<1>. QED BY LetterInitially, <1>1, <1>2, PTL DEF Spec

-----------------------------------------------------------------------------
(* The cause of a dead letter, whoever overlaps.                           *)

\* The attempts at p that saw a failure and have not put it into the counter.
Counting(p) == {w \in Workers : portal[w] = p /\ pc[w] \in {"markBroken", "read", "count"}}

Upto(n) == IF n < DeadLetterMax THEN n ELSE DeadLetterMax

\* The failures that were seen cover the counter, or what any attempt is about to
\* write into it, and a failure for each attempt that is yet to count its own; an
\* attempt that is about to write a letter has seen the counter full.
CauseOf(p) ==
  /\ Upto(failures[p] + Cardinality(Counting(p))) <= streak[p]
  /\ \A w \in Workers : portal[w] = p =>
       /\ pc[w] = "count" => Upto(seen[w] + Cardinality(Counting(p))) <= streak[p]
       /\ pc[w] = "record" => streak[p] = DeadLetterMax

CauseInv == TypeInv /\ \A p \in Portals : CauseOf(p)

LEMMA CountingFinite ==
  ASSUME NEW p \in Portals
  PROVE  IsFiniteSet(Counting(p)) /\ Cardinality(Counting(p)) \in Nat
BY FS_Subset, FS_CardinalityType, PollAssumption DEF Counting

\* With fewer attempts that count, and nothing new to write, the cause stands.
LEMMA CauseKept ==
  ASSUME TypeInv, NEW p \in Portals, CauseOf(p),
         Counting(p)' \subseteq Counting(p),
         failures'[p] = failures[p], streak'[p] = streak[p],
         \A w \in Workers : portal'[w] = p /\ pc'[w] \in {"count", "record"} =>
                              portal[w] = p /\ pc[w] = pc'[w] /\ seen[w] = seen'[w]
  PROVE  CauseOf(p)'
<1>. DEFINE m == Cardinality(Counting(p))
            n == Cardinality(Counting(p)')
<1>1. n \in Nat /\ m \in Nat /\ n <= m
  BY CountingFinite, FS_Subset, FS_CardinalityType
<1>2. DeadLetterMax \in Nat /\ failures[p] \in Nat /\ streak[p] \in Nat /\ \A w \in Workers : seen[w] \in Nat
  BY PollAssumption DEF TypeInv, TypeOK, Procs
<1>3. \A k \in Nat : Upto(k + n) <= Upto(k + m)
  BY <1>1, <1>2 DEF Upto
<1>4. \A k \in Nat : Upto(k + n) \in Nat /\ Upto(k + m) \in Nat
  BY <1>1, <1>2 DEF Upto
<1>5. /\ Upto(failures[p] + m) <= streak[p]
      /\ \A w \in Workers : portal[w] = p =>
           /\ pc[w] = "count" => Upto(seen[w] + m) <= streak[p]
           /\ pc[w] = "record" => streak[p] = DeadLetterMax
  BY DEF CauseOf
<1>. HIDE DEF m, n
<1>6. /\ Upto(failures'[p] + n) <= streak'[p]
      /\ \A w \in Workers : portal'[w] = p =>
           /\ pc'[w] = "count" => Upto(seen'[w] + n) <= streak'[p]
           /\ pc'[w] = "record" => streak'[p] = DeadLetterMax
  BY <1>2, <1>3, <1>4, <1>5
<1>. QED BY <1>6 DEF CauseOf, Upto, n

\* A failure of an attempt: one more is seen, and one more attempt counts.
LEMMA CauseSeen ==
  ASSUME CauseInv, NEW w \in Workers, NEW p \in Portals, portal[w] = p, pc[w] \in {"probe", "fetch"},
         pc' = [pc EXCEPT ![w] = "markBroken"], OneMoreFailure(p),
         UNCHANGED <<failures, portal, seen>>
  PROVE  CauseOf(p)'
<1>. DEFINE n == Cardinality(Counting(p))
<1>1. /\ Counting(p)' = Counting(p) \cup {w} /\ w \notin Counting(p)
      /\ \A v \in Workers : pc'[v] \in {"count", "record"} => v # w /\ pc[v] = pc'[v]
  BY DEF CauseInv, TypeInv, TypeOK, Procs, Counting
<1>2. Cardinality(Counting(p)') = n + 1 /\ n \in Nat
  BY <1>1, CountingFinite, FS_AddElement
<1>3. /\ DeadLetterMax \in Nat \ {0} /\ failures[p] \in Nat /\ streak[p] \in 0..DeadLetterMax
      /\ \A v \in Workers : seen[v] \in Nat
  BY PollAssumption DEF CauseInv, TypeInv, TypeOK, Procs
<1>4. streak'[p] = IF streak[p] < DeadLetterMax THEN streak[p] + 1 ELSE streak[p]
  BY DEF CauseInv, TypeInv, TypeOK, OneMoreFailure
<1>5. \A k \in Nat : Upto(k + n) <= streak[p] => Upto(k + (n + 1)) <= streak'[p]
  BY <1>2, <1>3, <1>4 DEF Upto
<1>6. /\ Upto(failures[p] + n) <= streak[p]
      /\ \A v \in Workers : portal[v] = p =>
           /\ pc[v] = "count" => Upto(seen[v] + n) <= streak[p]
           /\ pc[v] = "record" => streak[p] = DeadLetterMax
  BY DEF CauseInv, CauseOf
<1>. HIDE DEF n
<1>7. /\ Upto(failures'[p] + (n + 1)) <= streak'[p]
      /\ \A v \in Workers : portal'[v] = p =>
           /\ pc'[v] = "count" => Upto(seen'[v] + (n + 1)) <= streak'[p]
           /\ pc'[v] = "record" => streak'[p] = DeadLetterMax
  BY <1>1, <1>3, <1>4, <1>5, <1>6
<1>. QED BY <1>2, <1>7 DEF CauseOf, Upto

\* The counter is set to zero: if that undoes a failure, it is still remembered.
LEMMA CauseReset ==
  ASSUME CauseInv, NEW x \in Procs, NEW p \in Portals, pc[x] \in {"clear", "reset"},
         NEW step \in {"fetch", "resolve"}, pc' = [pc EXCEPT ![x] = step],
         failures' = [failures EXCEPT ![p] = 0], StartsAfresh(x, p), UNCHANGED <<portal, seen>>
  PROVE  CauseOf(p)'
<1>. DEFINE n == Cardinality(Counting(p))
<1>0. /\ \A v \in Workers \ {x} : pc'[v] = pc[v]
      /\ pc'[x] \in {"fetch", "resolve"}
      /\ failures'[p] = 0
  BY DEF CauseInv, TypeInv, TypeOK, Procs
<1>1. Counting(p)' = Counting(p)
  BY <1>0 DEF Counting
<1>2. /\ DeadLetterMax \in Nat \ {0} /\ failures[p] \in Nat /\ streak[p] \in 0..DeadLetterMax
      /\ n \in Nat
  BY PollAssumption, CountingFinite DEF CauseInv, TypeInv, TypeOK
<1>3. /\ Upto(failures[p] + n) <= streak[p]
      /\ \A v \in Workers : portal[v] = p =>
           /\ pc[v] = "count" => Upto(seen[v] + n) <= streak[p]
           /\ pc[v] = "record" => streak[p] = DeadLetterMax
  BY DEF CauseInv, CauseOf
<1>4. CASE \E v \in Workers \ {x} : portal[v] = p /\ pc[v] \in {"markBroken", "read", "count", "record"}
  <2>1. streak' = streak
    BY <1>4 DEF StartsAfresh
  <2>. HIDE DEF n
  <2>2. Upto(0 + n) <= streak[p]
    BY <1>2, <1>3 DEF Upto
  <2>3. /\ Upto(failures'[p] + n) <= streak'[p]
        /\ \A v \in Workers : portal'[v] = p =>
             /\ pc'[v] = "count" => Upto(seen'[v] + n) <= streak'[p]
             /\ pc'[v] = "record" => streak'[p] = DeadLetterMax
    BY <1>0, <1>3, <2>1, <2>2
  <2>. QED BY <1>1, <2>3 DEF CauseOf, Upto, n
<1>5. CASE ~\E v \in Workers \ {x} : portal[v] = p /\ pc[v] \in {"markBroken", "read", "count", "record"}
  <2>1. streak'[p] = 0
    BY <1>5 DEF StartsAfresh, CauseInv, TypeInv, TypeOK
  <2>2. Counting(p)' = {}
    BY <1>0, <1>5 DEF Counting
  <2>3. Cardinality(Counting(p)') = 0
    BY <2>2, FS_EmptySet
  <2>4. \A v \in Workers : portal'[v] = p => pc'[v] \notin {"count", "record"}
    BY <1>0, <1>5
  <2>. QED BY <1>0, <1>2, <2>1, <2>3, <2>4 DEF CauseOf, Upto
<1>. QED BY <1>4, <1>5

\* The counter is read ...
LEMMA CauseRead ==
  ASSUME CauseInv, NEW w \in Workers, NEW p \in Portals, portal[w] = p, ReadFailures(w)
  PROVE  CauseOf(p)'
<1>. DEFINE n == Cardinality(Counting(p))
<1>1. /\ failures' = failures /\ streak' = streak /\ portal' = portal
      /\ seen'[w] = failures[p] /\ pc[w] = "read" /\ pc'[w] = "count"
      /\ \A v \in Workers \ {w} : pc'[v] = pc[v] /\ seen'[v] = seen[v]
  BY DEF ReadFailures, CauseInv, TypeInv, TypeOK, Procs, Goto, rowVars
<1>2. Counting(p)' = Counting(p)
  BY <1>1 DEF Counting
<1>3. /\ Upto(failures[p] + n) <= streak[p]
      /\ \A v \in Workers : portal[v] = p =>
           /\ pc[v] = "count" => Upto(seen[v] + n) <= streak[p]
           /\ pc[v] = "record" => streak[p] = DeadLetterMax
  BY DEF CauseInv, CauseOf
<1>. HIDE DEF n
<1>4. /\ Upto(failures'[p] + n) <= streak'[p]
      /\ \A v \in Workers : portal'[v] = p =>
           /\ pc'[v] = "count" => Upto(seen'[v] + n) <= streak'[p]
           /\ pc'[v] = "record" => streak'[p] = DeadLetterMax
  BY <1>1, <1>3
<1>. QED BY <1>2, <1>4 DEF CauseOf, Upto, n

\* ... and written: the failure moves from the attempts that count into the counter.
LEMMA CauseCounted ==
  ASSUME CauseInv, NEW w \in Workers, NEW p \in Portals, portal[w] = p, CountFailure(w)
  PROVE  CauseOf(p)'
<1>. DEFINE n == Cardinality(Counting(p))
<1>1. /\ streak' = streak /\ portal' = portal /\ seen' = seen
      /\ pc[w] = "count" /\ pc'[w] = IF seen[w] + 1 >= DeadLetterMax THEN "record" ELSE "ack"
      /\ failures'[p] = IF seen[w] + 1 < DeadLetterMax THEN seen[w] + 1 ELSE DeadLetterMax
      /\ \A v \in Workers \ {w} : pc'[v] = pc[v]
  BY DEF CountFailure, CauseInv, TypeInv, TypeOK, Procs, Goto
<1>2. Counting(p)' = Counting(p) \ {w} /\ w \in Counting(p)
  BY <1>1 DEF Counting
<1>3. Cardinality(Counting(p)') = n - 1 /\ n \in Nat
  BY <1>1, <1>2, CountingFinite, FS_RemoveElement
<1>4. n \in Nat \ {0}
  BY <1>2, <1>3, CountingFinite, FS_EmptySet
<1>5. /\ DeadLetterMax \in Nat \ {0} /\ streak[p] \in 0..DeadLetterMax
      /\ \A v \in Workers : seen[v] \in Nat
  BY PollAssumption DEF CauseInv, TypeInv, TypeOK, Procs
<1>6. /\ Upto(seen[w] + n) <= streak[p]
      /\ \A v \in Workers : portal[v] = p =>
           /\ pc[v] = "count" => Upto(seen[v] + n) <= streak[p]
           /\ pc[v] = "record" => streak[p] = DeadLetterMax
  BY <1>1 DEF CauseInv, CauseOf
<1>. HIDE DEF n
<1>7. Upto(failures'[p] + (n - 1)) <= streak[p]
  BY <1>1, <1>4, <1>5, <1>6 DEF Upto
<1>8. pc'[w] = "record" => streak[p] = DeadLetterMax
  BY <1>1, <1>4, <1>5, <1>6 DEF Upto
<1>9. \A v \in Workers : portal[v] = p /\ pc[v] = "count" => Upto(seen[v] + (n - 1)) <= streak[p]
  BY <1>4, <1>5, <1>6 DEF Upto
<1>10. /\ Upto(failures'[p] + (n - 1)) <= streak'[p]
       /\ \A v \in Workers : portal'[v] = p =>
            /\ pc'[v] = "count" => Upto(seen'[v] + (n - 1)) <= streak'[p]
            /\ pc'[v] = "record" => streak'[p] = DeadLetterMax
  BY <1>1, <1>6, <1>7, <1>8, <1>9
<1>. QED BY <1>3, <1>10 DEF CauseOf, Upto

\* What a step does that sees no failure and leaves the counters alone: an attempt
\* goes no further than from a failure to its count, or leaves.
Quiet(w) ==
  pc'[w] \in {"markBroken", "read", "count", "record"} =>
    /\ portal'[w] = portal[w] /\ seen'[w] = seen[w]
    /\ pc'[w] = pc[w] \/ (pc[w] = "markBroken" /\ pc'[w] = "read")

LEMMA CauseQuiet ==
  ASSUME CauseInv, NEW p \in Portals, failures'[p] = failures[p], streak'[p] = streak[p],
         \A w \in Workers : Quiet(w) \/ (portal[w] # p /\ portal'[w] # p)
  PROVE  CauseOf(p)'
<1>1. Counting(p)' \subseteq Counting(p)
  BY DEF Counting, Quiet
<1>2. \A w \in Workers : portal'[w] = p /\ pc'[w] \in {"count", "record"} =>
                           portal[w] = p /\ pc[w] = pc'[w] /\ seen[w] = seen'[w]
  BY DEF Quiet
<1>. QED BY <1>1, <1>2, CauseKept DEF CauseInv

\* The steps of a worker.
LEMMA CauseWorker ==
  ASSUME CauseInv, NEW w \in Workers, Worker(w)
  PROVE  \A p \in Portals : CauseOf(p)'
<1>. SUFFICES ASSUME NEW p \in Portals PROVE CauseOf(p)'
  OBVIOUS
<1>0. pc \in [Procs -> Steps] /\ portal \in [Procs -> Portals \cup {None}] /\ seen \in [Procs -> Nat]
      /\ failures \in [Portals -> 0..DeadLetterMax] /\ streak \in [Portals -> 0..DeadLetterMax]
      /\ w \in Procs /\ Workers \subseteq Procs /\ (pc[w] # "idle" => portal[w] \in Portals)
  BY DEF CauseInv, TypeInv, TypeOK, Placed, Procs
<1>1. CASE \E q \in Portals : Select(w, q)
  <2>1. UNCHANGED <<failures, streak>> /\ \A v \in Workers : Quiet(v)
    BY <1>0, <1>1 DEF Select, Goto, rowVars, Quiet
  <2>. QED BY <2>1, CauseQuiet
<1>2. CASE Claim(w) \/ CooldownSkip(w) \/ Ack(w)
  <2>1. UNCHANGED <<failures, streak>> /\ \A v \in Workers : Quiet(v)
    BY <1>0, <1>2 DEF Claim, CooldownSkip, Ack, Goto, Return, rowVars, Quiet
  <2>. QED BY <2>1, CauseQuiet
<1>3. CASE Begin(w) \/ MarkPollResult(w) \/ UpsertDeadLetter(w) \/ Disable(w)
  <2>1. UNCHANGED <<failures, streak>> /\ \A v \in Workers : Quiet(v)
    BY <1>0, <1>3 DEF Begin, MarkPollResult, UpsertDeadLetter, Disable, Goto, rowVars, Quiet
  <2>. QED BY <2>1, CauseQuiet
<1>4. CASE Probe(w) \/ Fetch(w)
  <2>1. pc[w] \in {"probe", "fetch"} /\ UNCHANGED <<failures, portal, seen>>
    BY <1>4 DEF Probe, Fetch, Call, rowVars
  <2>2. CASE UNCHANGED streak /\ \E step \in {"clear", "mark", "markFailed"} : Goto(w, step)
    <3>1. \A v \in Workers : Quiet(v)
      BY <1>0, <2>1, <2>2 DEF Goto, Quiet
    <3>. QED BY <2>1, <2>2, <3>1, CauseQuiet
  <2>3. CASE Goto(w, "markBroken") /\ OneMoreFailure(portal[w])
    <3>1. CASE portal[w] = p
      BY <2>1, <2>3, <3>1, CauseSeen DEF Goto
    <3>2. CASE portal[w] # p
      <4>1. streak'[p] = streak[p] /\ \A v \in Workers : Quiet(v) \/ (portal[v] # p /\ portal'[v] # p)
        BY <1>0, <2>1, <2>3, <3>2 DEF Goto, OneMoreFailure, Quiet
      <4>. QED BY <2>1, <4>1, CauseQuiet
    <3>. QED BY <3>1, <3>2
  <2>. QED BY <1>4, <2>2, <2>3 DEF Probe, Fetch, Call
<1>5. CASE Clear(w)
  <2>1. portal[w] \in Portals
    BY <1>0, <1>5 DEF Clear
  <2>2. CASE portal[w] = p
    BY <1>0, <1>5, <2>2, CauseReset DEF Clear, Goto
  <2>3. CASE portal[w] # p
    <3>1. failures'[p] = failures[p] /\ streak'[p] = streak[p] /\ \A v \in Workers : Quiet(v)
      BY <1>0, <1>5, <2>3 DEF Clear, Goto, StartsAfresh, Quiet
    <3>. QED BY <3>1, CauseQuiet
  <2>. QED BY <2>2, <2>3
<1>6. CASE ReadFailures(w)
  <2>1. CASE portal[w] = p
    BY <1>6, <2>1, CauseRead
  <2>2. CASE portal[w] # p
    <3>1. UNCHANGED <<failures, streak>> /\ \A v \in Workers : Quiet(v) \/ (portal[v] # p /\ portal'[v] # p)
      BY <1>0, <1>6, <2>2 DEF ReadFailures, Goto, rowVars, Quiet
    <3>. QED BY <3>1, CauseQuiet
  <2>. QED BY <2>1, <2>2
<1>7. CASE CountFailure(w)
  <2>1. CASE portal[w] = p
    BY <1>7, <2>1, CauseCounted
  <2>2. CASE portal[w] # p
    <3>1. /\ failures'[p] = failures[p] /\ streak'[p] = streak[p]
          /\ \A v \in Workers : Quiet(v) \/ (portal[v] # p /\ portal'[v] # p)
      BY <1>0, <1>7, <2>2 DEF CountFailure, Goto, Quiet
    <3>. QED BY <3>1, CauseQuiet
  <2>. QED BY <2>1, <2>2
<1>. QED BY <1>1, <1>2, <1>3, <1>4, <1>5, <1>6, <1>7 DEF Worker, Attempt

\* The steps of everybody else.
LEMMA CauseOthers ==
  ASSUME CauseInv,
         \/ \E c \in Cycles : Cycle(c)
         \/ \E o \in Operators : Operator(o)
         \/ \E x \in Procs : Crash(x)
         \/ \E p \in Portals : SyncPortal(p) \/ LeaseExpires(p) \/ ComesDue(p)
         \/ UNCHANGED vars
  PROVE  \A p \in Portals : CauseOf(p)'
<1>. SUFFICES ASSUME NEW p \in Portals PROVE CauseOf(p)'
  OBVIOUS
<1>0. pc \in [Procs -> Steps] /\ portal \in [Procs -> Portals \cup {None}] /\ seen \in [Procs -> Nat]
      /\ failures \in [Portals -> 0..DeadLetterMax] /\ streak \in [Portals -> 0..DeadLetterMax]
      /\ Cycles \subseteq Procs /\ Operators \subseteq Procs /\ Workers \subseteq Procs
      /\ Cycles \cap Workers = {} /\ Operators \cap Workers = {}
  BY PollAssumption DEF CauseInv, TypeInv, TypeOK, Procs
<1>1. CASE \E c \in Cycles : Cycle(c)
  <2>1. PICK c \in Cycles : Cycle(c)
    BY <1>1
  <2>2. UNCHANGED <<failures, streak>> /\ \A v \in Workers : Quiet(v)
    BY <1>0, <2>1 DEF Cycle, ListDue, FetchJobs, DiscoverFromRegistry, Goto, Return, rowVars, Quiet
  <2>. QED BY <2>2, CauseQuiet
<1>2. CASE \E o \in Operators : Operator(o)
  <2>1. PICK o \in Operators : Operator(o)
    BY <1>2
  <2>2. CASE (\E q \in Portals : Requeue(o, q)) \/ ResolveDeadLetter(o)
    <3>1. UNCHANGED <<failures, streak>> /\ \A v \in Workers : Quiet(v)
      BY <1>0, <2>2 DEF Requeue, ResolveDeadLetter, Goto, Return, rowVars, Quiet
    <3>. QED BY <3>1, CauseQuiet
  <2>3. CASE ResetFailureCounters(o)
    <3>1. CASE portal[o] = p
      BY <1>0, <2>3, <3>1, CauseReset DEF ResetFailureCounters, Goto
    <3>2. CASE portal[o] # p
      <4>1. failures'[p] = failures[p] /\ streak'[p] = streak[p] /\ \A v \in Workers : Quiet(v)
        BY <1>0, <2>3, <3>2 DEF ResetFailureCounters, Goto, StartsAfresh, Quiet
      <4>. QED BY <4>1, CauseQuiet
    <3>. QED BY <3>1, <3>2
  <2>. QED BY <2>1, <2>2, <2>3 DEF Operator
<1>3. CASE \E x \in Procs : Crash(x)
  <2>1. UNCHANGED <<failures, streak>> /\ \A v \in Workers : Quiet(v)
    BY <1>0, <1>3 DEF Crash, Goto, Return, rowVars, Quiet
  <2>. QED BY <2>1, CauseQuiet
<1>4. CASE \/ \E q \in Portals : SyncPortal(q) \/ LeaseExpires(q) \/ ComesDue(q)
           \/ UNCHANGED vars
  <2>1. UNCHANGED <<failures, streak>> /\ \A v \in Workers : Quiet(v)
    BY <1>4 DEF SyncPortal, LeaseExpires, ComesDue, vars, rowVars, procVars, Quiet
  <2>. QED BY <2>1, CauseQuiet
<1>. QED BY <1>1, <1>2, <1>3, <1>4

LEMMA CauseInitially == Init => CauseInv
<1>. SUFFICES ASSUME Init PROVE CauseInv
  OBVIOUS
<1>1. \A p \in Portals : Counting(p) = {} /\ failures[p] = 0 /\ streak[p] = 0
  BY DEF Init, Counting, Procs
<1>2. Cardinality({}) = 0
  BY FS_EmptySet
<1>3. \A w \in Workers : pc[w] = "idle"
  BY DEF Init, Procs
<1>. QED BY <1>1, <1>2, <1>3, TypeInit, PollAssumption DEF CauseInv, CauseOf, Upto

LEMMA CauseStep == CauseInv /\ [Next]_vars => CauseInv'
<1>. SUFFICES ASSUME CauseInv, [Next]_vars PROVE CauseInv'
  OBVIOUS
<1>1. TypeInv'
  BY TypeStep DEF CauseInv
<1>2. \A p \in Portals : CauseOf(p)'
  BY CauseWorker, CauseOthers DEF Next
<1>. QED BY <1>1, <1>2 DEF CauseInv

\* A letter is opened by an attempt that has seen the counter full.
LEMMA LettersHaveCause ==
  CauseInv /\ [Next]_vars =>
    \A p \in Portals : open'[p] /\ ~open[p] => streak[p] >= DeadLetterMax
<1>. SUFFICES ASSUME CauseInv, [Next]_vars, NEW p \in Portals, open'[p], ~open[p]
              PROVE  streak[p] >= DeadLetterMax
  OBVIOUS
<1>1. open \in [Portals -> BOOLEAN]
  BY DEF CauseInv, TypeInv, TypeOK
<1>2. PICK w \in Workers : UpsertDeadLetter(w)
  BY <1>1 DEF Next, Worker, Attempt, Cycle, Operator, Select, Claim, CooldownSkip, Begin, Probe, Clear,
     Fetch, Call, MarkPollResult, ReadFailures, CountFailure, Disable, Ack, ListDue, FetchJobs,
     DiscoverFromRegistry, Requeue, ResetFailureCounters, ResolveDeadLetter, Crash, SyncPortal,
     LeaseExpires, ComesDue, vars, letterVars
<1>3. portal[w] \in Portals /\ pc[w] = "record"
  BY <1>2 DEF UpsertDeadLetter, CauseInv, TypeInv, Placed, Procs
<1>4. portal[w] = p
  BY <1>1, <1>2, <1>3 DEF UpsertDeadLetter
<1>5. streak[p] = DeadLetterMax
  BY <1>3, <1>4 DEF CauseInv, CauseOf
<1>. QED BY <1>5, PollAssumption

\* Given up only for DeadLetterMax permanent failures with nothing that answered among
\* them, however requeues, attempts and lapsing leases overlap.
THEOREM PortalsAreGivenUpForCause == Spec => GivenUpForCause
<1>1. CauseInv /\ [Next]_vars =>
        [\A p \in Portals : open'[p] /\ ~open[p] => streak[p] >= DeadLetterMax]_vars
  BY LettersHaveCause
<1>. QED BY CauseInitially, CauseStep, <1>1, PTL DEF Spec, GivenUpForCause

-----------------------------------------------------------------------------
(* The leases of the portals.                                              *)

\* Every step is one of a portal's lease or leaves it alone.
LEMMA LeaseMoves ==
  ASSUME TypeInv, [Next]_vars, NEW p \in Portals
  PROVE  [Lease(p)!Next]_(Lease(p)!LeaseVars)
<1>. USE DEF Lease!Next, Lease!LeaseVars, leaseVars
<1>1. ASSUME NEW w \in Workers, Claim(w) PROVE [Lease(p)!Next]_(Lease(p)!LeaseVars)
  <2>1. CASE portal[w] = p /\ ~live[p] /\ owner' = [owner EXCEPT ![p] = w]
             /\ live' = [live EXCEPT ![p] = TRUE]
    BY <2>1 DEF Lease!Take, TypeInv, TypeOK
  <2>2. CASE portal[w] # p \/ UNCHANGED leaseVars
    BY <1>1, <2>2 DEF Claim, TypeInv, TypeOK
  <2>. QED BY <1>1, <2>1, <2>2 DEF Claim
<1>2. ASSUME NEW w \in Workers, CooldownSkip(w) PROVE [Lease(p)!Next]_(Lease(p)!LeaseVars)
  BY <1>2 DEF CooldownSkip, Lease!Renew, TypeInv, TypeOK
<1>3. ASSUME NEW w \in Workers, Ack(w) PROVE [Lease(p)!Next]_(Lease(p)!LeaseVars)
  BY <1>3 DEF Ack, Release, Lease!GiveBack, TypeInv, TypeOK
<1>4. ASSUME NEW w \in Workers, (\E q \in Portals : Select(w, q)) \/ Begin(w)
      PROVE  UNCHANGED leaseVars
  BY <1>4 DEF Select, Begin
<1>5. ASSUME NEW w \in Workers, Attempt(w), ~Ack(w) PROVE UNCHANGED leaseVars
  BY <1>5 DEF Attempt, Probe, Clear, Fetch, Call, MarkPollResult, ReadFailures, CountFailure,
              UpsertDeadLetter, Disable
<1>6. ASSUME NEW c \in Cycles, Cycle(c) PROVE UNCHANGED leaseVars
  BY <1>6 DEF Cycle, ListDue, FetchJobs, DiscoverFromRegistry
<1>7. ASSUME NEW o \in Operators, Operator(o) PROVE UNCHANGED leaseVars
  BY <1>7 DEF Operator, Requeue, ResetFailureCounters, ResolveDeadLetter
<1>8. ASSUME NEW x \in Procs, Crash(x) PROVE UNCHANGED leaseVars
  BY <1>8 DEF Crash
<1>9. ASSUME NEW q \in Portals, LeaseExpires(q) PROVE [Lease(p)!Next]_(Lease(p)!LeaseVars)
  BY <1>9 DEF LeaseExpires, Lease!Lapse, TypeInv, TypeOK
<1>10. ASSUME NEW q \in Portals, SyncPortal(q) \/ ComesDue(q) PROVE UNCHANGED leaseVars
  BY <1>10 DEF SyncPortal, ComesDue
<1>11. UNCHANGED vars => UNCHANGED leaseVars
  BY DEF vars
<1>. QED BY <1>1, <1>2, <1>3, <1>4, <1>5, <1>6, <1>7, <1>8, <1>9, <1>10, <1>11 DEF Next, Worker

\* The lease of every portal implements the exclusive lease of ExclusiveLease, lapsing
\* leases, crashes and late releases included (workers/leasing.py).
THEOREM LeasesImplemented == Spec => LeasesAreExclusive
<1>. SUFFICES ASSUME NEW p \in Portals PROVE Spec => Lease(p)!Spec
  BY DEF LeasesAreExclusive
<1>1. Init => Lease(p)!Init
  BY DEF Init, Lease!Init
<1>2. TypeInv /\ [Next]_vars => [Lease(p)!Next]_(Lease(p)!LeaseVars)
  BY LeaseMoves
<1>. QED BY <1>1, <1>2, TypeInit, TypeStep, PTL DEF Spec, Lease!Spec

-----------------------------------------------------------------------------
(* The fleet behind its circuit is a poll queue.                           *)

\* Whatever a worker does with its portal is a step of PollQueue, or leaves it
\* alone while the circuit is asked or told.
LEMMA WorkIsPolling ==
  ASSUME NEW w \in Workers, Work(w)
  PROVE  Next \/ UNCHANGED vars
<1>1. CASE MayAttempt(w) \/ NoSlot(w) \/ RecordAnswer(w) \/ RecordFailure(w) \/ RecordDrift(w) \/ Leave(w)
  BY <1>1 DEF MayAttempt, NoSlot, RecordAnswer, RecordFailure, RecordDrift, Leave
<1>2. CASE TurnedAway(w) \/ GiveUp(w)
  <2>1. CooldownSkip(w)
    BY <1>2 DEF TurnedAway, GiveUp
  <2>. QED BY <2>1 DEF Next, Worker
<1>3. CASE TakeSlot(w)
  <2>1. Begin(w)
    BY <1>3 DEF TakeSlot
  <2>. QED BY <2>1 DEF Next, Worker
<1>4. CASE ProbePortal(w) \/ FetchPortal(w) \/ CountPortal(w) \/ AckPortal(w)
  <2>1. Attempt(w)
    BY <1>4 DEF ProbePortal, FetchPortal, CountPortal, AckPortal, Attempt
  <2>. QED BY <2>1 DEF Next, Worker
<1>. QED BY <1>1, <1>2, <1>3, <1>4 DEF Work

LEMMA FleetStep == [FleetNext]_allVars => [Next]_vars
<1>1. UNCHANGED allVars => UNCHANGED vars
  BY DEF allVars
<1>2. ASSUME NEW w \in Workers, NEW p \in Portals, SelectPortal(w, p) PROVE Next
  BY <1>2 DEF SelectPortal, Next, Worker
<1>3. ASSUME NEW w \in Workers, ClaimPortal(w) PROVE Next
  BY <1>3 DEF ClaimPortal, Next, Worker
<1>4. ASSUME NEW w \in Workers, CrashLeaving(w) PROVE UNCHANGED vars
  BY <1>4 DEF CrashLeaving
<1>5. ASSUME NEW c \in Cycles, Cycle(c) PROVE Next
  BY <1>5 DEF Next
<1>6. ASSUME NEW o \in Operators, Operator(o) PROVE Next
  BY <1>6 DEF Next
<1>7. ASSUME NEW x \in Procs, FleetCrash(x) PROVE Next
  BY <1>7 DEF FleetCrash, Next
<1>8. ASSUME NEW p \in Portals, SyncPortal(p) \/ LeaseExpires(p) \/ ComesDue(p) PROVE Next
  BY <1>8 DEF Next
<1>9. CooldownElapses \/ AdminCloses \/ AdminProbes => UNCHANGED vars
  BY DEF CooldownElapses, AdminCloses, AdminProbes
<1>. QED BY <1>1, <1>2, <1>3, <1>4, <1>5, <1>6, <1>7, <1>8, <1>9, WorkIsPolling DEF FleetNext

\* The circuit only takes away from what the poll queue may do: whatever is proved
\* of the queue holds of the fleet behind its circuit.
THEOREM FleetImplementsQueue == FleetSpec => Spec
<1>1. FleetInit => Init
  BY DEF FleetInit
<1>. QED BY <1>1, FleetStep, PTL DEF FleetSpec, Spec

=============================================================================

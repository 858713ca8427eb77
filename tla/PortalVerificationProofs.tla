---------------------- MODULE PortalVerificationProofs ----------------------
(***************************************************************************)
(* What the verification of a portal guarantees for every number of        *)
(* workers, desks, failures, requests and faults: only confirmed portals   *)
(* are polled, none is given up without its failures, a live lease is      *)
(* kept, and one worker verifies at a time as long as none is late.        *)
(***************************************************************************)
EXTENDS PortalVerification, TLAPS

\* The types of the calls, and those of the rest.
CallTypes ==
  /\ pc \in [Callers -> Steps]
  /\ result \in [Callers -> VerificationResult \cup {None}]
  /\ seen \in [Callers -> Portals \cup {None}]

RowTypes ==
  /\ portal \in Portals /\ mirror \in {"none", "on", "off"} /\ letter \in BOOLEAN
  /\ holder \in Workers \cup {None} /\ live \in BOOLEAN
  /\ confirmed \in BOOLEAN /\ doubted \in BOOLEAN
  /\ crossed \in Callers \cup {"yes", "no"}
  /\ evidence \in 0..Threshold /\ faults \in 0..MaxFaults
  /\ provider \in ProviderRows

\* A call that writes an outcome has one, and the row it was read with.
CallsMakeSense ==
  \A c \in Callers : pc[c] = "apply" => seen[c] \in Portals /\ result[c] \in VerificationResult

\* A probe confirmed whatever is verified, polled, or about to be.
Confirmed ==
  /\ OnlyVerifiedPolled
  /\ portal.linked => confirmed
  /\ \A c \in Callers : /\ pc[c] \in {"mirrorOn", "activate", "mirrorOff"} => confirmed
                        /\ pc[c] = "apply" /\ result[c] = "VERIFIED" => confirmed

\* Neither the counter nor what a call is about to make of it exceeds the failures
\* that were seen.
Counted ==
  /\ portal.failures <= evidence
  /\ \A c \in Callers :
       /\ pc[c] = "apply" /\ result[c] = "FAILED" => More(seen[c].failures) <= evidence
       /\ pc[c] = "apply" /\ result[c] = "AMBIGUOUS" => doubted

\* While no race is unhealed, whoever is about to write the mirror, or the portal
\* with it, has a reason that still holds; an enabled mirror belongs to a linked
\* portal, or to one that is being linked; and a mirror that does not follow its
\* portal has a sync on its way.  A caller that heals a race is alone in its sync.
Mirrored ==
  /\ portal.linked => portal.status # "CANDIDATE"
  /\ crossed # "yes" => \A c \in Callers :
       /\ pc[c] \in {"mirrorOn", "activate"} => portal.status \in Pollable /\ portal.enabled
       /\ pc[c] = "mirrorOff" => portal.linked /\ (portal.status \in Regressed \/ ~portal.enabled)
  /\ crossed = "no" /\ mirror = "on" =>
       /\ portal.linked \/ \E c \in Callers : pc[c] = "activate"
       /\ (portal.status = "ACTIVE" /\ portal.enabled) \/ \E c \in Callers : pc[c] \in Syncing
  /\ crossed \in Callers =>
       /\ pc[crossed] \in {"mirrorOn", "activate", "mirrorOff"}
       /\ \A d \in Callers \ {crossed} : pc[d] \notin Syncing

\* While nothing went wrong, an attempting worker holds the live lease.
HoldersVerify == faults = 0 => \A w \in Workers : Attempting(w) => holder = w /\ live

LeaseStep ==
  \A w \in Workers : holder = w /\ live /\ holder' # w => Attempting(w) /\ pc'[w] = "idle"

DemotionStep ==
  LET now == portal'.status IN
  now \in Regressed /\ now # portal.status
    => evidence >= Threshold \/ (now = "QUARANTINED" /\ doubted')

\* Every step but the count of the requests.
Act ==
  \/ \E c \in Callers :
       \/ Probe(c) \/ ApplyOutcome(c) \/ Sync(c) \/ MirrorOn(c) \/ Activate(c) \/ MirrorOff(c)
       \/ After(c) \/ WriteLetter(c) \/ Disable(c) \/ Finish(c) \/ Fail(c)
  \/ \E w \in Workers : Select(w) \/ Take(w) \/ Refuse(w) \/ Enter(w)
  \/ \E d \in Desks : pc[d] = "idle" /\ (Verify(d) \/ Edit(d) \/ Requeue(d))
  \/ \E d \in Desks : Reset(d) \/ Resolve(d)
  \/ LeaseLapses \/ Outlast \/ PollsGiveUp \/ PollsRequeued

LEMMA NextActs ==
  ASSUME requests \in 0..MaxRequests, Next
  PROVE  Act /\ requests' \in 0..MaxRequests
<1>1. Act
  BY DEF Next, Request, Work, Serve, Attempt, Act
<1>2. requests' \in 0..MaxRequests
  BY VerificationAssumption DEF Next, Request
<1>. QED BY <1>1, <1>2


\* Every step keeps the types of the calls.
LEMMA ActKeepsCallTypes ==
  ASSUME CallTypes, RowTypes, Act
  PROVE  CallTypes'
<1>. USE VerificationAssumption DEF CallTypes, RowTypes, Steps, Relying, Syncing, Callers, Goto, Return
<1>1. ASSUME NEW c \in Callers, Probe(c) PROVE CallTypes'
  BY <1>1 DEF Probe
<1>2. ASSUME NEW c \in Callers, ApplyOutcome(c) PROVE CallTypes'
  BY <1>2 DEF ApplyOutcome
<1>3. ASSUME NEW c \in Callers, Sync(c) PROVE CallTypes'
  BY <1>3 DEF Sync, Branch
<1>4. ASSUME NEW c \in Callers, MirrorOn(c) PROVE CallTypes'
  BY <1>4 DEF MirrorOn
<1>5. ASSUME NEW c \in Callers, Activate(c) PROVE CallTypes'
  BY <1>5 DEF Activate
<1>6. ASSUME NEW c \in Callers, MirrorOff(c) PROVE CallTypes'
  BY <1>6 DEF MirrorOff
<1>7. ASSUME NEW c \in Callers, After(c) PROVE CallTypes'
  BY <1>7 DEF After
<1>8. ASSUME NEW c \in Callers, WriteLetter(c) PROVE CallTypes'
  BY <1>8 DEF WriteLetter
<1>9. ASSUME NEW c \in Callers, Disable(c) PROVE CallTypes'
  BY <1>9 DEF Disable
<1>10. ASSUME NEW c \in Callers, Finish(c) PROVE CallTypes'
  BY <1>10 DEF Finish, Extend, Free
<1>11. ASSUME NEW c \in Callers, Fail(c) PROVE CallTypes'
  BY <1>11 DEF Fail, Free
<1>12. ASSUME NEW w \in Workers, Select(w) PROVE CallTypes'
  BY <1>12 DEF Select
<1>13. ASSUME NEW w \in Workers, Take(w) PROVE CallTypes'
  BY <1>13 DEF Take, MayTake
<1>14. ASSUME NEW w \in Workers, Refuse(w) PROVE CallTypes'
  BY <1>14 DEF Refuse, Extend
<1>15. ASSUME NEW d \in Desks, Verify(d) PROVE CallTypes'
  BY <1>15 DEF Verify
<1>16. ASSUME NEW d \in Desks, Edit(d) PROVE CallTypes'
  BY <1>16 DEF Edit
<1>17. ASSUME NEW d \in Desks, Requeue(d) PROVE CallTypes'
  BY <1>17 DEF Requeue
<1>18. ASSUME NEW d \in Desks, Reset(d) PROVE CallTypes'
  BY <1>18 DEF Reset
<1>19. ASSUME NEW d \in Desks, Resolve(d) PROVE CallTypes'
  BY <1>19 DEF Resolve
<1>20. ASSUME LeaseLapses PROVE CallTypes'
  BY <1>20 DEF LeaseLapses
<1>21. ASSUME Outlast PROVE CallTypes'
  BY <1>21 DEF Outlast
<1>22. ASSUME PollsGiveUp PROVE CallTypes'
  BY <1>22 DEF PollsGiveUp
<1>23. ASSUME PollsRequeued PROVE CallTypes'
  BY <1>23 DEF PollsRequeued
<1>24. ASSUME NEW w \in Workers, Enter(w) PROVE CallTypes'
  BY <1>24 DEF Enter
<1>. QED
    BY ONLY Act, <1>1, <1>2, <1>3, <1>4, <1>5, <1>6, <1>7, <1>8, <1>9, <1>10, <1>11,
     <1>12, <1>13, <1>14, <1>15, <1>16, <1>17, <1>18, <1>19, <1>20, <1>21, <1>22, <1>23, <1>24
     DEF Act

\* Every step keeps the types of the rows and of the history.
LEMMA ActKeepsRowTypes ==
  ASSUME CallTypes, RowTypes, CallsMakeSense, Act
  PROVE  RowTypes'
<1>. USE VerificationAssumption DEF CallTypes, RowTypes, CallsMakeSense, Portals, PortalStatus, Callers, rows, lease, ghost, Cross, Heal, Untouched, More
<1>1. ASSUME NEW c \in Callers, Probe(c) PROVE RowTypes'
  <2>1. evidence' \in 0..Threshold
    BY <1>1 DEF Probe
  <2>2. provider' \in ProviderRows
    BY <1>1 DEF Probe, ProviderRows
  <2>. QED BY <1>1, <2>1, <2>2 DEF Probe
<1>2. ASSUME NEW c \in Callers, ApplyOutcome(c) PROVE RowTypes'
  <2>1. seen[c] \in Portals /\ result[c] \in VerificationResult
    BY <1>2 DEF ApplyOutcome
  <2>2. NextFailures(seen[c], result[c]) \in 0..Threshold
    BY <2>1 DEF NextFailures
  <2>3. \A n \in 0..Threshold : NextStatus(seen[c], result[c], n) \in PortalStatus
    BY <2>1 DEF NextStatus, VerificationResult, Pollable
  <2>4. portal' \in Portals
    BY <1>2, <2>2, <2>3 DEF ApplyOutcome
  <2>5. evidence' \in 0..Threshold
    BY <1>2 DEF ApplyOutcome
  <2>. QED BY <1>2, <2>4, <2>5 DEF ApplyOutcome
<1>3. ASSUME NEW c \in Callers, Sync(c) PROVE RowTypes'
  BY <1>3 DEF Sync, Branch
<1>4. ASSUME NEW c \in Callers, MirrorOn(c) PROVE RowTypes'
  BY <1>4 DEF MirrorOn
<1>5. ASSUME NEW c \in Callers, Activate(c) PROVE RowTypes'
  BY <1>5 DEF Activate
<1>6. ASSUME NEW c \in Callers, MirrorOff(c) PROVE RowTypes'
  BY <1>6 DEF MirrorOff
<1>7. ASSUME NEW c \in Callers, After(c) PROVE RowTypes'
  BY <1>7 DEF After
<1>8. ASSUME NEW c \in Callers, WriteLetter(c) PROVE RowTypes'
  BY <1>8 DEF WriteLetter
<1>9. ASSUME NEW c \in Callers, Disable(c) PROVE RowTypes'
  BY <1>9 DEF Disable
<1>10. ASSUME NEW c \in Callers, Finish(c) PROVE RowTypes'
  <2>1. provider' \in ProviderRows
    BY <1>10 DEF Finish, ReturnSlot, ProviderRows
  <2>2. holder' \in Workers \cup {None} /\ live' \in BOOLEAN
    BY <1>10 DEF Finish, Extend, Free
  <2>. QED BY <1>10, <2>1, <2>2 DEF Finish
<1>11. ASSUME NEW c \in Callers, Fail(c) PROVE RowTypes'
  <2>1. faults' \in 0..MaxFaults
    BY <1>11 DEF Fail
  <2>2. holder' \in Workers \cup {None} /\ live' \in BOOLEAN
    BY <1>11 DEF Fail, Free
  <2>3. crossed' \in Callers \cup {"yes", "no"} /\ UNCHANGED <<rows, confirmed, evidence, doubted>>
    BY <1>11 DEF Fail
  <2>4. provider' \in ProviderRows
    <3>1. provider.inflight \in 0..Slots /\ provider.probeLost \in BOOLEAN
      BY DEF ProviderRows
    <3>2. Leave(c) => provider' \in ProviderRows
      BY <3>1 DEF Leave, ProviderRows
    <3>. QED BY <1>11, <3>2 DEF Fail
  <2>. QED BY <2>1, <2>2, <2>3, <2>4
<1>12. ASSUME NEW w \in Workers, Select(w) PROVE RowTypes'
  BY <1>12 DEF Select
<1>13. ASSUME NEW w \in Workers, Take(w) PROVE RowTypes'
  <2>1. holder' \in Workers \cup {None} /\ live' \in BOOLEAN
    BY <1>13 DEF Take
  <2>2. UNCHANGED <<rows, ghost, provider, faults>>
    BY <1>13 DEF Take
  <2>. QED BY <2>1, <2>2
<1>14. ASSUME NEW w \in Workers, Refuse(w) PROVE RowTypes'
  <2>1. holder' \in Workers \cup {None} /\ live' \in BOOLEAN
    BY <1>14 DEF Refuse, Extend
  <2>2. UNCHANGED <<rows, ghost, provider, faults>>
    BY <1>14 DEF Refuse
  <2>. QED BY <2>1, <2>2
<1>15. ASSUME NEW d \in Desks, Verify(d) PROVE RowTypes'
  BY <1>15 DEF Verify
<1>16. ASSUME NEW d \in Desks, Edit(d) PROVE RowTypes'
  BY <1>16 DEF Edit
<1>17. ASSUME NEW d \in Desks, Requeue(d) PROVE RowTypes'
  BY <1>17 DEF Requeue
<1>18. ASSUME NEW d \in Desks, Reset(d) PROVE RowTypes'
  <2> DEFINE p == [portal EXCEPT !.enabled = TRUE]
  <2>1. p \in Portals
    OBVIOUS
  <2>. HIDE DEF p
  <2>2. [p EXCEPT !.failures = 0] \in Portals
    BY <2>1
  <2>3. portal' \in Portals
    BY <1>18, <2>2 DEF Reset, p
  <2>. QED BY <1>18, <2>3 DEF Reset
<1>19. ASSUME NEW d \in Desks, Resolve(d) PROVE RowTypes'
  BY <1>19 DEF Resolve
<1>20. ASSUME LeaseLapses PROVE RowTypes'
  BY <1>20 DEF LeaseLapses
<1>21. ASSUME Outlast PROVE RowTypes'
  <2>1. faults' \in 0..MaxFaults
    BY <1>21 DEF Outlast
  <2>. QED BY <1>21, <2>1 DEF Outlast
<1>22. ASSUME PollsGiveUp PROVE RowTypes'
  BY <1>22 DEF PollsGiveUp
<1>23. ASSUME PollsRequeued PROVE RowTypes'
  BY <1>23 DEF PollsRequeued
<1>24. ASSUME NEW w \in Workers, Enter(w) PROVE RowTypes'
  <2>1. provider' \in ProviderRows
    BY <1>24 DEF Enter, ProviderRows
  <2>. QED BY <1>24, <2>1 DEF Enter
<1>. QED
    BY ONLY Act, <1>1, <1>2, <1>3, <1>4, <1>5, <1>6, <1>7, <1>8, <1>9, <1>10, <1>11,
     <1>12, <1>13, <1>14, <1>15, <1>16, <1>17, <1>18, <1>19, <1>20, <1>21, <1>22, <1>23, <1>24
     DEF Act

\* A call knows what it relies on.
LEMMA ActKeepsSense ==
  ASSUME CallTypes, RowTypes, CallsMakeSense, Act
  PROVE  CallsMakeSense'
<1>. USE VerificationAssumption DEF CallTypes, CallsMakeSense, Callers, Goto, Return
<1>1. ASSUME NEW c \in Callers, Probe(c) PROVE CallsMakeSense'
  BY <1>1 DEF Probe, RowTypes
<1>2. ASSUME NEW c \in Callers, ApplyOutcome(c) PROVE CallsMakeSense'
  BY <1>2 DEF ApplyOutcome
<1>3. ASSUME NEW c \in Callers, Sync(c) PROVE CallsMakeSense'
  BY <1>3 DEF Sync, Branch
<1>4. ASSUME NEW c \in Callers, MirrorOn(c) PROVE CallsMakeSense'
  BY <1>4 DEF MirrorOn
<1>5. ASSUME NEW c \in Callers, Activate(c) PROVE CallsMakeSense'
  BY <1>5 DEF Activate
<1>6. ASSUME NEW c \in Callers, MirrorOff(c) PROVE CallsMakeSense'
  BY <1>6 DEF MirrorOff
<1>7. ASSUME NEW c \in Callers, After(c) PROVE CallsMakeSense'
  BY <1>7 DEF After
<1>8. ASSUME NEW c \in Callers, WriteLetter(c) PROVE CallsMakeSense'
  BY <1>8 DEF WriteLetter
<1>9. ASSUME NEW c \in Callers, Disable(c) PROVE CallsMakeSense'
  BY <1>9 DEF Disable
<1>10. ASSUME NEW c \in Callers, Finish(c) PROVE CallsMakeSense'
  BY <1>10 DEF Finish, Extend, Free
<1>11. ASSUME NEW c \in Callers, Fail(c) PROVE CallsMakeSense'
  BY <1>11 DEF Fail, Free
<1>12. ASSUME NEW w \in Workers, Select(w) PROVE CallsMakeSense'
  BY <1>12 DEF Select
<1>13. ASSUME NEW w \in Workers, Take(w) PROVE CallsMakeSense'
  BY <1>13 DEF Take, MayTake
<1>14. ASSUME NEW w \in Workers, Refuse(w) PROVE CallsMakeSense'
  BY <1>14 DEF Refuse, Extend
<1>15. ASSUME NEW d \in Desks, Verify(d) PROVE CallsMakeSense'
  BY <1>15 DEF Verify
<1>16. ASSUME NEW d \in Desks, Edit(d) PROVE CallsMakeSense'
  BY <1>16 DEF Edit
<1>17. ASSUME NEW d \in Desks, Requeue(d) PROVE CallsMakeSense'
  BY <1>17 DEF Requeue
<1>18. ASSUME NEW d \in Desks, Reset(d) PROVE CallsMakeSense'
  BY <1>18 DEF Reset
<1>19. ASSUME NEW d \in Desks, Resolve(d) PROVE CallsMakeSense'
  BY <1>19 DEF Resolve
<1>20. ASSUME LeaseLapses PROVE CallsMakeSense'
  BY <1>20 DEF LeaseLapses
<1>21. ASSUME Outlast PROVE CallsMakeSense'
  BY <1>21 DEF Outlast
<1>22. ASSUME PollsGiveUp PROVE CallsMakeSense'
  BY <1>22 DEF PollsGiveUp
<1>23. ASSUME PollsRequeued PROVE CallsMakeSense'
  BY <1>23 DEF PollsRequeued
<1>24. ASSUME NEW w \in Workers, Enter(w) PROVE CallsMakeSense'
  BY <1>24 DEF Enter
<1>. QED
    BY ONLY Act, <1>1, <1>2, <1>3, <1>4, <1>5, <1>6, <1>7, <1>8, <1>9, <1>10, <1>11,
     <1>12, <1>13, <1>14, <1>15, <1>16, <1>17, <1>18, <1>19, <1>20, <1>21, <1>22, <1>23, <1>24
     DEF Act

\* Whatever is verified or polled was confirmed by a probe.
LEMMA ActKeepsConfirmed ==
  ASSUME CallTypes, RowTypes, CallsMakeSense, Confirmed, Act
  PROVE  Confirmed'
<1>. USE VerificationAssumption DEF CallTypes, RowTypes, CallsMakeSense, Confirmed, OnlyVerifiedPolled, Portals, PortalStatus, Pollable, Callers, Goto, Return, rows, ghost, Untouched
<1>1. ASSUME NEW c \in Callers, Probe(c) PROVE Confirmed'
  BY <1>1 DEF Probe
<1>2. ASSUME NEW c \in Callers, ApplyOutcome(c) PROVE Confirmed'
  <2>1. seen[c] \in Portals /\ result[c] \in VerificationResult
    BY <1>2 DEF ApplyOutcome
  <2>2. portal'.status \in Pollable => portal.status \in Pollable \/ result[c] = "VERIFIED"
    BY <1>2, <2>1 DEF ApplyOutcome, NextStatus, VerificationResult
  <2>3. UNCHANGED <<mirror, confirmed>> /\ portal'.linked = portal.linked
        /\ \A d \in Callers : pc'[d] \in {pc[d], "sync"}
    BY <1>2 DEF ApplyOutcome
  <2>4. \A d \in Callers : pc'[d] = "apply" => result'[d] = result[d]
    BY <1>2 DEF ApplyOutcome
  <2>5. pc[c] = "apply"
    BY <1>2 DEF ApplyOutcome
  <2>. QED BY <2>2, <2>3, <2>4, <2>5
<1>3. ASSUME NEW c \in Callers, Sync(c) PROVE Confirmed'
  BY <1>3 DEF Sync, Branch
<1>4. ASSUME NEW c \in Callers, MirrorOn(c) PROVE Confirmed'
  BY <1>4 DEF MirrorOn
<1>5. ASSUME NEW c \in Callers, Activate(c) PROVE Confirmed'
  BY <1>5 DEF Activate
<1>6. ASSUME NEW c \in Callers, MirrorOff(c) PROVE Confirmed'
  BY <1>6 DEF MirrorOff
<1>7. ASSUME NEW c \in Callers, After(c) PROVE Confirmed'
  BY <1>7 DEF After
<1>8. ASSUME NEW c \in Callers, WriteLetter(c) PROVE Confirmed'
  BY <1>8 DEF WriteLetter
<1>9. ASSUME NEW c \in Callers, Disable(c) PROVE Confirmed'
  BY <1>9 DEF Disable
<1>10. ASSUME NEW c \in Callers, Finish(c) PROVE Confirmed'
  BY <1>10 DEF Finish, Extend, Free
<1>11. ASSUME NEW c \in Callers, Fail(c) PROVE Confirmed'
  BY <1>11 DEF Fail, Free
<1>12. ASSUME NEW w \in Workers, Select(w) PROVE Confirmed'
  BY <1>12 DEF Select
<1>13. ASSUME NEW w \in Workers, Take(w) PROVE Confirmed'
  BY <1>13 DEF Take, MayTake
<1>14. ASSUME NEW w \in Workers, Refuse(w) PROVE Confirmed'
  BY <1>14 DEF Refuse, Extend
<1>15. ASSUME NEW d \in Desks, Verify(d) PROVE Confirmed'
  BY <1>15 DEF Verify
<1>16. ASSUME NEW d \in Desks, Edit(d) PROVE Confirmed'
  BY <1>16 DEF Edit
<1>17. ASSUME NEW d \in Desks, Requeue(d) PROVE Confirmed'
  BY <1>17 DEF Requeue
<1>18. ASSUME NEW d \in Desks, Reset(d) PROVE Confirmed'
  BY <1>18 DEF Reset
<1>19. ASSUME NEW d \in Desks, Resolve(d) PROVE Confirmed'
  BY <1>19 DEF Resolve
<1>20. ASSUME LeaseLapses PROVE Confirmed'
  BY <1>20 DEF LeaseLapses
<1>21. ASSUME Outlast PROVE Confirmed'
  BY <1>21 DEF Outlast
<1>22. ASSUME PollsGiveUp PROVE Confirmed'
  BY <1>22 DEF PollsGiveUp
<1>23. ASSUME PollsRequeued PROVE Confirmed'
  BY <1>23 DEF PollsRequeued
<1>24. ASSUME NEW w \in Workers, Enter(w) PROVE Confirmed'
  BY <1>24 DEF Enter
<1>. QED
    BY ONLY Act, <1>1, <1>2, <1>3, <1>4, <1>5, <1>6, <1>7, <1>8, <1>9, <1>10, <1>11,
     <1>12, <1>13, <1>14, <1>15, <1>16, <1>17, <1>18, <1>19, <1>20, <1>21, <1>22, <1>23, <1>24
     DEF Act

\* No counter runs ahead of the evidence.
LEMMA ActKeepsCounted ==
  ASSUME CallTypes, RowTypes, CallsMakeSense, Counted, Act
  PROVE  Counted'
<1>. USE VerificationAssumption DEF CallTypes, RowTypes, CallsMakeSense, Counted, Portals, Callers, Goto, Return, rows, ghost, Untouched, More
<1>1. ASSUME NEW c \in Callers, Probe(c) PROVE Counted'
  <2>1. /\ UNCHANGED portal
        /\ evidence' = IF result'[c] = "FAILED" THEN More(evidence) ELSE evidence
        /\ doubted' = (doubted \/ result'[c] = "AMBIGUOUS")
        /\ seen'[c] = portal
    BY <1>1 DEF Probe
  <2>2. \A d \in Callers \ {c} : pc'[d] = pc[d] /\ result'[d] = result[d] /\ seen'[d] = seen[d]
    BY <1>1 DEF Probe
  <2>3. portal.failures \in 0..Threshold /\ evidence <= evidence'
    BY <2>1
  <2>4. result'[c] = "FAILED" => More(portal.failures) <= evidence'
    BY <2>1, <2>3
  <2>5. \A d \in Callers : pc[d] = "apply" => More(seen[d].failures) \in 0..Threshold
    OBVIOUS
  <2>6. evidence \in Nat /\ evidence' \in Nat
    BY <2>1
  <2>. HIDE DEF More
  <2>7. ASSUME NEW d \in Callers, pc'[d] = "apply", result'[d] = "FAILED"
        PROVE  More(seen'[d].failures) <= evidence'
    <3>1. CASE d = c
      BY <2>1, <2>4, <2>7, <3>1
    <3>2. CASE d # c
      <4>1. More(seen[d].failures) <= evidence /\ More(seen[d].failures) \in Nat
        BY <2>2, <2>5, <2>7, <3>2
      <4>. QED BY <2>2, <2>3, <2>6, <3>2, <4>1
    <3>. QED BY <3>1, <3>2
  <2>8. ASSUME NEW d \in Callers, pc'[d] = "apply", result'[d] = "AMBIGUOUS"
        PROVE  doubted'
    BY <2>1, <2>2, <2>8
  <2>9. portal'.failures <= evidence'
    BY <2>1, <2>3, <2>6
  <2>. QED BY <2>7, <2>8, <2>9
<1>2. ASSUME NEW c \in Callers, ApplyOutcome(c) PROVE Counted'
  <2>1. seen[c] \in Portals /\ result[c] \in VerificationResult /\ pc[c] = "apply"
    BY <1>2 DEF ApplyOutcome
  <2> DEFINE n == NextFailures(seen[c], result[c])
  <2>2. portal'.failures = IF result[c] \in {"VERIFIED", "FAILED"} THEN n ELSE portal.failures
    BY <1>2 DEF ApplyOutcome
  <2>3. result[c] = "VERIFIED" => n = 0
    BY DEF NextFailures
  <2>4. result[c] = "FAILED" => n <= evidence
    BY <2>1 DEF NextFailures
  <2>5. \A d \in Callers : pc'[d] = "apply" => /\ d # c /\ pc[d] = "apply"
                                             /\ result'[d] = result[d] /\ seen'[d] = seen[d]
    BY <1>2 DEF ApplyOutcome
  <2>6. doubted' = doubted
    BY <1>2 DEF ApplyOutcome
  <2>. HIDE DEF n
  <2>7. CASE result[c] = "VERIFIED" /\ Alone(c)
    <3>1. evidence' = 0 /\ portal'.failures = 0
      BY <1>2, <2>2, <2>3, <2>7 DEF ApplyOutcome
    <3>2. \A d \in Callers : pc'[d] # "apply"
      BY <2>5, <2>7 DEF Alone
    <3>. QED BY <3>1, <3>2
  <2>8. CASE ~(result[c] = "VERIFIED" /\ Alone(c))
    <3>1. evidence' = evidence
      BY <1>2, <2>8 DEF ApplyOutcome
    <3>2. portal'.failures <= evidence
      BY <2>2, <2>3, <2>4
    <3>. QED BY <2>5, <2>6, <3>1, <3>2
  <2>. QED BY <2>7, <2>8
<1>3. ASSUME NEW c \in Callers, Sync(c) PROVE Counted'
  BY <1>3 DEF Sync, Branch
<1>4. ASSUME NEW c \in Callers, MirrorOn(c) PROVE Counted'
  BY <1>4 DEF MirrorOn
<1>5. ASSUME NEW c \in Callers, Activate(c) PROVE Counted'
  BY <1>5 DEF Activate
<1>6. ASSUME NEW c \in Callers, MirrorOff(c) PROVE Counted'
  BY <1>6 DEF MirrorOff
<1>7. ASSUME NEW c \in Callers, After(c) PROVE Counted'
  BY <1>7 DEF After
<1>8. ASSUME NEW c \in Callers, WriteLetter(c) PROVE Counted'
  BY <1>8 DEF WriteLetter
<1>9. ASSUME NEW c \in Callers, Disable(c) PROVE Counted'
  BY <1>9 DEF Disable
<1>10. ASSUME NEW c \in Callers, Finish(c) PROVE Counted'
  BY <1>10 DEF Finish, Extend, Free
<1>11. ASSUME NEW c \in Callers, Fail(c) PROVE Counted'
  BY <1>11 DEF Fail, Free
<1>12. ASSUME NEW w \in Workers, Select(w) PROVE Counted'
  BY <1>12 DEF Select
<1>13. ASSUME NEW w \in Workers, Take(w) PROVE Counted'
  BY <1>13 DEF Take, MayTake
<1>14. ASSUME NEW w \in Workers, Refuse(w) PROVE Counted'
  BY <1>14 DEF Refuse, Extend
<1>15. ASSUME NEW d \in Desks, Verify(d) PROVE Counted'
  BY <1>15 DEF Verify
<1>16. ASSUME NEW d \in Desks, Edit(d) PROVE Counted'
  BY <1>16 DEF Edit
<1>17. ASSUME NEW d \in Desks, Requeue(d) PROVE Counted'
  BY <1>17 DEF Requeue
<1>18. ASSUME NEW d \in Desks, Reset(d) PROVE Counted'
  BY <1>18 DEF Reset
<1>19. ASSUME NEW d \in Desks, Resolve(d) PROVE Counted'
  BY <1>19 DEF Resolve
<1>20. ASSUME LeaseLapses PROVE Counted'
  BY <1>20 DEF LeaseLapses
<1>21. ASSUME Outlast PROVE Counted'
  BY <1>21 DEF Outlast
<1>22. ASSUME PollsGiveUp PROVE Counted'
  BY <1>22 DEF PollsGiveUp
<1>23. ASSUME PollsRequeued PROVE Counted'
  BY <1>23 DEF PollsRequeued
<1>24. ASSUME NEW w \in Workers, Enter(w) PROVE Counted'
  BY <1>24 DEF Enter
<1>. QED
    BY ONLY Act, <1>1, <1>2, <1>3, <1>4, <1>5, <1>6, <1>7, <1>8, <1>9, <1>10, <1>11,
     <1>12, <1>13, <1>14, <1>15, <1>16, <1>17, <1>18, <1>19, <1>20, <1>21, <1>22, <1>23, <1>24
     DEF Act

\* Whoever verifies holds the lease, as long as no attempt is late or dies.
LEMMA ActKeepsHolders ==
  ASSUME CallTypes, RowTypes, HoldersVerify, Act
  PROVE  HoldersVerify'
<1>. USE VerificationAssumption DEF CallTypes, RowTypes, HoldersVerify, Attempting, Callers, Goto, Return, lease
<1>1. ASSUME NEW c \in Callers, Probe(c) PROVE HoldersVerify'
  BY <1>1 DEF Probe
<1>2. ASSUME NEW c \in Callers, ApplyOutcome(c) PROVE HoldersVerify'
  BY <1>2 DEF ApplyOutcome
<1>3. ASSUME NEW c \in Callers, Sync(c) PROVE HoldersVerify'
  BY <1>3 DEF Sync, Branch
<1>4. ASSUME NEW c \in Callers, MirrorOn(c) PROVE HoldersVerify'
  BY <1>4 DEF MirrorOn
<1>5. ASSUME NEW c \in Callers, Activate(c) PROVE HoldersVerify'
  BY <1>5 DEF Activate
<1>6. ASSUME NEW c \in Callers, MirrorOff(c) PROVE HoldersVerify'
  BY <1>6 DEF MirrorOff
<1>7. ASSUME NEW c \in Callers, After(c) PROVE HoldersVerify'
  BY <1>7 DEF After
<1>8. ASSUME NEW c \in Callers, WriteLetter(c) PROVE HoldersVerify'
  BY <1>8 DEF WriteLetter
<1>9. ASSUME NEW c \in Callers, Disable(c) PROVE HoldersVerify'
  BY <1>9 DEF Disable
<1>10. ASSUME NEW c \in Callers, Finish(c) PROVE HoldersVerify'
  BY <1>10 DEF Finish, Extend, Free
<1>11. ASSUME NEW c \in Callers, Fail(c) PROVE HoldersVerify'
  BY <1>11 DEF Fail, Free
<1>12. ASSUME NEW w \in Workers, Select(w) PROVE HoldersVerify'
  BY <1>12 DEF Select
<1>13. ASSUME NEW w \in Workers, Take(w) PROVE HoldersVerify'
  BY <1>13 DEF Take, MayTake
<1>14. ASSUME NEW w \in Workers, Refuse(w) PROVE HoldersVerify'
  BY <1>14 DEF Refuse, Extend
<1>15. ASSUME NEW d \in Desks, Verify(d) PROVE HoldersVerify'
  BY <1>15 DEF Verify
<1>16. ASSUME NEW d \in Desks, Edit(d) PROVE HoldersVerify'
  BY <1>16 DEF Edit
<1>17. ASSUME NEW d \in Desks, Requeue(d) PROVE HoldersVerify'
  BY <1>17 DEF Requeue
<1>18. ASSUME NEW d \in Desks, Reset(d) PROVE HoldersVerify'
  BY <1>18 DEF Reset
<1>19. ASSUME NEW d \in Desks, Resolve(d) PROVE HoldersVerify'
  BY <1>19 DEF Resolve
<1>20. ASSUME LeaseLapses PROVE HoldersVerify'
  BY <1>20 DEF LeaseLapses
<1>21. ASSUME Outlast PROVE HoldersVerify'
  BY <1>21 DEF Outlast
<1>22. ASSUME PollsGiveUp PROVE HoldersVerify'
  BY <1>22 DEF PollsGiveUp
<1>23. ASSUME PollsRequeued PROVE HoldersVerify'
  BY <1>23 DEF PollsRequeued
<1>24. ASSUME NEW w \in Workers, Enter(w) PROVE HoldersVerify'
  BY <1>24 DEF Enter
<1>. QED
    BY ONLY Act, <1>1, <1>2, <1>3, <1>4, <1>5, <1>6, <1>7, <1>8, <1>9, <1>10, <1>11,
     <1>12, <1>13, <1>14, <1>15, <1>16, <1>17, <1>18, <1>19, <1>20, <1>21, <1>22, <1>23, <1>24
     DEF Act

\* No step takes a live lease from its holder, unless the holder ends.
LEMMA ActKeepsLease ==
  ASSUME CallTypes, Act
  PROVE  LeaseStep
<1>. USE VerificationAssumption DEF CallTypes, LeaseStep, Attempting, Callers, Goto, Return, lease
<1>1. ASSUME NEW c \in Callers, Probe(c) PROVE LeaseStep
  BY <1>1 DEF Probe
<1>2. ASSUME NEW c \in Callers, ApplyOutcome(c) PROVE LeaseStep
  BY <1>2 DEF ApplyOutcome
<1>3. ASSUME NEW c \in Callers, Sync(c) PROVE LeaseStep
  BY <1>3 DEF Sync, Branch
<1>4. ASSUME NEW c \in Callers, MirrorOn(c) PROVE LeaseStep
  BY <1>4 DEF MirrorOn
<1>5. ASSUME NEW c \in Callers, Activate(c) PROVE LeaseStep
  BY <1>5 DEF Activate
<1>6. ASSUME NEW c \in Callers, MirrorOff(c) PROVE LeaseStep
  BY <1>6 DEF MirrorOff
<1>7. ASSUME NEW c \in Callers, After(c) PROVE LeaseStep
  BY <1>7 DEF After
<1>8. ASSUME NEW c \in Callers, WriteLetter(c) PROVE LeaseStep
  BY <1>8 DEF WriteLetter
<1>9. ASSUME NEW c \in Callers, Disable(c) PROVE LeaseStep
  BY <1>9 DEF Disable
<1>10. ASSUME NEW c \in Callers, Finish(c) PROVE LeaseStep
  BY <1>10 DEF Finish, Extend, Free
<1>11. ASSUME NEW c \in Callers, Fail(c) PROVE LeaseStep
  BY <1>11 DEF Fail, Free
<1>12. ASSUME NEW w \in Workers, Select(w) PROVE LeaseStep
  BY <1>12 DEF Select
<1>13. ASSUME NEW w \in Workers, Take(w) PROVE LeaseStep
  BY <1>13 DEF Take, MayTake
<1>14. ASSUME NEW w \in Workers, Refuse(w) PROVE LeaseStep
  BY <1>14 DEF Refuse, Extend
<1>15. ASSUME NEW d \in Desks, Verify(d) PROVE LeaseStep
  BY <1>15 DEF Verify
<1>16. ASSUME NEW d \in Desks, Edit(d) PROVE LeaseStep
  BY <1>16 DEF Edit
<1>17. ASSUME NEW d \in Desks, Requeue(d) PROVE LeaseStep
  BY <1>17 DEF Requeue
<1>18. ASSUME NEW d \in Desks, Reset(d) PROVE LeaseStep
  BY <1>18 DEF Reset
<1>19. ASSUME NEW d \in Desks, Resolve(d) PROVE LeaseStep
  BY <1>19 DEF Resolve
<1>20. ASSUME LeaseLapses PROVE LeaseStep
  BY <1>20 DEF LeaseLapses
<1>21. ASSUME Outlast PROVE LeaseStep
  BY <1>21 DEF Outlast
<1>22. ASSUME PollsGiveUp PROVE LeaseStep
  BY <1>22 DEF PollsGiveUp
<1>23. ASSUME PollsRequeued PROVE LeaseStep
  BY <1>23 DEF PollsRequeued
<1>24. ASSUME NEW w \in Workers, Enter(w) PROVE LeaseStep
  BY <1>24 DEF Enter
<1>. QED
    BY ONLY Act, <1>1, <1>2, <1>3, <1>4, <1>5, <1>6, <1>7, <1>8, <1>9, <1>10, <1>11,
     <1>12, <1>13, <1>14, <1>15, <1>16, <1>17, <1>18, <1>19, <1>20, <1>21, <1>22, <1>23, <1>24
     DEF Act

\* Every step is one of the lease or leaves it alone.
LEMMA LeaseMoves ==
  ASSUME RowTypes, Act
  PROVE  [Lease!Next]_(Lease!LeaseVars)
<1>. USE DEF Lease!Next, Lease!LeaseVars, lease
<1>1. ASSUME NEW c \in Callers, Finish(c) PROVE [Lease!Next]_(Lease!LeaseVars)
  <2>1. /\ Free(c) \/ Extend(c)
        /\ holder = c => c \in Workers
    BY <1>1, VerificationAssumption DEF Finish, RowTypes, Callers
  <2>2. CASE holder = c
    BY <2>1, <2>2 DEF Extend, Free, RowTypes, Lease!Renew, Lease!GiveBack
  <2>3. CASE holder # c
    BY <2>1, <2>3 DEF Extend, Free, RowTypes
  <2>. QED BY <2>2, <2>3
<1>2. ASSUME NEW c \in Callers, Fail(c) PROVE [Lease!Next]_(Lease!LeaseVars)
  BY <1>2 DEF Fail, Free, RowTypes, Lease!GiveBack
<1>3. ASSUME NEW w \in Workers, Take(w) PROVE [Lease!Next]_(Lease!LeaseVars)
  BY <1>3 DEF Take, MayTake, Lease!Take
<1>4. ASSUME NEW w \in Workers, Refuse(w) PROVE [Lease!Next]_(Lease!LeaseVars)
  BY <1>4 DEF Refuse, Extend, RowTypes, Lease!Renew
<1>5. ASSUME LeaseLapses \/ Outlast PROVE [Lease!Next]_(Lease!LeaseVars)
  BY <1>5 DEF LeaseLapses, Outlast, Lease!Lapse
<1>6. ASSUME NEW c \in Callers, \/ Probe(c) \/ ApplyOutcome(c) \/ Sync(c) \/ MirrorOn(c) \/ Activate(c)
                                \/ MirrorOff(c) \/ After(c) \/ WriteLetter(c) \/ Disable(c)
      PROVE  UNCHANGED lease
  BY <1>6 DEF Probe, ApplyOutcome, Sync, Branch, MirrorOn, Activate, MirrorOff, After, WriteLetter,
              Disable
<1>7. ASSUME NEW w \in Workers, Select(w) \/ Enter(w) PROVE UNCHANGED lease
  BY <1>7 DEF Select, Enter
<1>8. ASSUME NEW d \in Desks, Verify(d) \/ Edit(d) \/ Requeue(d) \/ Reset(d) \/ Resolve(d)
      PROVE  UNCHANGED lease
  BY <1>8 DEF Verify, Edit, Requeue, Reset, Resolve
<1>9. ASSUME PollsGiveUp \/ PollsRequeued PROVE UNCHANGED lease
  BY <1>9 DEF PollsGiveUp, PollsRequeued
<1>. QED BY <1>1, <1>2, <1>3, <1>4, <1>5, <1>6, <1>7, <1>8, <1>9 DEF Act

\* No step demotes a portal without the evidence.
LEMMA ActDemotes ==
  ASSUME CallTypes, RowTypes, CallsMakeSense, Counted, Act
  PROVE  DemotionStep
<1>. USE VerificationAssumption DEF CallTypes, RowTypes, CallsMakeSense, Counted, Portals, PortalStatus, Regressed, Callers, rows, ghost, Untouched, DemotionStep
<1>1. ASSUME NEW c \in Callers, Probe(c) PROVE DemotionStep
  BY <1>1 DEF Probe
<1>2. ASSUME NEW c \in Callers, ApplyOutcome(c) PROVE DemotionStep
  <2>1. seen[c] \in Portals /\ result[c] \in VerificationResult /\ pc[c] = "apply"
    BY <1>2 DEF ApplyOutcome
  <2> DEFINE n == NextFailures(seen[c], result[c])
             s == NextStatus(seen[c], result[c], n)
  <2>2. portal'.status = IF s # seen[c].status \/ result[c] = "AMBIGUOUS" THEN s ELSE portal.status
    BY <1>2 DEF ApplyOutcome
  <2>3. s # seen[c].status /\ s \in Regressed
          => \/ result[c] = "FAILED" /\ n >= Threshold
             \/ result[c] = "AMBIGUOUS" /\ s = "QUARANTINED"
    BY <2>1 DEF NextStatus
  <2>4. result[c] = "AMBIGUOUS" => s = "QUARANTINED" /\ doubted
    BY <2>1 DEF NextStatus
  <2>5. result[c] = "FAILED" => n = More(seen[c].failures) /\ n <= evidence
    BY <2>1 DEF NextFailures
  <2>6. n \in 0..Threshold
    BY <2>1 DEF NextFailures, More
  <2>7. doubted' = doubted
    BY <1>2 DEF ApplyOutcome
  <2>. HIDE DEF n, s
  <2>8. CASE s # seen[c].status /\ result[c] = "FAILED" /\ n >= Threshold
    BY <2>5, <2>6, <2>8
  <2>. QED BY <2>2, <2>3, <2>4, <2>7, <2>8
<1>3. ASSUME NEW c \in Callers, Sync(c) PROVE DemotionStep
  BY <1>3 DEF Sync, Branch
<1>4. ASSUME NEW c \in Callers, MirrorOn(c) PROVE DemotionStep
  BY <1>4 DEF MirrorOn
<1>5. ASSUME NEW c \in Callers, Activate(c) PROVE DemotionStep
  BY <1>5 DEF Activate
<1>6. ASSUME NEW c \in Callers, MirrorOff(c) PROVE DemotionStep
  BY <1>6 DEF MirrorOff
<1>7. ASSUME NEW c \in Callers, After(c) PROVE DemotionStep
  BY <1>7 DEF After
<1>8. ASSUME NEW c \in Callers, WriteLetter(c) PROVE DemotionStep
  BY <1>8 DEF WriteLetter
<1>9. ASSUME NEW c \in Callers, Disable(c) PROVE DemotionStep
  BY <1>9 DEF Disable
<1>10. ASSUME NEW c \in Callers, Finish(c) PROVE DemotionStep
  BY <1>10 DEF Finish, Extend, Free
<1>11. ASSUME NEW c \in Callers, Fail(c) PROVE DemotionStep
  BY <1>11 DEF Fail, Free
<1>12. ASSUME NEW w \in Workers, Select(w) PROVE DemotionStep
  BY <1>12 DEF Select
<1>13. ASSUME NEW w \in Workers, Take(w) PROVE DemotionStep
  BY <1>13 DEF Take, MayTake
<1>14. ASSUME NEW w \in Workers, Refuse(w) PROVE DemotionStep
  BY <1>14 DEF Refuse, Extend
<1>15. ASSUME NEW d \in Desks, Verify(d) PROVE DemotionStep
  BY <1>15 DEF Verify
<1>16. ASSUME NEW d \in Desks, Edit(d) PROVE DemotionStep
  BY <1>16 DEF Edit
<1>17. ASSUME NEW d \in Desks, Requeue(d) PROVE DemotionStep
  BY <1>17 DEF Requeue
<1>18. ASSUME NEW d \in Desks, Reset(d) PROVE DemotionStep
  BY <1>18 DEF Reset
<1>19. ASSUME NEW d \in Desks, Resolve(d) PROVE DemotionStep
  BY <1>19 DEF Resolve
<1>20. ASSUME LeaseLapses PROVE DemotionStep
  BY <1>20 DEF LeaseLapses
<1>21. ASSUME Outlast PROVE DemotionStep
  BY <1>21 DEF Outlast
<1>22. ASSUME PollsGiveUp PROVE DemotionStep
  BY <1>22 DEF PollsGiveUp
<1>23. ASSUME PollsRequeued PROVE DemotionStep
  BY <1>23 DEF PollsRequeued
<1>24. ASSUME NEW w \in Workers, Enter(w) PROVE DemotionStep
  BY <1>24 DEF Enter
<1>. QED
    BY ONLY Act, <1>1, <1>2, <1>3, <1>4, <1>5, <1>6, <1>7, <1>8, <1>9, <1>10, <1>11,
     <1>12, <1>13, <1>14, <1>15, <1>16, <1>17, <1>18, <1>19, <1>20, <1>21, <1>22, <1>23, <1>24
     DEF Act

\* The mirror keeps following the portal, or somebody who writes it knows why.
LEMMA ActKeepsMirrored ==
  ASSUME CallTypes, RowTypes, CallsMakeSense, Mirrored, Act
  PROVE  Mirrored'
<1>. USE VerificationAssumption DEF CallTypes, RowTypes, CallsMakeSense, Mirrored, Portals,
       PortalStatus, Pollable, Regressed, Syncing, Relying, Callers, Goto, Return, rows, ghost,
       Untouched, Cross, Heal, Alone
<1>1. ASSUME NEW c \in Callers, Probe(c) PROVE Mirrored'
  BY <1>1 DEF Probe
<1>2. ASSUME NEW c \in Callers, ApplyOutcome(c) PROVE Mirrored'
  <2>1. seen[c] \in Portals /\ result[c] \in VerificationResult /\ pc[c] = "apply"
    BY <1>2 DEF ApplyOutcome
  <2>2. /\ portal'.status \in {portal.status} \cup (PortalStatus \ {"CANDIDATE"})
        /\ portal'.linked = portal.linked /\ mirror' = mirror
    BY <1>2, <2>1 DEF ApplyOutcome, NextStatus, VerificationResult
  <2>3. pc'[c] = "sync" /\ \A d \in Callers \ {c} : pc'[d] = pc[d]
    BY <1>2 DEF ApplyOutcome
  <2>4. crossed' = IF \E d \in Callers \ {c} : pc[d] \in Relying THEN "yes" ELSE crossed
    BY <1>2 DEF ApplyOutcome
  <2>. QED BY <2>1, <2>2, <2>3, <2>4
<1>3. ASSUME NEW c \in Callers, Sync(c) PROVE Mirrored'
  BY <1>3 DEF Sync, Branch
<1>4. ASSUME NEW c \in Callers, MirrorOn(c) PROVE Mirrored'
  BY <1>4 DEF MirrorOn
<1>5. ASSUME NEW c \in Callers, Activate(c) PROVE Mirrored'
  BY <1>5 DEF Activate
<1>6. ASSUME NEW c \in Callers, MirrorOff(c) PROVE Mirrored'
  BY <1>6 DEF MirrorOff
<1>7. ASSUME NEW c \in Callers, After(c) PROVE Mirrored'
  BY <1>7 DEF After
<1>8. ASSUME NEW c \in Callers, WriteLetter(c) PROVE Mirrored'
  BY <1>8 DEF WriteLetter
<1>9. ASSUME NEW c \in Callers, Disable(c) PROVE Mirrored'
  BY <1>9 DEF Disable
<1>10. ASSUME NEW c \in Callers, Finish(c) PROVE Mirrored'
  BY <1>10 DEF Finish, Extend, Free
<1>11. ASSUME NEW c \in Callers, Fail(c) PROVE Mirrored'
  BY <1>11 DEF Fail, Free
<1>12. ASSUME NEW w \in Workers, Select(w) PROVE Mirrored'
  BY <1>12 DEF Select
<1>13. ASSUME NEW w \in Workers, Take(w) PROVE Mirrored'
  BY <1>13 DEF Take, MayTake
<1>14. ASSUME NEW w \in Workers, Refuse(w) PROVE Mirrored'
  BY <1>14 DEF Refuse, Extend
<1>15. ASSUME NEW d \in Desks, pc[d] = "idle", Verify(d) PROVE Mirrored'
  BY <1>15 DEF Verify
<1>16. ASSUME NEW d \in Desks, pc[d] = "idle", Edit(d) PROVE Mirrored'
  BY <1>16 DEF Edit
<1>17. ASSUME NEW d \in Desks, pc[d] = "idle", Requeue(d) PROVE Mirrored'
  BY <1>17 DEF Requeue
<1>18. ASSUME NEW d \in Desks, Reset(d) PROVE Mirrored'
  BY <1>18 DEF Reset
<1>19. ASSUME NEW d \in Desks, Resolve(d) PROVE Mirrored'
  BY <1>19 DEF Resolve
<1>20. ASSUME LeaseLapses PROVE Mirrored'
  BY <1>20 DEF LeaseLapses
<1>21. ASSUME Outlast PROVE Mirrored'
  BY <1>21 DEF Outlast
<1>22. ASSUME PollsGiveUp PROVE Mirrored'
  BY <1>22 DEF PollsGiveUp
<1>23. ASSUME PollsRequeued PROVE Mirrored'
  BY <1>23 DEF PollsRequeued
<1>24. ASSUME NEW w \in Workers, Enter(w) PROVE Mirrored'
  BY <1>24 DEF Enter
<1>. QED
  BY ONLY Act, <1>1, <1>2, <1>3, <1>4, <1>5, <1>6, <1>7, <1>8, <1>9, <1>10, <1>11, <1>12,
     <1>13, <1>14, <1>15, <1>16, <1>17, <1>18, <1>19, <1>20, <1>21, <1>22, <1>23, <1>24 DEF Act

-----------------------------------------------------------------------------
Inv == /\ CallTypes /\ RowTypes /\ requests \in 0..MaxRequests
       /\ CallsMakeSense /\ Confirmed /\ Counted /\ HoldersVerify /\ Mirrored

LEMMA InitInv == Init => Inv
<1>. SUFFICES ASSUME Init PROVE Inv OBVIOUS
<1>. USE VerificationAssumption DEF Init, Callers
<1>1. CallTypes
  BY DEF CallTypes, Steps
<1>2. portal \in Portals
  BY DEF Portals, PortalStatus
<1>3. evidence \in 0..Threshold /\ faults \in 0..MaxFaults /\ requests \in 0..MaxRequests
  OBVIOUS
<1>7. provider \in ProviderRows
  BY DEF ProviderRows
<1>5. RowTypes
  BY <1>2, <1>3, <1>7 DEF RowTypes
<1>4. CallsMakeSense /\ Confirmed /\ Counted /\ HoldersVerify
  BY DEF CallsMakeSense, Confirmed, OnlyVerifiedPolled, Pollable, Counted, HoldersVerify, Attempting
<1>6. Mirrored
  BY DEF Mirrored, Syncing
<1>. QED BY <1>1, <1>3, <1>4, <1>5, <1>6 DEF Inv

LEMMA InvKept == Inv /\ [Next]_vars => Inv'
<1>1. ASSUME Inv, Next PROVE Inv'
  <2>1. Act /\ requests' \in 0..MaxRequests
    BY <1>1, NextActs DEF Inv
  <2>. QED
    BY <1>1, <2>1, ActKeepsCallTypes, ActKeepsRowTypes, ActKeepsSense, ActKeepsConfirmed,
       ActKeepsCounted, ActKeepsHolders, ActKeepsMirrored DEF Inv
<1>2. ASSUME Inv, UNCHANGED vars PROVE Inv'
  BY <1>2 DEF Inv, vars, rows, lease, ghost, CallTypes, RowTypes, CallsMakeSense, Confirmed,
     OnlyVerifiedPolled, Counted, HoldersVerify, Attempting, Mirrored
<1>. QED BY <1>1, <1>2

LEMMA Invariance == Spec => []Inv
BY InitInv, InvKept, PTL DEF Spec

-----------------------------------------------------------------------------
\* Type correctness.
THEOREM TypeCorrect == Spec => []TypeOK
<1>1. Inv => TypeOK
  BY DEF Inv, CallTypes, RowTypes, TypeOK
<1>. QED BY <1>1, Invariance, PTL

\* Whatever is verified or polled was once confirmed as what it claims to be.
THEOREM OnlyConfirmedPolled == Spec => []OnlyVerifiedPolled
<1>1. Inv => OnlyVerifiedPolled
  BY DEF Inv, Confirmed
<1>. QED BY <1>1, Invariance, PTL

\* Two workers verify one portal at once only after an attempt was late or died.
THEOREM VerifiersExclude == Spec => []OneVerifierAtATime
<1>1. Inv => OneVerifierAtATime
  BY DEF Inv, HoldersVerify, OneVerifierAtATime
<1>. QED BY <1>1, Invariance, PTL

\* An enabled entry of the table that is polled is that of an enabled portal in
\* status ACTIVE, except between a race or a crash and the next undisturbed sync
\* (sync_portal_to_operational_registry()).
THEOREM MirrorIsFollowed == Spec => []MirrorFollows
<1>1. Inv => MirrorFollows
  BY DEF Inv, Mirrored, MirrorFollows
<1>. QED BY <1>1, Invariance, PTL

\* A live lease leaves its holder only with the attempt, late workers or not.
THEOREM LeasesKept == Spec => LiveLeaseKept
<1>1. Inv /\ [Next]_vars => [LeaseStep]_vars
  BY NextActs, ActKeepsLease DEF Inv
<1>. QED BY <1>1, Invariance, PTL DEF Spec, LiveLeaseKept, LeaseStep

\* The lease of the verification queue implements the exclusive lease of
\* ExclusiveLease, attempts that outlast it and their late releases included.
THEOREM LeaseImplemented == Spec => LeaseIsExclusive
<1>1. Init => Lease!Init
  BY DEF Init, Lease!Init
<1>2. Inv /\ [Next]_vars => [Lease!Next]_(Lease!LeaseVars)
  <2>1. UNCHANGED vars => UNCHANGED Lease!LeaseVars
    BY DEF vars, lease, Lease!LeaseVars
  <2>. QED BY <2>1, NextActs, LeaseMoves DEF Inv
<1>. QED BY <1>1, <1>2, Invariance, PTL DEF Spec, LeaseIsExclusive, Lease!Spec

\* No lost update and no late write adds up to the demotion of a portal.
THEOREM DemotionsJustified == Spec => DemotedForCause
<1>1. Inv /\ [Next]_vars => [DemotionStep]_vars
  BY NextActs, ActDemotes DEF Inv
<1>. QED BY <1>1, Invariance, PTL DEF Spec, DemotedForCause, DemotionStep

=============================================================================

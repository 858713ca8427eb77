------------------------ MODULE BrowserSessionProofs ------------------------
(***************************************************************************)
(* What the browser-assist sessions guarantee for every number of          *)
(* processes, sessions, calls and crashes: a confirmation is backed by an  *)
(* execution that ended and a form that was submitted, and the blocker of  *)
(* the execution is the one that the status of its active session calls    *)
(* for, unless writes of it crossed since the last that did not.           *)
(***************************************************************************)
EXTENDS BrowserSession, TLAPS

\* What a call is about, where it stands.
CallsMakeSense ==
  \A c \in Calls :
    /\ pc[c] \notin {"idle", "create", "again"} => at[c] \in Sessions
    /\ pc[c] \in {"claim", "look", "open", "reopen", "apply", "judge", "applied", "confirm",
                  "syncRelease", "release"} => op[c] \notin {"close", "expire"}
    /\ pc[c] \in {"syncDrop", "drop"} => op[c] # "close"
    /\ pc[c] = "expire" => op[c] = "expire"

\* The types of the calls, and those of the rest.
CallTypes ==
  /\ pc \in [Calls -> Steps] /\ op \in [Calls -> Operations \cup {None}]
  /\ at \in [Calls -> Sessions \cup {None}]

RestTypes ==
  /\ status \in [Sessions -> BrowserSessionStatus \cup {None}]
  /\ active \in [Sessions -> BOOLEAN]
  /\ idle \in [Sessions -> BOOLEAN] /\ lessee \in [Sessions -> Procs \cup {None}]
  /\ execution \in {"APPROVED", "APPLIED", "WITHDRAWN"}
  /\ blocker \in {None, "NEEDS_YOU", "APPLICATION_ERROR", "SUBMISSION_STATUS_UNKNOWN"}
  /\ window \in [Procs -> [Sessions -> {None, "form", "sent"}]]
  /\ stage \in [Calls -> {"row", "blocker", "raise", "resolve", "late"}]
  /\ seen \in [Calls -> BrowserSessionStatus \cup {None}]
  /\ submitted \subseteq Sessions /\ crossed \in BOOLEAN /\ crashes \in 0..MaxCrashes

\* A call that saw a confirmation saw one of a form that was submitted, and it
\* ends the execution before it confirms the session.
ConfirmationsAreBacked ==
  /\ \A p \in Procs : \A s \in Sessions : window[p][s] = "sent" => s \in submitted
  /\ \A c \in Calls : /\ pc[c] = "applied" => submitted # {}
                      /\ pc[c] = "confirm" => execution # "APPROVED"

\* The rows: one session of the job is active, and an active session has not ended.
RowsMakeSense ==
  /\ \A s, r \in Sessions : active[s] /\ active[r] => s = r
  /\ \A s \in Sessions : active[s] => status[s] \notin Terminal \cup {None}

\* A call that sees to no blocker is at the first step of doing so, and one that
\* does wrote to a row that is there.
SyncsMakeSense ==
  \A c \in Calls : IF pc[c] \in Syncing THEN status[at[c]] # None ELSE stage[c] = "row"

\* Unless writes crossed, one call at a time sees to the blocker, and what it read
\* of the row is so still ...
OneSync ==
  /\ \A c, d \in Calls : pc[c] \in Syncing /\ pc[d] \in Syncing => c = d
  /\ \A c \in Calls : pc[c] \in Syncing =>
       /\ stage[c] # "late"
       /\ stage[c] # "row" => seen[c] = status[at[c]] /\ seen[c] \notin {"CLOSED", "EXPIRED"}

\* ... if it wrote to another session than the active one, it changes no blocker
\* or the active one has just been created ...
OthersUntouched ==
  \A c \in Calls : \A s \in Sessions :
    pc[c] \in Syncing /\ active[s] /\ at[c] # s =>
      status[at[c]] \in {"CLOSED", "EXPIRED"} \/ status[s] = "STARTING"

\* ... and the blocker matches the active session, or a call is about to make it match.
BlockerKeepsUp ==
  \A s \in Sessions : active[s] /\ execution = "APPROVED" =>
    BlockerMatches(s) \/ \E c \in Calls : pc[c] \in Syncing /\ at[c] = s

InOrder == OneSync /\ OthersUntouched /\ BlockerKeepsUp
BlockersInOrder == SyncsMakeSense /\ (~crossed => InOrder)

\* Every step but the count of the calls.
Act ==
  \/ \E c \in Calls : Start(c) \/ Body(c)
  \/ \E c \in Calls : \E s \in Sessions :
       \/ Resume(c, s) \/ AdvanceStep(c, s) \/ Reconcile(c, s) \/ Answer(c, s) \/ Close(c, s)
       \/ FindStale(c, s)
  \/ EndExecution
  \/ \E c \in Calls : GiveUpBlocker(c)
  \/ \E p \in Procs : Crash(p)
  \/ \E p \in Procs : \E s \in Sessions : Submit(p, s)
  \/ \E s \in Sessions : GrowIdle(s)
  \/ \E s \in Sessions : LeaseLapses(s)

LEMMA NextActs ==
  ASSUME TypeOK, Next
  PROVE  Act /\ begun' \in 0..MaxCalls
<1>1. Act
  BY SessionAssumption DEF Next, Begin, Step, Reap, Lapse, Environment, Act
<1>2. begun' \in 0..MaxCalls
  BY SessionAssumption DEF TypeOK, Next, Begin, Step, Reap, Lapse, Environment
<1>. QED BY <1>1, <1>2


\* Every step keeps the types of the calls.
LEMMA ActKeepsCallTypes ==
  ASSUME CallTypes, CallsMakeSense, Act
  PROVE  CallTypes'
<1>. USE SessionAssumption, NoneAssumption DEF CallTypes, Steps, Driving, Operations, Syncing, call, sync, Goto, Set, Return
<1>1. ASSUME NEW c \in Calls, Start(c) PROVE CallTypes'
  BY <1>1 DEF Start
<1>2. ASSUME NEW c \in Calls, Create(c) PROVE CallTypes'
  BY <1>2 DEF Create
<1>3. ASSUME NEW c \in Calls, Again(c) PROVE CallTypes'
  BY <1>3 DEF Again
<1>4. ASSUME NEW c \in Calls, Claim(c) PROVE CallTypes'
  BY <1>4 DEF Claim, MayClaim
<1>5. ASSUME NEW c \in Calls, Look(c) PROVE CallTypes'
  BY <1>5 DEF Look, WriteStatus, Touch
<1>6. ASSUME NEW c \in Calls, Open(c) PROVE CallTypes'
  BY <1>6 DEF Open, WriteStatus, Show
<1>7. ASSUME NEW c \in Calls, Apply(c) PROVE CallTypes'
  BY <1>7 DEF Apply, WriteStatus
<1>8. ASSUME NEW c \in Calls, SyncBlocker(c) PROVE CallTypes'
  BY <1>8 DEF SyncBlocker, ReadRow, ReadBlocker, WriteBlocker, NewBlocker, ResolveLate, Synced, BlockerOf, Unblocked
<1>9. ASSUME NEW c \in Calls, Judge(c) PROVE CallTypes'
  BY <1>9 DEF Judge, WriteStatus, Touch
<1>10. ASSUME NEW c \in Calls, MarkApplied(c) PROVE CallTypes'
  BY <1>10 DEF MarkApplied
<1>11. ASSUME NEW c \in Calls, Confirm(c) PROVE CallTypes'
  BY <1>11 DEF Confirm, WriteStatus
<1>12. ASSUME NEW c \in Calls, Drop(c) PROVE CallTypes'
  BY <1>12 DEF Drop, Show
<1>13. ASSUME NEW c \in Calls, Release(c) PROVE CallTypes'
  BY <1>13 DEF Release
<1>14. ASSUME NEW c \in Calls, WriteEnd(c) PROVE CallTypes'
  BY <1>14 DEF WriteEnd, WriteStatus
<1>15. ASSUME NEW c \in Calls, NEW s \in Sessions, Resume(c, s) PROVE CallTypes'
  BY <1>15 DEF Resume
<1>16. ASSUME NEW c \in Calls, NEW s \in Sessions, AdvanceStep(c, s) PROVE CallTypes'
  BY <1>16 DEF AdvanceStep
<1>17. ASSUME NEW c \in Calls, NEW s \in Sessions, Reconcile(c, s) PROVE CallTypes'
  BY <1>17 DEF Reconcile
<1>18. ASSUME NEW c \in Calls, NEW s \in Sessions, Close(c, s) PROVE CallTypes'
  BY <1>18 DEF Close, Show
<1>19. ASSUME NEW c \in Calls, NEW s \in Sessions, FindStale(c, s) PROVE CallTypes'
  BY <1>19 DEF FindStale
<1>20. ASSUME EndExecution PROVE CallTypes'
  BY <1>20 DEF EndExecution
<1>21. ASSUME NEW p \in Procs, Crash(p) PROVE CallTypes'
  BY <1>21 DEF Crash
<1>22. ASSUME NEW p \in Procs, NEW s \in Sessions, Submit(p, s) PROVE CallTypes'
  BY <1>22 DEF Submit, Show
<1>23. ASSUME NEW s \in Sessions, GrowIdle(s) PROVE CallTypes'
  BY <1>23 DEF GrowIdle
<1>24. ASSUME NEW s \in Sessions, LeaseLapses(s) PROVE CallTypes'
  BY <1>24 DEF LeaseLapses
<1>25. ASSUME NEW c \in Calls, NEW s \in Sessions, Answer(c, s) PROVE CallTypes'
  BY <1>25 DEF Answer, Live
<1>26. ASSUME NEW c \in Calls, Answered(c) PROVE CallTypes'
  BY <1>26 DEF Answered
<1>27. ASSUME NEW c \in Calls, GiveUpBlocker(c) PROVE CallTypes'
  BY <1>27 DEF GiveUpBlocker, Synced
<1>. QED
  BY ONLY Act, <1>1, <1>2, <1>3, <1>4, <1>5, <1>6, <1>7, <1>8, <1>9, <1>10, <1>11, <1>12,
     <1>13, <1>14, <1>15, <1>16, <1>17, <1>18, <1>19, <1>20, <1>21, <1>22, <1>23, <1>24, <1>25,
     <1>26, <1>27
  DEF Act, Body

\* Every step keeps the types of the rest.
LEMMA ActKeepsRestTypes ==
  ASSUME RestTypes, CallTypes, CallsMakeSense, Act
  PROVE  RestTypes'
<1>. USE SessionAssumption, NoneAssumption DEF RestTypes, CallTypes, CallsMakeSense, BrowserSessionStatus, Terminal, Syncing, rows, ghost, sync
<1>1. ASSUME NEW c \in Calls, Start(c) PROVE RestTypes'
  BY <1>1 DEF Start
<1>2. ASSUME NEW c \in Calls, Create(c) PROVE RestTypes'
  BY <1>2 DEF Create
<1>3. ASSUME NEW c \in Calls, Again(c) PROVE RestTypes'
  BY <1>3 DEF Again
<1>4. ASSUME NEW c \in Calls, Claim(c) PROVE RestTypes'
  <2>1. Home[c] \in Procs /\ at[c] \in Sessions
    BY <1>4 DEF Claim
  <2>2. lessee' \in [Sessions -> Procs \cup {None}]
    BY <1>4, <2>1 DEF Claim
  <2>. QED BY <1>4, <2>2 DEF Claim
<1>5. ASSUME NEW c \in Calls, Look(c) PROVE RestTypes'
  BY <1>5 DEF Look, WriteStatus, Touch
<1>6. ASSUME NEW c \in Calls, Open(c) PROVE RestTypes'
  <2>1. Home[c] \in Procs /\ at[c] \in Sessions
    BY <1>6 DEF Open
  <2>2. window' \in [Procs -> [Sessions -> {None, "form", "sent"}]]
    BY <1>6, <2>1 DEF Open, Show
  <2>3. CASE WriteStatus(c, "CLOSED")
    BY <1>6, <2>1, <2>2, <2>3 DEF Open, WriteStatus
  <2>4. CASE UNCHANGED <<rows, ghost, sync>>
    BY <1>6, <2>2, <2>4 DEF Open
  <2>. QED BY <1>6, <2>3, <2>4 DEF Open
<1>7. ASSUME NEW c \in Calls, Apply(c) PROVE RestTypes'
  <2>1. at[c] \in Sessions
    BY <1>7 DEF Apply
  <2>2. CASE \E st \in {"PAUSED", "ACTIVE", "READY_FOR_FINAL_SUBMIT"} : WriteStatus(c, st)
    BY <1>7, <2>1, <2>2 DEF Apply, WriteStatus
  <2>3. CASE UNCHANGED <<rows, ghost, sync>>
    BY <1>7, <2>3 DEF Apply
  <2>. QED BY <1>7, <2>2, <2>3 DEF Apply
<1>8. ASSUME NEW c \in Calls, SyncBlocker(c) PROVE RestTypes'
  <2>1. CASE WriteBlocker(c)
    <3>1. /\ stage' = [d \in Calls |-> IF d = c THEN "row"
                                     ELSE IF stage[d] = "resolve" THEN "late" ELSE stage[d]]
          /\ seen' = [seen EXCEPT ![c] = None] /\ blocker' = BlockerOf(seen[c])
          /\ UNCHANGED <<rows, execution, window, ghost>>
      BY <2>1 DEF WriteBlocker, NewBlocker
    <3>2. BlockerOf(seen[c]) \in {None, "NEEDS_YOU", "APPLICATION_ERROR", "SUBMISSION_STATUS_UNKNOWN"}
      BY DEF BlockerOf
    <3>. QED BY <3>1, <3>2
  <2>2. CASE ReadRow(c)
    <3>1. at[c] \in Sessions
      BY <2>2 DEF ReadRow
    <3>2. /\ stage' \in [Calls -> {"row", "blocker", "raise", "resolve", "late"}]
          /\ seen' \in [Calls -> BrowserSessionStatus \cup {None}]
      <4>1. CASE Synced(c)
        BY <4>1 DEF Synced
      <4>2. CASE ~Synced(c)
        <5>1. /\ stage' = [stage EXCEPT ![c] = "blocker"] /\ seen' = [seen EXCEPT ![c] = status[at[c]]]
              /\ status[at[c]] # None
          BY <2>2, <4>2 DEF ReadRow, BlockerOf, Unblocked
        <5>. QED BY <3>1, <5>1
      <4>. QED BY <4>1, <4>2
    <3>. QED BY <2>2, <3>2 DEF ReadRow
  <2>3. CASE ReadBlocker(c)
    BY <2>3 DEF ReadBlocker, Synced
  <2>4. CASE ResolveLate(c)
    BY <2>4 DEF ResolveLate, Synced
  <2>. QED BY <1>8, <2>1, <2>2, <2>3, <2>4 DEF SyncBlocker
<1>9. ASSUME NEW c \in Calls, Judge(c) PROVE RestTypes'
  BY <1>9 DEF Judge, WriteStatus, Touch
<1>10. ASSUME NEW c \in Calls, MarkApplied(c) PROVE RestTypes'
  BY <1>10 DEF MarkApplied
<1>11. ASSUME NEW c \in Calls, Confirm(c) PROVE RestTypes'
  BY <1>11 DEF Confirm, WriteStatus
<1>12. ASSUME NEW c \in Calls, Drop(c) PROVE RestTypes'
  BY <1>12 DEF Drop, Show
<1>13. ASSUME NEW c \in Calls, Release(c) PROVE RestTypes'
  BY <1>13 DEF Release
<1>14. ASSUME NEW c \in Calls, WriteEnd(c) PROVE RestTypes'
  BY <1>14 DEF WriteEnd, WriteStatus
<1>15. ASSUME NEW c \in Calls, NEW s \in Sessions, Resume(c, s) PROVE RestTypes'
  BY <1>15 DEF Resume
<1>16. ASSUME NEW c \in Calls, NEW s \in Sessions, AdvanceStep(c, s) PROVE RestTypes'
  BY <1>16 DEF AdvanceStep
<1>17. ASSUME NEW c \in Calls, NEW s \in Sessions, Reconcile(c, s) PROVE RestTypes'
  BY <1>17 DEF Reconcile
<1>18. ASSUME NEW c \in Calls, NEW s \in Sessions, Close(c, s) PROVE RestTypes'
  BY <1>18 DEF Close, Show
<1>19. ASSUME NEW c \in Calls, NEW s \in Sessions, FindStale(c, s) PROVE RestTypes'
  BY <1>19 DEF FindStale
<1>20. ASSUME EndExecution PROVE RestTypes'
  BY <1>20 DEF EndExecution
<1>21. ASSUME NEW p \in Procs, Crash(p) PROVE RestTypes'
  BY <1>21 DEF Crash
<1>22. ASSUME NEW p \in Procs, NEW s \in Sessions, Submit(p, s) PROVE RestTypes'
  BY <1>22 DEF Submit, Show
<1>23. ASSUME NEW s \in Sessions, GrowIdle(s) PROVE RestTypes'
  BY <1>23 DEF GrowIdle
<1>24. ASSUME NEW s \in Sessions, LeaseLapses(s) PROVE RestTypes'
  BY <1>24 DEF LeaseLapses
<1>25. ASSUME NEW c \in Calls, NEW s \in Sessions, Answer(c, s) PROVE RestTypes'
  BY <1>25 DEF Answer, Live
<1>26. ASSUME NEW c \in Calls, Answered(c) PROVE RestTypes'
  BY <1>26 DEF Answered
<1>27. ASSUME NEW c \in Calls, GiveUpBlocker(c) PROVE RestTypes'
  BY <1>27 DEF GiveUpBlocker, Synced
<1>. QED
  BY ONLY Act, <1>1, <1>2, <1>3, <1>4, <1>5, <1>6, <1>7, <1>8, <1>9, <1>10, <1>11, <1>12,
     <1>13, <1>14, <1>15, <1>16, <1>17, <1>18, <1>19, <1>20, <1>21, <1>22, <1>23, <1>24, <1>25,
     <1>26, <1>27
  DEF Act, Body

\* Every step leaves the calls where they make sense.
LEMMA ActKeepsCalls ==
  ASSUME CallTypes, CallsMakeSense, Act
  PROVE  CallsMakeSense'
<1>. USE SessionAssumption, NoneAssumption DEF CallTypes, CallsMakeSense, Syncing, call, sync, Goto, Set, Return
<1>1. ASSUME NEW c \in Calls, Start(c) PROVE CallsMakeSense'
  BY <1>1 DEF Start
<1>2. ASSUME NEW c \in Calls, Create(c) PROVE CallsMakeSense'
  BY <1>2 DEF Create
<1>3. ASSUME NEW c \in Calls, Again(c) PROVE CallsMakeSense'
  BY <1>3 DEF Again
<1>4. ASSUME NEW c \in Calls, Claim(c) PROVE CallsMakeSense'
  BY <1>4 DEF Claim, MayClaim
<1>5. ASSUME NEW c \in Calls, Look(c) PROVE CallsMakeSense'
  BY <1>5 DEF Look, Touch
<1>6. ASSUME NEW c \in Calls, Open(c) PROVE CallsMakeSense'
  BY <1>6 DEF Open, WriteStatus, Show
<1>7. ASSUME NEW c \in Calls, Apply(c) PROVE CallsMakeSense'
  BY <1>7 DEF Apply
<1>8. ASSUME NEW c \in Calls, SyncBlocker(c) PROVE CallsMakeSense'
  BY <1>8 DEF SyncBlocker, ReadRow, ReadBlocker, WriteBlocker, NewBlocker, ResolveLate, Synced, BlockerOf, Unblocked
<1>9. ASSUME NEW c \in Calls, Judge(c) PROVE CallsMakeSense'
  BY <1>9 DEF Judge, Touch
<1>10. ASSUME NEW c \in Calls, MarkApplied(c) PROVE CallsMakeSense'
  BY <1>10 DEF MarkApplied
<1>11. ASSUME NEW c \in Calls, Confirm(c) PROVE CallsMakeSense'
  BY <1>11 DEF Confirm, WriteStatus
<1>12. ASSUME NEW c \in Calls, Drop(c) PROVE CallsMakeSense'
  BY <1>12 DEF Drop, Show
<1>13. ASSUME NEW c \in Calls, Release(c) PROVE CallsMakeSense'
  BY <1>13 DEF Release
<1>14. ASSUME NEW c \in Calls, WriteEnd(c) PROVE CallsMakeSense'
  BY <1>14 DEF WriteEnd, WriteStatus
<1>15. ASSUME NEW c \in Calls, NEW s \in Sessions, Resume(c, s) PROVE CallsMakeSense'
  BY <1>15 DEF Resume
<1>16. ASSUME NEW c \in Calls, NEW s \in Sessions, AdvanceStep(c, s) PROVE CallsMakeSense'
  BY <1>16 DEF AdvanceStep
<1>17. ASSUME NEW c \in Calls, NEW s \in Sessions, Reconcile(c, s) PROVE CallsMakeSense'
  BY <1>17 DEF Reconcile
<1>18. ASSUME NEW c \in Calls, NEW s \in Sessions, Close(c, s) PROVE CallsMakeSense'
  BY <1>18 DEF Close, Show
<1>19. ASSUME NEW c \in Calls, NEW s \in Sessions, FindStale(c, s) PROVE CallsMakeSense'
  BY <1>19 DEF FindStale
<1>20. ASSUME EndExecution PROVE CallsMakeSense'
  BY <1>20 DEF EndExecution
<1>21. ASSUME NEW p \in Procs, Crash(p) PROVE CallsMakeSense'
  BY <1>21 DEF Crash
<1>22. ASSUME NEW p \in Procs, NEW s \in Sessions, Submit(p, s) PROVE CallsMakeSense'
  BY <1>22 DEF Submit, Show
<1>23. ASSUME NEW s \in Sessions, GrowIdle(s) PROVE CallsMakeSense'
  BY <1>23 DEF GrowIdle
<1>24. ASSUME NEW s \in Sessions, LeaseLapses(s) PROVE CallsMakeSense'
  BY <1>24 DEF LeaseLapses
<1>25. ASSUME NEW c \in Calls, NEW s \in Sessions, Answer(c, s) PROVE CallsMakeSense'
  BY <1>25 DEF Answer, Live
<1>26. ASSUME NEW c \in Calls, Answered(c) PROVE CallsMakeSense'
  BY <1>26 DEF Answered
<1>27. ASSUME NEW c \in Calls, GiveUpBlocker(c) PROVE CallsMakeSense'
  BY <1>27 DEF GiveUpBlocker, Synced
<1>. QED
  BY ONLY Act, <1>1, <1>2, <1>3, <1>4, <1>5, <1>6, <1>7, <1>8, <1>9, <1>10, <1>11, <1>12,
     <1>13, <1>14, <1>15, <1>16, <1>17, <1>18, <1>19, <1>20, <1>21, <1>22, <1>23, <1>24, <1>25,
     <1>26, <1>27
  DEF Act, Body

\* Every step keeps the confirmations backed.
LEMMA ActKeepsBacked ==
  ASSUME CallTypes, RestTypes, CallsMakeSense, ConfirmationsAreBacked, ConfirmedIsBacked, Act
  PROVE  ConfirmationsAreBacked' /\ ConfirmedIsBacked'
<1>. USE SessionAssumption, NoneAssumption DEF CallTypes, RestTypes, CallsMakeSense, ConfirmationsAreBacked, ConfirmedIsBacked, Syncing, rows, ghost, sync, call, Goto, Set, Return
<1>1. ASSUME NEW c \in Calls, Start(c) PROVE ConfirmationsAreBacked' /\ ConfirmedIsBacked'
  BY <1>1 DEF Start
<1>2. ASSUME NEW c \in Calls, Create(c) PROVE ConfirmationsAreBacked' /\ ConfirmedIsBacked'
  <2>1. \A s \in Sessions : status'[s] \in {status[s], "STARTING"}
    BY <1>2 DEF Create
  <2>2. UNCHANGED <<execution, window, submitted>> /\ \A d \in Calls : pc'[d] \in {pc[d], "claim", "again", "idle"}
    BY <1>2 DEF Create
  <2>. QED BY <2>1, <2>2
<1>3. ASSUME NEW c \in Calls, Again(c) PROVE ConfirmationsAreBacked' /\ ConfirmedIsBacked'
  BY <1>3 DEF Again
<1>4. ASSUME NEW c \in Calls, Claim(c) PROVE ConfirmationsAreBacked' /\ ConfirmedIsBacked'
  <2>1. UNCHANGED <<status, execution, window, submitted>>
    BY <1>4 DEF Claim
  <2>2. \A d \in Calls : pc'[d] \in {pc[d], "open", "look", "apply", "judge", "idle"}
    BY <1>4 DEF Claim
  <2>. QED BY <2>1, <2>2
<1>5. ASSUME NEW c \in Calls, Look(c) PROVE ConfirmationsAreBacked' /\ ConfirmedIsBacked'
  <2>1. /\ \A s \in Sessions : status'[s] \in {status[s], "SUBMISSION_STATUS_UNKNOWN"}
        /\ UNCHANGED submitted
    BY <1>5 DEF Look, WriteStatus, Touch
  <2>2. UNCHANGED <<execution, window>> /\ \A d \in Calls : pc'[d] \in {pc[d], "apply", "syncRelease", "reopen"}
    BY <1>5 DEF Look
  <2>. QED BY <2>1, <2>2
<1>6. ASSUME NEW c \in Calls, Open(c) PROVE ConfirmationsAreBacked' /\ ConfirmedIsBacked'
  <2>1. Home[c] \in Procs /\ at[c] \in Sessions
    BY <1>6 DEF Open
  <2>2. \A p \in Procs : \A s \in Sessions : window'[p][s] \in {window[p][s], "form"}
    BY <1>6, <2>1 DEF Open, Show
  <2>3. \A s \in Sessions : status'[s] \in {status[s], "CLOSED"}
    BY <1>6, <2>1 DEF Open, WriteStatus
  <2>4. /\ UNCHANGED <<execution, submitted>>
        /\ \A d \in Calls : pc'[d] \in {pc[d], "apply", "syncRelease", "release"}
    BY <1>6 DEF Open, WriteStatus
  <2>. QED BY <2>2, <2>3, <2>4
<1>7. ASSUME NEW c \in Calls, Apply(c) PROVE ConfirmationsAreBacked' /\ ConfirmedIsBacked'
  <2>1. at[c] \in Sessions
    BY <1>7 DEF Apply
  <2>2. \A s \in Sessions : status'[s] \in {status[s], "PAUSED", "ACTIVE", "READY_FOR_FINAL_SUBMIT"}
    BY <1>7, <2>1 DEF Apply, WriteStatus
  <2>3. UNCHANGED <<execution, window>> /\ \A d \in Calls : pc'[d] \in {pc[d], "syncRelease", "release"}
    BY <1>7 DEF Apply
  <2>4. UNCHANGED submitted
    BY <1>7 DEF Apply, WriteStatus
  <2>. QED BY <2>2, <2>3, <2>4
<1>8. ASSUME NEW c \in Calls, SyncBlocker(c) PROVE ConfirmationsAreBacked' /\ ConfirmedIsBacked'
  <2>1. UNCHANGED <<status, execution, window, submitted>>
    BY <1>8 DEF SyncBlocker, ReadRow, ReadBlocker, WriteBlocker, ResolveLate
  <2>2. \A d \in Calls : pc'[d] \in {pc[d], "idle", "drop", "release"}
    BY <1>8 DEF SyncBlocker, ReadRow, ReadBlocker, WriteBlocker, ResolveLate, Synced
  <2>. QED BY <2>1, <2>2
<1>9. ASSUME NEW c \in Calls, Judge(c) PROVE ConfirmationsAreBacked' /\ ConfirmedIsBacked'
  <2>1. at[c] \in Sessions
    BY <1>9 DEF Judge
  <2>2. \A s \in Sessions : status'[s] \in {status[s], "SUBMISSION_STATUS_UNKNOWN", "DUPLICATE_APPLICATION_DETECTED"}
    BY <1>9, <2>1 DEF Judge, WriteStatus, Touch
  <2>3. UNCHANGED submitted
    BY <1>9 DEF Judge, WriteStatus, Touch
  <2>4. /\ UNCHANGED <<execution, window>>
        /\ \A d \in Calls : \/ pc'[d] \in {pc[d], "syncRelease", "release"}
                            \/ pc'[d] = "applied" /\ submitted # {}
    BY <1>9, SessionAssumption DEF Judge, Live
  <2>. QED BY <2>2, <2>3, <2>4
<1>10. ASSUME NEW c \in Calls, MarkApplied(c) PROVE ConfirmationsAreBacked' /\ ConfirmedIsBacked'
  BY <1>10 DEF MarkApplied
<1>11. ASSUME NEW c \in Calls, Confirm(c) PROVE ConfirmationsAreBacked' /\ ConfirmedIsBacked'
  BY <1>11 DEF Confirm, WriteStatus
<1>12. ASSUME NEW c \in Calls, Drop(c) PROVE ConfirmationsAreBacked' /\ ConfirmedIsBacked'
  <2>1. Home[c] \in Procs /\ at[c] \in Sessions
    BY <1>12 DEF Drop
  <2>2. \A p \in Procs : \A s \in Sessions : window'[p][s] \in {window[p][s], None}
    BY <1>12, <2>1 DEF Drop, Show
  <2>3. UNCHANGED <<status, execution, submitted>> /\ \A d \in Calls : pc'[d] \in {pc[d], "idle", "release"}
    BY <1>12 DEF Drop
  <2>. QED BY <2>2, <2>3
<1>13. ASSUME NEW c \in Calls, Release(c) PROVE ConfirmationsAreBacked' /\ ConfirmedIsBacked'
  BY <1>13 DEF Release
<1>14. ASSUME NEW c \in Calls, WriteEnd(c) PROVE ConfirmationsAreBacked' /\ ConfirmedIsBacked'
  BY <1>14 DEF WriteEnd, WriteStatus
<1>15. ASSUME NEW c \in Calls, NEW s \in Sessions, Resume(c, s) PROVE ConfirmationsAreBacked' /\ ConfirmedIsBacked'
  BY <1>15 DEF Resume
<1>16. ASSUME NEW c \in Calls, NEW s \in Sessions, AdvanceStep(c, s) PROVE ConfirmationsAreBacked' /\ ConfirmedIsBacked'
  BY <1>16 DEF AdvanceStep, Live
<1>17. ASSUME NEW c \in Calls, NEW s \in Sessions, Reconcile(c, s) PROVE ConfirmationsAreBacked' /\ ConfirmedIsBacked'
  BY <1>17 DEF Reconcile
<1>18. ASSUME NEW c \in Calls, NEW s \in Sessions, Close(c, s) PROVE ConfirmationsAreBacked' /\ ConfirmedIsBacked'
  BY <1>18 DEF Close, Show
<1>19. ASSUME NEW c \in Calls, NEW s \in Sessions, FindStale(c, s) PROVE ConfirmationsAreBacked' /\ ConfirmedIsBacked'
  BY <1>19 DEF FindStale
<1>20. ASSUME EndExecution PROVE ConfirmationsAreBacked' /\ ConfirmedIsBacked'
  BY <1>20 DEF EndExecution
<1>21. ASSUME NEW p \in Procs, Crash(p) PROVE ConfirmationsAreBacked' /\ ConfirmedIsBacked'
  BY <1>21 DEF Crash
<1>22. ASSUME NEW p \in Procs, NEW s \in Sessions, Submit(p, s) PROVE ConfirmationsAreBacked' /\ ConfirmedIsBacked'
  BY <1>22 DEF Submit, Show
<1>23. ASSUME NEW s \in Sessions, GrowIdle(s) PROVE ConfirmationsAreBacked' /\ ConfirmedIsBacked'
  BY <1>23 DEF GrowIdle
<1>24. ASSUME NEW s \in Sessions, LeaseLapses(s) PROVE ConfirmationsAreBacked' /\ ConfirmedIsBacked'
  BY <1>24 DEF LeaseLapses
<1>25. ASSUME NEW c \in Calls, NEW s \in Sessions, Answer(c, s) PROVE ConfirmationsAreBacked' /\ ConfirmedIsBacked'
  BY <1>25 DEF Answer, Live
<1>26. ASSUME NEW c \in Calls, Answered(c) PROVE ConfirmationsAreBacked' /\ ConfirmedIsBacked'
  BY <1>26 DEF Answered
<1>27. ASSUME NEW c \in Calls, GiveUpBlocker(c) PROVE ConfirmationsAreBacked' /\ ConfirmedIsBacked'
  <2>1. UNCHANGED <<status, execution, window, submitted>>
    BY <1>27 DEF GiveUpBlocker
  <2>2. \A d \in Calls : pc'[d] \in {pc[d], "idle", "drop", "release"}
    BY <1>27 DEF GiveUpBlocker, Synced
  <2>. QED BY <2>1, <2>2
<1>. QED
  BY ONLY Act, <1>1, <1>2, <1>3, <1>4, <1>5, <1>6, <1>7, <1>8, <1>9, <1>10, <1>11, <1>12,
     <1>13, <1>14, <1>15, <1>16, <1>17, <1>18, <1>19, <1>20, <1>21, <1>22, <1>23, <1>24, <1>25,
     <1>26, <1>27
  DEF Act, Body

\* Whatever status is written to whichever session, the rows keep making sense.
LEMMA WriteKeepsRows ==
  ASSUME RestTypes, RowsMakeSense, NEW c \in Calls, at[c] \in Sessions,
         NEW st \in BrowserSessionStatus, WriteStatus(c, st)
  PROVE  RowsMakeSense'
<1>. USE NoneAssumption DEF RestTypes, RowsMakeSense, WriteStatus
<1>1. \A r, q \in Sessions : active'[r] /\ active'[q] => r = q
  OBVIOUS
<1>2. \A r \in Sessions : active'[r] => status'[r] \notin Terminal \cup {None}
  OBVIOUS
<1>. QED BY <1>1, <1>2

\* Every step keeps one session active, and the statuses in step with what is active.
LEMMA ActKeepsRows ==
  ASSUME CallTypes, RestTypes, CallsMakeSense, RowsMakeSense, Act
  PROVE  RowsMakeSense'
<1>. USE SessionAssumption, NoneAssumption DEF CallTypes, RestTypes, CallsMakeSense,
       RowsMakeSense, BrowserSessionStatus, Terminal, Syncing, Exists, rows, ghost, sync, call, Goto,
       Set, Return
<1>1. ASSUME NEW c \in Calls, Start(c) PROVE RowsMakeSense'
  BY <1>1 DEF Start
<1>2. ASSUME NEW c \in Calls, Create(c) PROVE RowsMakeSense'
  <2>1. CASE \E s \in Sessions :
               /\ ~Exists(s) /\ \A r \in Sessions : ~active[r]
               /\ status' = [status EXCEPT ![s] = "STARTING"]
               /\ active' = [active EXCEPT ![s] = TRUE]
    BY <2>1
  <2>2. CASE UNCHANGED <<status, active>>
    BY <2>2
  <2>. QED BY <1>2, <2>1, <2>2 DEF Create
<1>3. ASSUME NEW c \in Calls, Again(c) PROVE RowsMakeSense'
  BY <1>3 DEF Again
<1>4. ASSUME NEW c \in Calls, Claim(c) PROVE RowsMakeSense'
  BY <1>4 DEF Claim, MayClaim
<1>5. ASSUME NEW c \in Calls, Look(c) PROVE RowsMakeSense'
  <2>1. at[c] \in Sessions
    BY <1>5 DEF Look, Touch
  <2>2. \/ \E st \in BrowserSessionStatus : WriteStatus(c, st)
        \/ UNCHANGED <<status, active>>
    BY <1>5 DEF Look, Touch
  <2>3. CASE UNCHANGED <<status, active>>
    BY <2>3
  <2>. QED BY <2>1, <2>2, <2>3, WriteKeepsRows
<1>6. ASSUME NEW c \in Calls, Open(c) PROVE RowsMakeSense'
  <2>1. at[c] \in Sessions
    BY <1>6 DEF Open
  <2>2. \/ \E st \in BrowserSessionStatus : WriteStatus(c, st)
        \/ UNCHANGED <<status, active>>
    BY <1>6 DEF Open
  <2>3. CASE UNCHANGED <<status, active>>
    BY <2>3
  <2>. QED BY <2>1, <2>2, <2>3, WriteKeepsRows
<1>7. ASSUME NEW c \in Calls, Apply(c) PROVE RowsMakeSense'
  <2>1. at[c] \in Sessions
    BY <1>7 DEF Apply
  <2>2. \/ \E st \in BrowserSessionStatus : WriteStatus(c, st)
        \/ UNCHANGED <<status, active>>
    BY <1>7 DEF Apply
  <2>3. CASE UNCHANGED <<status, active>>
    BY <2>3
  <2>. QED BY <2>1, <2>2, <2>3, WriteKeepsRows
<1>8. ASSUME NEW c \in Calls, SyncBlocker(c) PROVE RowsMakeSense'
  BY <1>8 DEF SyncBlocker, ReadRow, ReadBlocker, WriteBlocker, NewBlocker, ResolveLate, Synced, BlockerOf, Unblocked
<1>9. ASSUME NEW c \in Calls, Judge(c) PROVE RowsMakeSense'
  <2>1. at[c] \in Sessions
    BY <1>9 DEF Judge, Touch
  <2>2. \/ \E st \in BrowserSessionStatus : WriteStatus(c, st)
        \/ UNCHANGED <<status, active>>
    BY <1>9 DEF Judge, Touch
  <2>3. CASE UNCHANGED <<status, active>>
    BY <2>3
  <2>. QED BY <2>1, <2>2, <2>3, WriteKeepsRows
<1>10. ASSUME NEW c \in Calls, MarkApplied(c) PROVE RowsMakeSense'
  BY <1>10 DEF MarkApplied
<1>11. ASSUME NEW c \in Calls, Confirm(c) PROVE RowsMakeSense'
  <2>1. at[c] \in Sessions
    BY <1>11 DEF Confirm
  <2>2. \/ \E st \in BrowserSessionStatus : WriteStatus(c, st)
        \/ UNCHANGED <<status, active>>
    BY <1>11 DEF Confirm
  <2>3. CASE UNCHANGED <<status, active>>
    BY <2>3
  <2>. QED BY <2>1, <2>2, <2>3, WriteKeepsRows
<1>12. ASSUME NEW c \in Calls, Drop(c) PROVE RowsMakeSense'
  BY <1>12 DEF Drop, Show
<1>13. ASSUME NEW c \in Calls, Release(c) PROVE RowsMakeSense'
  BY <1>13 DEF Release
<1>14. ASSUME NEW c \in Calls, WriteEnd(c) PROVE RowsMakeSense'
  <2>1. at[c] \in Sessions
    BY <1>14 DEF WriteEnd
  <2>2. \/ \E st \in BrowserSessionStatus : WriteStatus(c, st)
        \/ UNCHANGED <<status, active>>
    BY <1>14 DEF WriteEnd
  <2>3. CASE UNCHANGED <<status, active>>
    BY <2>3
  <2>. QED BY <2>1, <2>2, <2>3, WriteKeepsRows
<1>15. ASSUME NEW c \in Calls, NEW s \in Sessions, Resume(c, s) PROVE RowsMakeSense'
  BY <1>15 DEF Resume
<1>16. ASSUME NEW c \in Calls, NEW s \in Sessions, AdvanceStep(c, s) PROVE RowsMakeSense'
  BY <1>16 DEF AdvanceStep
<1>17. ASSUME NEW c \in Calls, NEW s \in Sessions, Reconcile(c, s) PROVE RowsMakeSense'
  BY <1>17 DEF Reconcile
<1>18. ASSUME NEW c \in Calls, NEW s \in Sessions, Close(c, s) PROVE RowsMakeSense'
  BY <1>18 DEF Close, Show
<1>19. ASSUME NEW c \in Calls, NEW s \in Sessions, FindStale(c, s) PROVE RowsMakeSense'
  BY <1>19 DEF FindStale
<1>20. ASSUME EndExecution PROVE RowsMakeSense'
  BY <1>20 DEF EndExecution
<1>21. ASSUME NEW p \in Procs, Crash(p) PROVE RowsMakeSense'
  BY <1>21 DEF Crash
<1>22. ASSUME NEW p \in Procs, NEW s \in Sessions, Submit(p, s) PROVE RowsMakeSense'
  BY <1>22 DEF Submit, Show
<1>23. ASSUME NEW s \in Sessions, GrowIdle(s) PROVE RowsMakeSense'
  BY <1>23 DEF GrowIdle
<1>24. ASSUME NEW s \in Sessions, LeaseLapses(s) PROVE RowsMakeSense'
  BY <1>24 DEF LeaseLapses
<1>25. ASSUME NEW c \in Calls, NEW s \in Sessions, Answer(c, s) PROVE RowsMakeSense'
  BY <1>25 DEF Answer, Live
<1>26. ASSUME NEW c \in Calls, Answered(c) PROVE RowsMakeSense'
  BY <1>26 DEF Answered
<1>27. ASSUME NEW c \in Calls, GiveUpBlocker(c) PROVE RowsMakeSense'
  BY <1>27 DEF GiveUpBlocker, Synced
<1>. QED
  BY ONLY Act, <1>1, <1>2, <1>3, <1>4, <1>5, <1>6, <1>7, <1>8, <1>9, <1>10, <1>11, <1>12,
     <1>13, <1>14, <1>15, <1>16, <1>17, <1>18, <1>19, <1>20, <1>21, <1>22, <1>23, <1>24, <1>25,
     <1>26, <1>27
  DEF Act, Body

\* A step that writes no status, no blocker and no row keeps the blockers in order.
LEMMA QuietKeepsBlockers ==
  ASSUME BlockersInOrder, UNCHANGED <<status, active, sync, crossed>>,
         execution' \in {execution, "APPLIED", "WITHDRAWN"},
         \A d \in Calls : pc[d] \in Syncing \/ pc'[d] \in Syncing =>
           pc'[d] = pc[d] /\ at'[d] = at[d]
  PROVE  BlockersInOrder'
<1>. USE DEF sync
<1>1. SyncsMakeSense'
  BY DEF BlockersInOrder, SyncsMakeSense
<1>2. ASSUME ~crossed PROVE InOrder'
  <2>. OneSync /\ OthersUntouched /\ BlockerKeepsUp
    BY <1>2 DEF BlockersInOrder, InOrder
  <2>1. OneSync'
    BY DEF OneSync
  <2>2. OthersUntouched'
    BY DEF OthersUntouched
  <2>3. \A s \in Sessions : BlockerMatches(s)' <=> BlockerMatches(s)
    BY DEF BlockerMatches
  <2>4. BlockerKeepsUp'
    BY <2>3 DEF BlockerKeepsUp
  <2>. QED BY <2>1, <2>2, <2>4 DEF InOrder
<1>. QED BY <1>1, <1>2 DEF BlockersInOrder

\* A status write with which no other crosses leaves the call that will see to the blocker.
LEMMA WriteKeepsBlockers ==
  ASSUME CallTypes, RestTypes, RowsMakeSense, BlockersInOrder, NEW c \in Calls,
         at[c] \in Sessions, pc[c] \notin Syncing, NEW st \in BrowserSessionStatus,
         WriteStatus(c, st), NEW step \in Syncing, Goto(c, step),
         UNCHANGED <<execution, sync, at>>
  PROVE  BlockersInOrder'
<1>. USE NoneAssumption DEF CallTypes, RestTypes, Goto, sync
<1>1. SyncsMakeSense'
  <2>1. \A d \in Calls : status[at[d]] # None /\ at[d] \in Sessions => status'[at[d]] # None
    BY DEF WriteStatus
  <2>2. \A d \in Calls \ {c} : pc'[d] = pc[d]
    OBVIOUS
  <2>3. status'[at[c]] # None /\ pc'[c] \in Syncing
    BY DEF WriteStatus
  <2>4. \A d \in Calls : pc[d] \in Syncing /\ at[d] \notin Sessions => at[d] = None
    OBVIOUS
  <2>5. \A d \in Calls : at[d] \notin Sessions => status'[at[d]] = status[at[d]]
    BY DEF WriteStatus
  <2>. QED BY <2>1, <2>2, <2>3, <2>5 DEF BlockersInOrder, SyncsMakeSense
<1>2. ASSUME ~crossed' PROVE InOrder'
  <2>1. \A d \in Calls \ {c} : pc[d] \notin Syncing /\ pc'[d] = pc[d]
    BY <1>2 DEF WriteStatus
  <2>2. stage[c] = "row"
    BY DEF BlockersInOrder, SyncsMakeSense
  <2>3. OneSync'
    BY <2>1, <2>2 DEF OneSync
  <2>4. OthersUntouched'
    <3>. SUFFICES ASSUME NEW s \in Sessions, active'[s], at[c] # s
                  PROVE  status'[at[c]] \in {"CLOSED", "EXPIRED"}
      BY <2>1 DEF OthersUntouched
    <3>1. active[s] /\ ~active[at[c]]
      BY DEF WriteStatus, RowsMakeSense
    <3>. QED BY <1>2, <3>1 DEF WriteStatus
  <2>5. BlockerKeepsUp'
    <3>. SUFFICES ASSUME NEW s \in Sessions, active'[s], execution = "APPROVED", at[c] # s
                  PROVE  BlockerMatches(s)'
      BY DEF BlockerKeepsUp
    <3>1. active[s] /\ ~active[at[c]]
      BY DEF WriteStatus, RowsMakeSense
    <3>2. ~crossed
      BY <1>2, <3>1 DEF WriteStatus
    <3>3. \A d \in Calls : pc[d] \notin Syncing
      BY <2>1
    <3>4. BlockerMatches(s)
      BY <3>1, <3>2, <3>3 DEF BlockersInOrder, InOrder, BlockerKeepsUp
    <3>5. status'[s] = status[s]
      BY DEF WriteStatus
    <3>. QED BY <3>4, <3>5 DEF BlockerMatches
  <2>. QED BY <2>3, <2>4, <2>5 DEF InOrder
<1>. QED BY <1>1, <1>2 DEF BlockersInOrder

\* A call that has seen to its blocker left the active session with the one it calls for.
LEMMA SyncKeepsBlockers ==
  ASSUME CallTypes, RestTypes, CallsMakeSense, RowsMakeSense, BlockersInOrder,
         NEW c \in Calls, SyncBlocker(c)
  PROVE  BlockersInOrder'
<1>. USE NoneAssumption DEF CallTypes, RestTypes
<1>1. /\ at[c] \in Sessions /\ pc[c] \in Syncing /\ status[at[c]] # None
      /\ UNCHANGED <<status, active, execution, crossed>>
      /\ \A d \in Calls \ {c} : pc'[d] = pc[d] /\ at'[d] = at[d] /\ seen'[d] = seen[d]
  BY DEF SyncBlocker, ReadRow, ReadBlocker, WriteBlocker, ResolveLate, Synced, Set, Return, Goto,
         call, rows, ghost, CallsMakeSense, Syncing, BlockersInOrder, SyncsMakeSense
<1>2. \/ pc'[c] = pc[c] /\ at'[c] = at[c]
      \/ pc'[c] \notin Syncing /\ stage'[c] = "row"
  BY <1>1 DEF SyncBlocker, ReadRow, ReadBlocker, WriteBlocker, ResolveLate, Synced, Set, Return, Goto,
         call, Syncing
<1>3. \A d \in Calls \ {c} : stage[d] = "row" => stage'[d] = "row"
  BY DEF SyncBlocker, ReadRow, ReadBlocker, WriteBlocker, ResolveLate, Synced
<1>4. SyncsMakeSense'
  BY <1>1, <1>2, <1>3 DEF BlockersInOrder, SyncsMakeSense
<1>5. ASSUME ~crossed PROVE InOrder'
  <2>. OneSync /\ OthersUntouched /\ BlockerKeepsUp
    BY <1>5 DEF BlockersInOrder, InOrder
  <2>1. \A d \in Calls \ {c} : pc[d] \notin Syncing /\ pc'[d] \notin Syncing
    BY <1>1 DEF OneSync
  <2>2. OthersUntouched'
    BY <1>1, <1>2, <2>1 DEF OthersUntouched
  <2>3. stage[c] # "late" /\ (stage[c] # "row" => seen[c] = status[at[c]] /\ seen[c] \notin {"CLOSED", "EXPIRED"})
    BY <1>1 DEF OneSync
  <2>4. CASE pc'[c] = pc[c] /\ at'[c] = at[c] /\ UNCHANGED blocker
    <3>1. /\ stage'[c] # "late"
          /\ seen'[c] = status[at[c]] /\ seen'[c] \notin {"CLOSED", "EXPIRED"}
      BY <1>1, <2>3, <2>4 DEF SyncBlocker, ReadRow, ReadBlocker, WriteBlocker, ResolveLate, Synced,
           Set, Return, Goto, Syncing, BlockerOf, Unblocked
    <3>2. OneSync'
      BY <1>1, <2>1, <2>4, <3>1 DEF OneSync
    <3>3. BlockerKeepsUp'
      BY <1>1, <2>4 DEF BlockerKeepsUp, BlockerMatches
    <3>. QED BY <2>2, <3>2, <3>3 DEF InOrder
  <2>5. CASE pc'[c] \notin Syncing
    <3>1. OneSync'
      BY <2>1, <2>5 DEF OneSync
    <3>2. \/ UNCHANGED blocker /\ stage[c] = "row" /\ BlockerOf(status[at[c]]) = None
                             /\ status[at[c]] \notin Unblocked
          \/ stage[c] # "row" /\ blocker' = BlockerOf(seen[c])
      BY <1>1, <2>3, <2>5 DEF SyncBlocker, ReadRow, ReadBlocker, WriteBlocker, NewBlocker, ResolveLate,
           Syncing, call
    <3>3. ASSUME NEW s \in Sessions, active[s], execution = "APPROVED" PROVE BlockerMatches(s)'
      <4>1. CASE stage[c] = "row" /\ at[c] = s
        <5>1. status[s] \notin Terminal \cup {None} /\ status[s] \in BrowserSessionStatus
          BY <3>3, <4>1, <1>1 DEF RowsMakeSense
        <5>. QED BY <3>2, <4>1, <5>1 DEF BlockerOf, Unblocked, BrowserSessionStatus, Terminal
      <4>2. CASE stage[c] = "row" /\ at[c] # s
        <5>1. BlockerMatches(s)
          BY <3>3, <4>2, <2>1 DEF BlockerKeepsUp
        <5>. QED BY <1>1, <3>2, <4>2, <5>1 DEF BlockerMatches
      <4>3. CASE stage[c] # "row" /\ at[c] = s
        BY <1>1, <2>3, <3>2, <4>3 DEF BlockerMatches, BlockerOf
      <4>4. CASE stage[c] # "row" /\ at[c] # s
        <5>1. status[s] = "STARTING"
          BY <1>1, <2>3, <3>3, <4>4 DEF OthersUntouched
        <5>. QED BY <1>1, <5>1 DEF BlockerMatches, BlockerOf
      <4>. QED BY <4>1, <4>2, <4>3, <4>4
    <3>4. BlockerKeepsUp'
      BY <1>1, <3>3 DEF BlockerKeepsUp
    <3>. QED BY <2>2, <3>1, <3>4 DEF InOrder
  <2>6. CASE UNCHANGED blocker \/ pc'[c] \notin Syncing
    BY <2>4, <2>5, <2>6, <1>2
  <2>7. UNCHANGED blocker \/ pc'[c] \notin Syncing
    BY <1>1 DEF SyncBlocker, ReadRow, ReadBlocker, WriteBlocker, ResolveLate, Set, Return, Goto, Syncing
  <2>. QED BY <2>6, <2>7
<1>. QED BY <1>1, <1>4, <1>5 DEF BlockersInOrder

\* Every step keeps the blockers in order.
LEMMA ActKeepsBlockers ==
  ASSUME CallTypes, RestTypes, CallsMakeSense, RowsMakeSense, BlockersInOrder, Act
  PROVE  BlockersInOrder'
<1>. USE SessionAssumption, NoneAssumption DEF CallTypes, RestTypes
<1>1. ASSUME NEW c \in Calls, Start(c) PROVE BlockersInOrder'
  BY <1>1, QuietKeepsBlockers DEF Start, Goto, Set, Return, Syncing, call, rows, ghost
<1>2. ASSUME NEW c \in Calls, Create(c) PROVE BlockersInOrder'
  <2>1. UNCHANGED <<execution, sync, crossed>>
    BY <1>2 DEF Create, ghost
  <2>2. \A d \in Calls : pc[d] \in Syncing \/ pc'[d] \in Syncing => pc'[d] = pc[d] /\ at'[d] = at[d]
    BY <1>2 DEF Create, Goto, Set, Return, Syncing
  <2>3. \/ UNCHANGED <<status, active>>
        \/ \E s \in Sessions : /\ ~Exists(s) /\ \A r \in Sessions : ~active[r]
                               /\ status' = [status EXCEPT ![s] = "STARTING"]
                               /\ active' = [active EXCEPT ![s] = TRUE]
    BY <1>2 DEF Create
  <2>4. CASE UNCHANGED <<status, active>>
    BY <2>1, <2>2, <2>4, QuietKeepsBlockers
  <2>5. ASSUME NEW s \in Sessions, ~Exists(s), \A r \in Sessions : ~active[r],
               status' = [status EXCEPT ![s] = "STARTING"], active' = [active EXCEPT ![s] = TRUE]
        PROVE  BlockersInOrder'
    <3>1. \A r \in Sessions : active'[r] => r = s /\ status'[r] = "STARTING"
      BY <2>5 DEF RestTypes
    <3>2. \A d \in Calls : pc[d] \in Syncing => at[d] # s /\ at[d] \in Sessions
      BY <2>5 DEF BlockersInOrder, SyncsMakeSense, Exists, CallsMakeSense, Syncing
    <3>3. \A d \in Calls : pc[d] \in Syncing => status'[at[d]] = status[at[d]]
      BY <2>5, <3>2 DEF RestTypes
    <3>4. SyncsMakeSense'
      BY <2>1, <2>2, <3>3 DEF BlockersInOrder, SyncsMakeSense, sync
    <3>5. ASSUME ~crossed PROVE InOrder'
      <4>1. OneSync'
        BY <2>1, <2>2, <3>3, <3>5 DEF BlockersInOrder, InOrder, OneSync, sync
      <4>2. OthersUntouched'
        BY <3>1 DEF OthersUntouched
      <4>3. BlockerKeepsUp'
        BY <3>1 DEF BlockerKeepsUp, BlockerMatches, BlockerOf
      <4>. QED BY <4>1, <4>2, <4>3 DEF InOrder
    <3>. QED BY <2>1, <3>4, <3>5 DEF BlockersInOrder
  <2>. QED BY <2>3, <2>4, <2>5
<1>3. ASSUME NEW c \in Calls, Again(c) PROVE BlockersInOrder'
  BY <1>3, QuietKeepsBlockers DEF Again, Goto, Set, Return, Syncing, call, rows, ghost
<1>4. ASSUME NEW c \in Calls, Claim(c) PROVE BlockersInOrder'
  BY <1>4, QuietKeepsBlockers DEF Claim, Goto, Set, Return, Syncing, call, rows, ghost
<1>5. ASSUME NEW c \in Calls, Look(c) PROVE BlockersInOrder'
  <2>1. at[c] \in Sessions /\ pc[c] \notin Syncing /\ UNCHANGED <<execution, sync, at>>
    BY <1>5 DEF Look, CallsMakeSense, Syncing
  <2>2. CASE \E st \in BrowserSessionStatus : \E step \in Syncing : WriteStatus(c, st) /\ Goto(c, step)
    BY <2>1, <2>2, WriteKeepsBlockers
  <2>3. CASE /\ UNCHANGED <<status, active, crossed>>
            /\ \E step \in Steps \ Syncing : Goto(c, step)
    BY <2>1, <2>3, QuietKeepsBlockers DEF Goto
  <2>. QED
    BY <1>5, <2>2, <2>3 DEF Look, Touch, rows, ghost, Syncing, Steps, Driving, BrowserSessionStatus, Terminal
<1>6. ASSUME NEW c \in Calls, Open(c) PROVE BlockersInOrder'
  <2>1. at[c] \in Sessions /\ pc[c] \notin Syncing /\ UNCHANGED <<execution, sync, at>>
    BY <1>6 DEF Open, CallsMakeSense, Syncing
  <2>2. CASE \E st \in BrowserSessionStatus : \E step \in Syncing : WriteStatus(c, st) /\ Goto(c, step)
    BY <2>1, <2>2, WriteKeepsBlockers
  <2>3. CASE /\ UNCHANGED <<status, active, crossed>>
            /\ \E step \in Steps \ Syncing : Goto(c, step)
    BY <2>1, <2>3, QuietKeepsBlockers DEF Goto
  <2>. QED
    BY <1>6, <2>2, <2>3 DEF Open, Touch, rows, ghost, Syncing, Steps, Driving, BrowserSessionStatus, Terminal
<1>7. ASSUME NEW c \in Calls, Apply(c) PROVE BlockersInOrder'
  <2>1. at[c] \in Sessions /\ pc[c] \notin Syncing /\ UNCHANGED <<execution, sync, at>>
    BY <1>7 DEF Apply, CallsMakeSense, Syncing
  <2>2. CASE \E st \in BrowserSessionStatus : \E step \in Syncing : WriteStatus(c, st) /\ Goto(c, step)
    BY <2>1, <2>2, WriteKeepsBlockers
  <2>3. CASE /\ UNCHANGED <<status, active, crossed>>
            /\ \E step \in Steps \ Syncing : Goto(c, step)
    BY <2>1, <2>3, QuietKeepsBlockers DEF Goto
  <2>. QED
    BY <1>7, <2>2, <2>3 DEF Apply, Touch, rows, ghost, Syncing, Steps, Driving, BrowserSessionStatus, Terminal
<1>8. ASSUME NEW c \in Calls, SyncBlocker(c) PROVE BlockersInOrder'
  BY <1>8, SyncKeepsBlockers
<1>9. ASSUME NEW c \in Calls, Judge(c) PROVE BlockersInOrder'
  <2>1. at[c] \in Sessions /\ pc[c] \notin Syncing /\ UNCHANGED <<execution, sync, at>>
    BY <1>9 DEF Judge, CallsMakeSense, Syncing
  <2>2. CASE \E st \in BrowserSessionStatus : \E step \in Syncing : WriteStatus(c, st) /\ Goto(c, step)
    BY <2>1, <2>2, WriteKeepsBlockers
  <2>3. CASE /\ UNCHANGED <<status, active, crossed>>
            /\ \E step \in Steps \ Syncing : Goto(c, step)
    BY <2>1, <2>3, QuietKeepsBlockers DEF Goto
  <2>. QED
    BY <1>9, <2>2, <2>3 DEF Judge, Touch, rows, ghost, Syncing, Steps, Driving, BrowserSessionStatus, Terminal
<1>10. ASSUME NEW c \in Calls, MarkApplied(c) PROVE BlockersInOrder'
  BY <1>10, QuietKeepsBlockers DEF MarkApplied, Goto, Set, Return, Syncing, call, rows, ghost
<1>11. ASSUME NEW c \in Calls, Confirm(c) PROVE BlockersInOrder'
  <2>1. at[c] \in Sessions /\ pc[c] \notin Syncing /\ UNCHANGED <<execution, sync, at>>
    BY <1>11 DEF Confirm, CallsMakeSense, Syncing
  <2>2. CASE \E st \in BrowserSessionStatus : \E step \in Syncing : WriteStatus(c, st) /\ Goto(c, step)
    BY <2>1, <2>2, WriteKeepsBlockers
  <2>. QED BY <1>11, <2>2 DEF Confirm, Syncing, BrowserSessionStatus, Terminal
<1>12. ASSUME NEW c \in Calls, Drop(c) PROVE BlockersInOrder'
  BY <1>12, QuietKeepsBlockers DEF Drop, Goto, Set, Return, Syncing, call, rows, ghost
<1>13. ASSUME NEW c \in Calls, Release(c) PROVE BlockersInOrder'
  BY <1>13, QuietKeepsBlockers DEF Release, Goto, Set, Return, Syncing, call, rows, ghost
<1>14. ASSUME NEW c \in Calls, WriteEnd(c) PROVE BlockersInOrder'
  <2>1. at[c] \in Sessions /\ pc[c] \notin Syncing /\ UNCHANGED <<execution, sync, at>>
    BY <1>14 DEF WriteEnd, CallsMakeSense, Syncing
  <2>2. CASE \E st \in BrowserSessionStatus : \E step \in Syncing : WriteStatus(c, st) /\ Goto(c, step)
    BY <2>1, <2>2, WriteKeepsBlockers
  <2>. QED BY <1>14, <2>2 DEF WriteEnd, Syncing, BrowserSessionStatus, Terminal
<1>15. ASSUME NEW c \in Calls, NEW s \in Sessions, Resume(c, s) PROVE BlockersInOrder'
  BY <1>15, QuietKeepsBlockers DEF Resume, Goto, Set, Return, Syncing, call, rows, ghost
<1>16. ASSUME NEW c \in Calls, NEW s \in Sessions, AdvanceStep(c, s) PROVE BlockersInOrder'
  BY <1>16, QuietKeepsBlockers DEF AdvanceStep, Goto, Set, Return, Syncing, call, rows, ghost
<1>17. ASSUME NEW c \in Calls, NEW s \in Sessions, Reconcile(c, s) PROVE BlockersInOrder'
  BY <1>17, QuietKeepsBlockers DEF Reconcile, Goto, Set, Return, Syncing, call, rows, ghost
<1>18. ASSUME NEW c \in Calls, NEW s \in Sessions, Close(c, s) PROVE BlockersInOrder'
  BY <1>18, QuietKeepsBlockers DEF Close, Goto, Set, Return, Syncing, call, rows, ghost
<1>19. ASSUME NEW c \in Calls, NEW s \in Sessions, FindStale(c, s) PROVE BlockersInOrder'
  BY <1>19, QuietKeepsBlockers DEF FindStale, Goto, Set, Return, Syncing, call, rows, ghost
<1>20. ASSUME EndExecution PROVE BlockersInOrder'
  BY <1>20, QuietKeepsBlockers DEF EndExecution, Goto, Set, Return, Syncing, call, rows, ghost
<1>21. ASSUME NEW p \in Procs, Crash(p) PROVE BlockersInOrder'
  <2>1. \A d \in Calls : \/ pc'[d] = pc[d] /\ at'[d] = at[d] /\ stage'[d] = stage[d] /\ seen'[d] = seen[d]
                         \/ pc'[d] = "idle" /\ stage'[d] = "row" /\ (pc[d] \in Syncing => crossed')
    <3>. TAKE d \in Calls
    <3>1. CASE Home[d] = p
      BY <1>21, <3>1 DEF Crash
    <3>2. CASE Home[d] # p
      <4>1. d \notin {c \in Calls : Home[c] = p}
        BY <3>2
      <4>2. pc'[d] = pc[d] /\ at'[d] = at[d]
        BY <1>21, <4>1 DEF Crash
      <4>3. stage'[d] = stage[d] /\ seen'[d] = seen[d]
        BY <1>21, <4>1 DEF Crash
      <4>. QED BY <4>2, <4>3
    <3>. QED BY <3>1, <3>2
  <2>2. UNCHANGED <<status, active, execution, blocker>> /\ (crossed => crossed')
    BY <1>21 DEF Crash, rows
  <2>3. SyncsMakeSense'
    BY <2>1, <2>2 DEF BlockersInOrder, SyncsMakeSense, Syncing
  <2>4. ASSUME ~crossed' PROVE InOrder'
    <3>. OneSync /\ OthersUntouched /\ BlockerKeepsUp
      BY <2>2, <2>4 DEF BlockersInOrder, InOrder
    <3>1. \A d \in Calls : pc[d] \in Syncing \/ pc'[d] \in Syncing =>
            pc'[d] = pc[d] /\ at'[d] = at[d] /\ stage'[d] = stage[d] /\ seen'[d] = seen[d]
      BY <2>1, <2>4 DEF Syncing
    <3>2. OneSync'
      BY <2>2, <3>1 DEF OneSync
    <3>3. OthersUntouched'
      BY <2>2, <3>1 DEF OthersUntouched
    <3>4. BlockerKeepsUp'
      BY <2>2, <3>1 DEF BlockerKeepsUp, BlockerMatches
    <3>. QED BY <3>2, <3>3, <3>4 DEF InOrder
  <2>. QED BY <2>3, <2>4 DEF BlockersInOrder
<1>22. ASSUME NEW p \in Procs, NEW s \in Sessions, Submit(p, s) PROVE BlockersInOrder'
  BY <1>22, QuietKeepsBlockers DEF Submit, Goto, Set, Return, Syncing, call, rows, ghost
<1>23. ASSUME NEW s \in Sessions, GrowIdle(s) PROVE BlockersInOrder'
  BY <1>23, QuietKeepsBlockers DEF GrowIdle, Goto, Set, Return, Syncing, call, rows, ghost
<1>24. ASSUME NEW s \in Sessions, LeaseLapses(s) PROVE BlockersInOrder'
  BY <1>24, QuietKeepsBlockers DEF LeaseLapses, Goto, Set, Return, Syncing, call, rows, ghost
<1>25. ASSUME NEW c \in Calls, NEW s \in Sessions, Answer(c, s) PROVE BlockersInOrder'
  BY <1>25, QuietKeepsBlockers DEF Answer, Goto, Set, Return, Syncing, call, rows, ghost
<1>26. ASSUME NEW c \in Calls, Answered(c) PROVE BlockersInOrder'
  BY <1>26, QuietKeepsBlockers DEF Answered, Goto, Set, Return, Syncing, call, rows, ghost
<1>27. ASSUME NEW c \in Calls, GiveUpBlocker(c) PROVE BlockersInOrder'
  <2>1. crossed' /\ UNCHANGED status /\ pc[c] \in Syncing
    BY <1>27 DEF GiveUpBlocker, rows
  <2>2. \A d \in Calls \ {c} : pc'[d] = pc[d] /\ at'[d] = at[d] /\ stage'[d] = stage[d]
    BY <1>27 DEF GiveUpBlocker, Synced, Set, Return, Goto
  <2>3. pc'[c] \notin Syncing /\ stage'[c] = "row"
    BY <1>27 DEF GiveUpBlocker, Synced, Set, Return, Goto, Syncing
  <2>4. SyncsMakeSense'
    BY <2>1, <2>2, <2>3 DEF BlockersInOrder, SyncsMakeSense
  <2>. QED BY <2>1, <2>4 DEF BlockersInOrder
<1>. QED
  BY ONLY Act, <1>1, <1>2, <1>3, <1>4, <1>5, <1>6, <1>7, <1>8, <1>9, <1>10, <1>11, <1>12,
     <1>13, <1>14, <1>15, <1>16, <1>17, <1>18, <1>19, <1>20, <1>21, <1>22, <1>23, <1>24, <1>25,
     <1>26, <1>27
  DEF Act, Body


\* What every reachable state satisfies.
IInv ==
  /\ TypeOK /\ CallsMakeSense /\ ConfirmationsAreBacked /\ ConfirmedIsBacked
  /\ RowsMakeSense /\ BlockersInOrder

LEMMA TypesSplit == TypeOK <=> CallTypes /\ RestTypes /\ begun \in 0..MaxCalls
BY DEF TypeOK, CallTypes, RestTypes

LEMMA InitEstablishes == Init => IInv
<1>. SUFFICES ASSUME Init PROVE IInv
  OBVIOUS
<1>. USE SessionAssumption, NoneAssumption DEF Init
<1>1. CallTypes /\ RestTypes /\ begun \in 0..MaxCalls
  <2>1. CallTypes
    BY DEF CallTypes, Steps
  <2>2. crashes \in 0..MaxCrashes /\ begun \in 0..MaxCalls
    OBVIOUS
  <2>3. window \in [Procs -> [Sessions -> {None, "form", "sent"}]]
    OBVIOUS
  <2>4. submitted \subseteq Sessions /\ crossed \in BOOLEAN
    OBVIOUS
  <2>. QED BY <2>1, <2>2, <2>3, <2>4 DEF RestTypes
<1>2. CallsMakeSense /\ ConfirmationsAreBacked /\ ConfirmedIsBacked
  BY DEF CallsMakeSense, ConfirmationsAreBacked, ConfirmedIsBacked, BrowserSessionStatus, Terminal
<1>3. RowsMakeSense /\ BlockersInOrder
  BY DEF RowsMakeSense, BlockersInOrder, SyncsMakeSense, InOrder, OneSync, OthersUntouched,
         BlockerKeepsUp, Syncing
<1>. QED BY <1>1, <1>2, <1>3, TypesSplit DEF IInv

LEMMA NextKeeps == IInv /\ [Next]_vars => IInv'
<1>. SUFFICES ASSUME IInv, [Next]_vars PROVE IInv'
  OBVIOUS
<1>1. CASE Next
  <2>1. Act /\ begun' \in 0..MaxCalls
    BY <1>1, NextActs DEF IInv
  <2>2. CallTypes /\ RestTypes
    BY TypesSplit DEF IInv
  <2>3. CallTypes'
    BY <2>1, <2>2, ActKeepsCallTypes DEF IInv
  <2>4. RestTypes'
    BY <2>1, <2>2, ActKeepsRestTypes DEF IInv
  <2>5. CallsMakeSense'
    BY <2>1, <2>2, ActKeepsCalls DEF IInv
  <2>6. ConfirmationsAreBacked' /\ ConfirmedIsBacked'
    BY <2>1, <2>2, ActKeepsBacked DEF IInv
  <2>7. TypeOK'
    BY <2>1, <2>3, <2>4 DEF TypeOK, CallTypes, RestTypes
  <2>8. RowsMakeSense'
    BY <2>1, <2>2, ActKeepsRows DEF IInv
  <2>9. BlockersInOrder'
    BY <2>1, <2>2, ActKeepsBlockers DEF IInv
  <2>. QED BY <2>5, <2>6, <2>7, <2>8, <2>9 DEF IInv
<1>2. CASE UNCHANGED vars
  BY <1>2 DEF IInv, TypeOK, CallsMakeSense, ConfirmationsAreBacked, ConfirmedIsBacked,
              RowsMakeSense, BlockersInOrder, SyncsMakeSense, InOrder, OneSync, OthersUntouched,
              BlockerKeepsUp, BlockerMatches, vars, rows, call, sync, ghost
<1>. QED BY <1>1, <1>2

LEMMA Inductive == Spec => []IInv
<1>1. Init => IInv
  BY InitEstablishes
<1>. QED BY <1>1, NextKeeps, PTL DEF Spec

\* Every variable of the sessions keeps its type (browser_session.py and the
\* registry of windows of browser_runtime.py).
THEOREM TypeCorrect == Spec => []TypeOK
<1>1. IInv => TypeOK
  BY DEF IInv
<1>. QED BY <1>1, Inductive, PTL

\* Whatever dies between the two writes of a confirmation, a CONFIRMED session has
\* an execution that ended, and an execution is recorded as applied only after a form was submitted
\* (attempt_user_submit_reconciliation()).
THEOREM ConfirmationsBacked == Spec => []ConfirmedIsBacked
<1>1. IInv => ConfirmedIsBacked
  BY DEF IInv
<1>. QED BY <1>1, Inductive, PTL

\* While the execution is active and its writes have settled, the blocker is the one
\* the status of the active session calls for, however calls of however many processes
\* interleaved before, unless two writes crossed since the last that none crossed
\* (update_session(), _sync_blocker(), raise_blocker(), resolve_blocker()).
THEOREM BlockersFollow == Spec => []BlockerFollowsSession
<1>1. IInv => BlockerFollowsSession
  BY DEF IInv, BlockersInOrder, InOrder, BlockerKeepsUp, BlockerFollowsSession, Settled
<1>. QED BY <1>1, Inductive, PTL

=============================================================================

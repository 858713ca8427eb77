----------------------- MODULE CanarySubmissionProofs -----------------------
(***************************************************************************)
(* What the canary guarantees for every number of calls, executions,       *)
(* sessions, crashes and exceptions: the submit button is pressed once at  *)
(* most for an execution; and, of calls one at a time, the posting gets    *)
(* one application and an unknown outcome keeps its execution active.      *)
(***************************************************************************)
EXTENDS CanarySubmission, TLAPS

CallTypes == pc \in [Calls -> Steps] /\ frame \in [Calls -> Frames]

RowTypes ==
  /\ status \in [Executions -> ExecutionStatus \cup {NoStatus}]
  /\ active \in [Executions -> BOOLEAN]
  /\ jobState \in JobStates
  /\ attempted \in [Executions -> BOOLEAN]
  /\ outcome \in [Executions -> SubmitOutcome \cup {None}]
  /\ sessStatus \in [Sessions -> SessionStatus \cup {None}]
  /\ sessActive \in [Sessions -> BOOLEAN]
  /\ lessee \in [Sessions -> Calls \cup {None}]

HistoryTypes ==
  /\ clicks \in [Executions -> Nat] /\ received \in 0..2
  /\ excused \in BOOLEAN /\ dropped \in [Executions -> BOOLEAN]
  /\ begun \in 0..MaxCalls /\ faults \in 0..MaxFaults

Types == CallTypes /\ RowTypes /\ HistoryTypes

\* A call knows the execution, and the session, that its step is about.
CallsMakeSense ==
  /\ \A c \in Calls : pc[c] \in {"claim", "drive", "release"} \cup Engine => Sess(c) \in Sessions
  /\ \A c \in Calls : pc[c] \notin {"idle", "contract"} => Exec(c) \in Executions

\* Whoever is about to press has the claim, alone, and nobody has pressed yet.
ClaimsHold ==
  /\ OneClick
  /\ \A c \in Calls : pc[c] = "click" => attempted[Exec(c)] /\ clicks[Exec(c)] = 0
  /\ \A c, d \in Calls : pc[c] = "click" /\ pc[d] = "click" /\ Exec(c) = Exec(d) => c = d

\* No step but the claim brings a call to the button.
NonePresses ==
  \A c \in Calls : pc'[c] = "click" => pc[c] = "click" /\ frame'[c].exec = frame[c].exec

\* The index of active executions, and: of calls one at a time, the execution that a
\* call is about stays active until the call settles it.
OneActive == \A e, f \in Executions : active[e] /\ active[f] => e = f
Unsettled == Steps \ {"idle", "contract", "mirror", "close"}
Alone ==
  /\ \A c, d \in Calls : pc[c] # "idle" /\ pc[d] # "idle" => c = d
  /\ \A c \in Calls : pc[c] \in Unsettled => active[Exec(c)]
  /\ UnknownStaysActive

\* Where an application that the posting got has left its mark, ...
Marked ==
  \/ \E e \in Executions : active[e] /\ attempted[e]
  \/ \E c \in Calls : pc[c] = "mirror" /\ frame[c].result = "CONFIRMED"
  \/ jobState = "APPLIED"

\* ... and what a call can still do after it.
Pressing == {"take", "claim", "drive", "release", "fresh", "live", "acquire", "click"}
Harmless(c) ==
  /\ pc[c] \notin Pressing
  /\ pc[c] \in {"check", "start"} => jobState = "APPLIED"
  /\ pc[c] \in {"record", "settle", "mirror"} =>
       \/ frame[c].result = "BLOCKED"
       \/ frame[c].result = "CONFIRMED"
       \/ frame[c].result = "SUBMISSION_STATUS_UNKNOWN" /\ active[Exec(c)] /\ attempted[Exec(c)]

Applied ==
  /\ received \in {0, 1}
  /\ received = 1 => Marked /\ (\A c \in Calls : Harmless(c))
  /\ \A c \in Calls : pc[c] \in {"settle", "mirror"} => frame[c].result # "BLOCKED"

-----------------------------------------------------------------------------
(* What an update of a frame, and a status with its mirror, can be. *)

OneUpdate(c) ==
  \/ \E e \in Executions : frame' = [frame EXCEPT ![c].exec = e]
  \/ \E s \in Sessions : frame' = [frame EXCEPT ![c].sess = s]
  \/ \E s \in Sessions : frame' = [frame EXCEPT ![c].sess = s, ![c].created = TRUE]
  \/ \E st \in SessionStatus \cup {None} : frame' = [frame EXCEPT ![c].seen = st]
  \/ \E st \in SessionStatus \cup {None}, r \in SubmitOutcome : frame' = [frame EXCEPT ![c].seen = st, ![c].result = r]
  \/ \E st \in SessionStatus : frame' = [frame EXCEPT ![c].seen = st, ![c].window = TRUE]
  \/ \E r \in SubmitOutcome : frame' = [frame EXCEPT ![c].result = r]
  \/ frame' = [frame EXCEPT ![c] = NoFrame]
  \/ frame' = frame

LEMMA FrameUpdates ==
  ASSUME frame \in [Calls -> Frames], NEW c \in Calls, OneUpdate(c)
  PROVE  frame' \in [Calls -> Frames]
<1>1. CASE \E e \in Executions : frame' = [frame EXCEPT ![c].exec = e]
  <2>1. PICK e \in Executions : frame' = [frame EXCEPT ![c].exec = e]
    BY <1>1
  <2>. QED BY <2>1 DEF Frames
<1>2. CASE \E s \in Sessions : frame' = [frame EXCEPT ![c].sess = s]
  <2>1. PICK s \in Sessions : frame' = [frame EXCEPT ![c].sess = s]
    BY <1>2
  <2>. QED BY <2>1 DEF Frames
<1>3. CASE \E s \in Sessions : frame' = [frame EXCEPT ![c].sess = s, ![c].created = TRUE]
  <2>1. PICK s \in Sessions : frame' = [frame EXCEPT ![c].sess = s, ![c].created = TRUE]
    BY <1>3
  <2>. QED BY <2>1 DEF Frames
<1>4. CASE \E st \in SessionStatus \cup {None} : frame' = [frame EXCEPT ![c].seen = st]
  <2>1. PICK st \in SessionStatus \cup {None} : frame' = [frame EXCEPT ![c].seen = st]
    BY <1>4
  <2>. QED BY <2>1 DEF Frames
<1>5. CASE \E st \in SessionStatus \cup {None}, r \in SubmitOutcome : frame' = [frame EXCEPT ![c].seen = st, ![c].result = r]
  <2>1. PICK st \in SessionStatus \cup {None}, r \in SubmitOutcome : frame' = [frame EXCEPT ![c].seen = st, ![c].result = r]
    BY <1>5
  <2>. QED BY <2>1 DEF Frames
<1>6. CASE \E st \in SessionStatus : frame' = [frame EXCEPT ![c].seen = st, ![c].window = TRUE]
  <2>1. PICK st \in SessionStatus : frame' = [frame EXCEPT ![c].seen = st, ![c].window = TRUE]
    BY <1>6
  <2>. QED BY <2>1 DEF Frames
<1>7. CASE \E r \in SubmitOutcome : frame' = [frame EXCEPT ![c].result = r]
  <2>1. PICK r \in SubmitOutcome : frame' = [frame EXCEPT ![c].result = r]
    BY <1>7
  <2>. QED BY <2>1 DEF Frames
<1>8. CASE frame' = [frame EXCEPT ![c] = NoFrame]
  BY <1>8 DEF NoFrame, Frames
<1>9. CASE frame' = frame
  BY <1>9
<1>. QED
  BY <1>1, <1>2, <1>3, <1>4, <1>5, <1>6, <1>7, <1>8, <1>9 DEF OneUpdate

LEMMA StatusFacts ==
  /\ \A r : StatusOf(r) \in {"APPLIED", "PERMANENT_SUBMISSION_FAILURE", "SUBMISSION_STATUS_UNKNOWN"}
  /\ StatusOf("CONFIRMED") = "APPLIED"
  /\ \A r : r # "CONFIRMED" => StatusOf(r) # "APPLIED"
  /\ \A r : StatusOf(r) = "SUBMISSION_STATUS_UNKNOWN" <=> r \notin {"CONFIRMED", "REJECTED"}
  /\ {"APPROVED", "APPLIED", "WITHDRAWN", "PERMANENT_SUBMISSION_FAILURE",
      "SUBMISSION_STATUS_UNKNOWN"} \subseteq ExecutionStatus
  /\ {"APPROVED", "APPLIED", "WITHDRAWN", "SUBMISSION_FAILED",
      "SUBMISSION_STATUS_UNKNOWN"} \subseteq JobStates
  /\ MirrorOf("APPLIED") = "APPLIED" /\ MirrorOf("WITHDRAWN") = "WITHDRAWN"
  /\ MirrorOf("SUBMISSION_STATUS_UNKNOWN") = "SUBMISSION_STATUS_UNKNOWN"
  /\ MirrorOf("PERMANENT_SUBMISSION_FAILURE") = "SUBMISSION_FAILED"
  /\ {"APPLIED", "PERMANENT_SUBMISSION_FAILURE"} \subseteq TerminalStatuses
  /\ "SUBMISSION_STATUS_UNKNOWN" \notin TerminalStatuses
  /\ "APPLIED" \notin QueueableStates
BY DEF StatusOf, MirrorOf, ExecutionStatus, JobStates, TerminalStatuses, QueueableStates,
   InFlightStatuses

\* One call is running: what the posting got concerns nobody else.
LEMMA SingleApplied ==
  ASSUME NEW c \in Calls, \A d \in Calls : d # c => pc'[d] = "idle" /\ pc[d] = "idle",
         received' \in {0, 1} /\ (received' = 1 => Marked' /\ Harmless(c)'),
         pc'[c] \notin {"settle", "mirror"} \/ frame'[c].result # "BLOCKED"
  PROVE  Applied'
BY DEF Applied, Harmless, Pressing

-----------------------------------------------------------------------------

\* Every step keeps the types of the calls.
LEMMA NextKeepsCallTypes ==
  ASSUME Types, CallsMakeSense, Next
  PROVE  CallTypes'
<1>. USE CanaryAssumption DEF Types, CallTypes, RowTypes, CallsMakeSense, Goto, Return,
     FinishWith, Sess, ActiveExecutions, ActiveSessions, execVars, claimVars, sessVars,
     callVars, history, bounds
<1>1. ASSUME NEW c \in Calls, Begin(c) PROVE CallTypes'
  BY <1>1 DEF Begin, Steps, Opening, Engine
<1>2. ASSUME NEW c \in Calls, ReadClaim(c) PROVE CallTypes'
  <2>1. pc' \in [Calls -> Steps]
    BY <1>2 DEF ReadClaim, Steps, Opening, Engine
  <2>2. OneUpdate(c)
    BY ONLY <1>2, CallTypes, RowTypes, CallsMakeSense DEF CallTypes, RowTypes, CallsMakeSense, Engine, Frames, OneUpdate, ReadClaim, ActiveExecutions, Return
  <2>3. frame' \in [Calls -> Frames]
    BY ONLY <1>2, CallTypes, <2>2, FrameUpdates DEF CallTypes
  <2>. QED BY <2>1, <2>3 DEF CallTypes
<1>3. ASSUME NEW c \in Calls, Check(c) PROVE CallTypes'
  <2>1. pc' \in [Calls -> Steps]
    BY <1>3 DEF Check, Steps, Opening, Engine
  <2>2. OneUpdate(c)
    BY ONLY <1>3, CallTypes, RowTypes, CallsMakeSense DEF CallTypes, RowTypes, CallsMakeSense, Engine, Frames, OneUpdate, Check, Return
  <2>3. frame' \in [Calls -> Frames]
    BY ONLY <1>3, CallTypes, <2>2, FrameUpdates DEF CallTypes
  <2>. QED BY <2>1, <2>3 DEF CallTypes
<1>4. ASSUME NEW c \in Calls, Start(c) PROVE CallTypes'
  <2>1. pc' \in [Calls -> Steps]
    BY <1>4 DEF Start, Steps, Opening, Engine
  <2>2. OneUpdate(c)
    BY ONLY <1>4, CallTypes, RowTypes, CallsMakeSense DEF CallTypes, RowTypes, CallsMakeSense, Engine, Frames, OneUpdate, Start, Return
  <2>3. frame' \in [Calls -> Frames]
    BY ONLY <1>4, CallTypes, <2>2, FrameUpdates DEF CallTypes
  <2>. QED BY <2>1, <2>3 DEF CallTypes
<1>5. ASSUME NEW c \in Calls, Take(c) PROVE CallTypes'
  <2>1. pc' \in [Calls -> Steps]
    BY <1>5 DEF Take, Steps, Opening, Engine
  <2>2. OneUpdate(c)
    BY ONLY <1>5, CallTypes, RowTypes, CallsMakeSense DEF CallTypes, RowTypes, CallsMakeSense, Engine, Frames, OneUpdate, Take, ActiveSessions, Return
  <2>3. frame' \in [Calls -> Frames]
    BY ONLY <1>5, CallTypes, <2>2, FrameUpdates DEF CallTypes
  <2>. QED BY <2>1, <2>3 DEF CallTypes
<1>6. ASSUME NEW c \in Calls, Claim(c) PROVE CallTypes'
  <2>1. pc' \in [Calls -> Steps]
    BY <1>6 DEF Claim, Decide, Steps, Opening, Engine
  <2>2. OneUpdate(c)
    BY ONLY <1>6, CallTypes, RowTypes, CallsMakeSense DEF CallTypes, RowTypes, CallsMakeSense, Engine, Frames, OneUpdate, Claim, Decide, SubmitOutcome, Sess
  <2>3. frame' \in [Calls -> Frames]
    BY ONLY <1>6, CallTypes, <2>2, FrameUpdates DEF CallTypes
  <2>. QED BY <2>1, <2>3 DEF CallTypes
<1>7. ASSUME NEW c \in Calls, Drive(c) PROVE CallTypes'
  <2>1. pc' \in [Calls -> Steps]
    BY <1>7 DEF Drive, WriteSession, Steps, Opening, Engine
  <2>2. OneUpdate(c)
    BY ONLY <1>7, CallTypes, RowTypes, CallsMakeSense DEF CallTypes, RowTypes, CallsMakeSense, Engine, Frames, OneUpdate, Drive, WriteSession, SessionStatus
  <2>3. frame' \in [Calls -> Frames]
    BY ONLY <1>7, CallTypes, <2>2, FrameUpdates DEF CallTypes
  <2>. QED BY <2>1, <2>3 DEF CallTypes
<1>8. ASSUME NEW c \in Calls, Release(c) PROVE CallTypes'
  <2>1. pc' \in [Calls -> Steps]
    BY <1>8 DEF Release, Decide, Steps, Opening, Engine
  <2>2. OneUpdate(c)
    BY ONLY <1>8, CallTypes, RowTypes, CallsMakeSense DEF CallTypes, RowTypes, CallsMakeSense, Engine, Frames, OneUpdate, Release, Decide, Return, SubmitOutcome
  <2>3. frame' \in [Calls -> Frames]
    BY ONLY <1>8, CallTypes, <2>2, FrameUpdates DEF CallTypes
  <2>. QED BY <2>1, <2>3 DEF CallTypes
<1>9. ASSUME NEW c \in Calls, Fresh(c) PROVE CallTypes'
  <2>1. pc' \in [Calls -> Steps]
    BY <1>9 DEF Fresh, Steps, Opening, Engine
  <2>2. OneUpdate(c)
    BY ONLY <1>9, CallTypes, RowTypes, CallsMakeSense DEF CallTypes, RowTypes, CallsMakeSense, Engine, Frames, OneUpdate, Fresh, FinishWith, SubmitOutcome
  <2>3. frame' \in [Calls -> Frames]
    BY ONLY <1>9, CallTypes, <2>2, FrameUpdates DEF CallTypes
  <2>. QED BY <2>1, <2>3 DEF CallTypes
<1>10. ASSUME NEW c \in Calls, Scan(c) PROVE CallTypes'
  <2>1. pc' \in [Calls -> Steps]
    BY <1>10 DEF Scan, Steps, Opening, Engine
  <2>2. OneUpdate(c)
    BY ONLY <1>10, CallTypes, RowTypes, CallsMakeSense DEF CallTypes, RowTypes, CallsMakeSense, Engine, Frames, OneUpdate, Scan, FinishWith, SubmitOutcome
  <2>3. frame' \in [Calls -> Frames]
    BY ONLY <1>10, CallTypes, <2>2, FrameUpdates DEF CallTypes
  <2>. QED BY <2>1, <2>3 DEF CallTypes
<1>11. ASSUME NEW c \in Calls, AcquireSubmitClaim(c) PROVE CallTypes'
  BY <1>11 DEF AcquireSubmitClaim, FreeClaim, Steps, Opening, Engine
<1>12. ASSUME NEW c \in Calls, Click(c) PROVE CallTypes'
  <2>1. pc' \in [Calls -> Steps]
    BY <1>12 DEF Click, Get, Steps, Opening, Engine
  <2>2. OneUpdate(c)
    BY ONLY <1>12, CallTypes, RowTypes, CallsMakeSense DEF CallTypes, RowTypes, CallsMakeSense, Engine, Frames, OneUpdate, Click, Get, FinishWith, SubmitOutcome, Judgements
  <2>3. frame' \in [Calls -> Frames]
    BY ONLY <1>12, CallTypes, <2>2, FrameUpdates DEF CallTypes
  <2>. QED BY <2>1, <2>3 DEF CallTypes
<1>13. ASSUME NEW c \in Calls, Record(c) PROVE CallTypes'
  BY <1>13 DEF Record, RecordOutcome, Steps, Opening, Engine
<1>14. ASSUME NEW c \in Calls, Settle(c) PROVE CallTypes'
  BY <1>14 DEF Settle, Steps, Opening, Engine
<1>15. ASSUME NEW c \in Calls, Mirror(c) PROVE CallTypes'
  BY <1>15 DEF Mirror, Steps, Opening, Engine
<1>16. ASSUME NEW c \in Calls, CloseSession(c) PROVE CallTypes'
  <2>1. pc' \in [Calls -> Steps]
    BY <1>16 DEF CloseSession, WriteSession, Steps, Opening, Engine
  <2>2. OneUpdate(c)
    BY ONLY <1>16, CallTypes, RowTypes, CallsMakeSense DEF CallTypes, RowTypes, CallsMakeSense, Engine, Frames, OneUpdate, CloseSession, WriteSession, Return
  <2>3. frame' \in [Calls -> Frames]
    BY ONLY <1>16, CallTypes, <2>2, FrameUpdates DEF CallTypes
  <2>. QED BY <2>1, <2>3 DEF CallTypes
<1>17. ASSUME NEW c \in Calls, Raise(c) PROVE CallTypes'
  BY <1>17 DEF Raise, Get, Steps, Opening, Engine
<1>18. ASSUME NEW c \in Calls, Crash(c) PROVE CallTypes'
  <2>1. pc' \in [Calls -> Steps]
    BY <1>18 DEF Crash, Steps, Opening, Engine
  <2>2. OneUpdate(c)
    BY ONLY <1>18, CallTypes, RowTypes, CallsMakeSense DEF CallTypes, RowTypes, CallsMakeSense, Engine, Frames, OneUpdate, Crash, Return
  <2>3. frame' \in [Calls -> Frames]
    BY ONLY <1>18, CallTypes, <2>2, FrameUpdates DEF CallTypes
  <2>. QED BY <2>1, <2>3 DEF CallTypes
<1>19. ASSUME NEW s \in Sessions, LeaseLapses(s) PROVE CallTypes'
  BY <1>19 DEF LeaseLapses
<1>20. ASSUME NEW e \in Executions, Approve(e) PROVE CallTypes'
  BY <1>20 DEF Approve
<1>21. ASSUME NEW e \in Executions, Reconcile(e) PROVE CallTypes'
  BY <1>21 DEF Reconcile
<1>. QED
  BY ONLY Next, <1>1, <1>2, <1>3, <1>4, <1>5, <1>6, <1>7, <1>8, <1>9, <1>10, <1>11,
     <1>12, <1>13, <1>14, <1>15, <1>16, <1>17, <1>18, <1>19, <1>20, <1>21 DEF Next, Step

\* Every step keeps the types of the rows.
LEMMA NextKeepsRowTypes ==
  ASSUME Types, CallsMakeSense, Next
  PROVE  RowTypes'
<1>. USE CanaryAssumption DEF Types, CallTypes, RowTypes, CallsMakeSense, Steps,
     Opening, Engine, Frames, Exec, Sess, SubmitOutcome, SessionStatus, execVars,
     claimVars, sessVars, callVars, history, bounds
<1>1. ASSUME NEW c \in Calls, Begin(c) PROVE RowTypes'
  BY <1>1 DEF Begin
<1>2. ASSUME NEW c \in Calls, ReadClaim(c) PROVE RowTypes'
  BY <1>2 DEF ReadClaim
<1>3. ASSUME NEW c \in Calls, Check(c) PROVE RowTypes'
  BY <1>3 DEF Check
<1>4. ASSUME NEW c \in Calls, Start(c) PROVE RowTypes'
  BY <1>4 DEF Start
<1>5. ASSUME NEW c \in Calls, Take(c) PROVE RowTypes'
  BY <1>5 DEF Take
<1>6. ASSUME NEW c \in Calls, Claim(c) PROVE RowTypes'
  BY <1>6 DEF Claim, Decide
<1>7. ASSUME NEW c \in Calls, Drive(c) PROVE RowTypes'
  <2>1. sessStatus' \in [Sessions -> SessionStatus \cup {None}]
    BY <1>7 DEF Drive, WriteSession
  <2>2. sessActive' \in [Sessions -> BOOLEAN]
    BY <1>7 DEF Drive, WriteSession
  <2>. QED BY ONLY <1>7, <2>1, <2>2, RowTypes DEF RowTypes, Drive, execVars, claimVars
<1>8. ASSUME NEW c \in Calls, Release(c) PROVE RowTypes'
  BY <1>8 DEF Release, Decide
<1>9. ASSUME NEW c \in Calls, Fresh(c) PROVE RowTypes'
  BY <1>9 DEF Fresh
<1>10. ASSUME NEW c \in Calls, Scan(c) PROVE RowTypes'
  BY <1>10 DEF Scan
<1>11. ASSUME NEW c \in Calls, AcquireSubmitClaim(c) PROVE RowTypes'
  BY <1>11 DEF AcquireSubmitClaim, FreeClaim
<1>12. ASSUME NEW c \in Calls, Click(c) PROVE RowTypes'
  BY <1>12 DEF Click, Get
<1>13. ASSUME NEW c \in Calls, Record(c) PROVE RowTypes'
  BY <1>13 DEF Record, RecordOutcome
<1>14. ASSUME NEW c \in Calls, Settle(c) PROVE RowTypes'
  <2>1. StatusOf(frame[c].result) \in ExecutionStatus
    BY StatusFacts
  <2>2. active' \in [Executions -> BOOLEAN] /\ status' \in [Executions -> ExecutionStatus \cup {NoStatus}]
    BY <1>14, <2>1 DEF Settle
  <2>. QED BY <1>14, <2>2 DEF Settle
<1>15. ASSUME NEW c \in Calls, Mirror(c) PROVE RowTypes'
  <2>1. MirrorOf(StatusOf(frame[c].result)) \in JobStates
    BY StatusFacts
  <2>. QED BY <1>15, <2>1 DEF Mirror
<1>16. ASSUME NEW c \in Calls, CloseSession(c) PROVE RowTypes'
  BY <1>16 DEF CloseSession, WriteSession
<1>17. ASSUME NEW c \in Calls, Raise(c) PROVE RowTypes'
  BY <1>17 DEF Raise, Get
<1>18. ASSUME NEW c \in Calls, Crash(c) PROVE RowTypes'
  BY <1>18 DEF Crash
<1>19. ASSUME NEW s \in Sessions, LeaseLapses(s) PROVE RowTypes'
  BY <1>19 DEF LeaseLapses
<1>20. ASSUME NEW e \in Executions, Approve(e) PROVE RowTypes'
  BY <1>20, StatusFacts DEF Approve
<1>21. ASSUME NEW e \in Executions, Reconcile(e) PROVE RowTypes'
  BY <1>21, StatusFacts DEF Reconcile
<1>. QED
  BY ONLY Next, <1>1, <1>2, <1>3, <1>4, <1>5, <1>6, <1>7, <1>8, <1>9, <1>10, <1>11,
     <1>12, <1>13, <1>14, <1>15, <1>16, <1>17, <1>18, <1>19, <1>20, <1>21 DEF Next, Step

\* Every step keeps the types of the history and the bounds.
LEMMA NextKeepsHistoryTypes ==
  ASSUME Types, CallsMakeSense, Next
  PROVE  HistoryTypes'
<1>. USE CanaryAssumption DEF Types, CallTypes, HistoryTypes, CallsMakeSense, Steps,
     Opening, Engine, Exec, execVars, claimVars, sessVars, callVars, history, bounds
<1>1. ASSUME NEW c \in Calls, Begin(c) PROVE HistoryTypes'
  BY <1>1 DEF Begin
<1>2. ASSUME NEW c \in Calls, ReadClaim(c) PROVE HistoryTypes'
  BY <1>2 DEF ReadClaim
<1>3. ASSUME NEW c \in Calls, Check(c) PROVE HistoryTypes'
  BY <1>3 DEF Check
<1>4. ASSUME NEW c \in Calls, Start(c) PROVE HistoryTypes'
  BY <1>4 DEF Start
<1>5. ASSUME NEW c \in Calls, Take(c) PROVE HistoryTypes'
  BY <1>5 DEF Take
<1>6. ASSUME NEW c \in Calls, Claim(c) PROVE HistoryTypes'
  BY <1>6 DEF Claim, Decide
<1>7. ASSUME NEW c \in Calls, Drive(c) PROVE HistoryTypes'
  BY <1>7 DEF Drive, WriteSession
<1>8. ASSUME NEW c \in Calls, Release(c) PROVE HistoryTypes'
  BY <1>8 DEF Release, Decide
<1>9. ASSUME NEW c \in Calls, Fresh(c) PROVE HistoryTypes'
  BY <1>9 DEF Fresh
<1>10. ASSUME NEW c \in Calls, Scan(c) PROVE HistoryTypes'
  BY <1>10 DEF Scan
<1>11. ASSUME NEW c \in Calls, AcquireSubmitClaim(c) PROVE HistoryTypes'
  BY <1>11 DEF AcquireSubmitClaim, FreeClaim
<1>12. ASSUME NEW c \in Calls, Click(c) PROVE HistoryTypes'
  BY <1>12 DEF Click, Get
<1>13. ASSUME NEW c \in Calls, Record(c) PROVE HistoryTypes'
  BY <1>13 DEF Record, RecordOutcome
<1>14. ASSUME NEW c \in Calls, Settle(c) PROVE HistoryTypes'
  BY <1>14 DEF Settle
<1>15. ASSUME NEW c \in Calls, Mirror(c) PROVE HistoryTypes'
  BY <1>15 DEF Mirror
<1>16. ASSUME NEW c \in Calls, CloseSession(c) PROVE HistoryTypes'
  BY <1>16 DEF CloseSession, WriteSession
<1>17. ASSUME NEW c \in Calls, Raise(c) PROVE HistoryTypes'
  <2>. DEFINE e == frame[c].exec
  <2>0. clicks' = clicks \/ clicks' = [clicks EXCEPT ![e] = clicks[e] + 1]
    BY <1>17 DEF Raise
  <2>1. clicks' \in [Executions -> Nat]
    BY ONLY <2>0, HistoryTypes DEF HistoryTypes
  <2>2. received' \in 0..2
    BY <1>17 DEF Raise, Get
  <2>3. dropped' \in [Executions -> BOOLEAN]
    BY ONLY <1>17, HistoryTypes DEF Raise, HistoryTypes, Exec
  <2>4. faults' \in 0..MaxFaults
    BY ONLY <1>17, HistoryTypes, CanaryAssumption DEF Raise, HistoryTypes
  <2>. QED BY ONLY <1>17, <2>1, <2>2, <2>3, <2>4, Types DEF Types, HistoryTypes, Raise, callVars
<1>18. ASSUME NEW c \in Calls, Crash(c) PROVE HistoryTypes'
  BY <1>18 DEF Crash
<1>19. ASSUME NEW s \in Sessions, LeaseLapses(s) PROVE HistoryTypes'
  BY <1>19 DEF LeaseLapses
<1>20. ASSUME NEW e \in Executions, Approve(e) PROVE HistoryTypes'
  BY <1>20 DEF Approve
<1>21. ASSUME NEW e \in Executions, Reconcile(e) PROVE HistoryTypes'
  BY <1>21 DEF Reconcile
<1>. QED
  BY ONLY Next, <1>1, <1>2, <1>3, <1>4, <1>5, <1>6, <1>7, <1>8, <1>9, <1>10, <1>11,
     <1>12, <1>13, <1>14, <1>15, <1>16, <1>17, <1>18, <1>19, <1>20, <1>21 DEF Next, Step

\* A call knows what its step is about.
LEMMA NextKeepsSense ==
  ASSUME Types, CallsMakeSense, Next
  PROVE  CallsMakeSense'
<1>. USE CanaryAssumption DEF Types, CallTypes, CallsMakeSense, Steps, Opening, Engine,
     Goto, Return, FinishWith, Frames, NoFrame, Exec, Sess, ActiveExecutions,
     ActiveSessions, execVars, claimVars, sessVars, callVars, history, bounds
<1>1. ASSUME NEW c \in Calls, Begin(c) PROVE CallsMakeSense'
  BY <1>1 DEF Begin
<1>2. ASSUME NEW c \in Calls, ReadClaim(c) PROVE CallsMakeSense'
  BY <1>2 DEF ReadClaim
<1>3. ASSUME NEW c \in Calls, Check(c) PROVE CallsMakeSense'
  BY <1>3 DEF Check
<1>4. ASSUME NEW c \in Calls, Start(c) PROVE CallsMakeSense'
  BY <1>4 DEF Start
<1>5. ASSUME NEW c \in Calls, Take(c) PROVE CallsMakeSense'
  BY <1>5 DEF Take
<1>6. ASSUME NEW c \in Calls, Claim(c) PROVE CallsMakeSense'
  BY <1>6 DEF Claim, Decide
<1>7. ASSUME NEW c \in Calls, Drive(c) PROVE CallsMakeSense'
  BY <1>7 DEF Drive, WriteSession
<1>8. ASSUME NEW c \in Calls, Release(c) PROVE CallsMakeSense'
  BY <1>8 DEF Release, Decide
<1>9. ASSUME NEW c \in Calls, Fresh(c) PROVE CallsMakeSense'
  BY <1>9 DEF Fresh
<1>10. ASSUME NEW c \in Calls, Scan(c) PROVE CallsMakeSense'
  BY <1>10 DEF Scan
<1>11. ASSUME NEW c \in Calls, AcquireSubmitClaim(c) PROVE CallsMakeSense'
  BY <1>11 DEF AcquireSubmitClaim, FreeClaim
<1>12. ASSUME NEW c \in Calls, Click(c) PROVE CallsMakeSense'
  BY <1>12 DEF Click, Get
<1>13. ASSUME NEW c \in Calls, Record(c) PROVE CallsMakeSense'
  BY <1>13 DEF Record, RecordOutcome
<1>14. ASSUME NEW c \in Calls, Settle(c) PROVE CallsMakeSense'
  BY <1>14 DEF Settle
<1>15. ASSUME NEW c \in Calls, Mirror(c) PROVE CallsMakeSense'
  BY <1>15 DEF Mirror
<1>16. ASSUME NEW c \in Calls, CloseSession(c) PROVE CallsMakeSense'
  BY <1>16 DEF CloseSession, WriteSession
<1>17. ASSUME NEW c \in Calls, Raise(c) PROVE CallsMakeSense'
  BY <1>17 DEF Raise, Get
<1>18. ASSUME NEW c \in Calls, Crash(c) PROVE CallsMakeSense'
  BY <1>18 DEF Crash
<1>19. ASSUME NEW s \in Sessions, LeaseLapses(s) PROVE CallsMakeSense'
  BY <1>19 DEF LeaseLapses
<1>20. ASSUME NEW e \in Executions, Approve(e) PROVE CallsMakeSense'
  BY <1>20 DEF Approve
<1>21. ASSUME NEW e \in Executions, Reconcile(e) PROVE CallsMakeSense'
  BY <1>21 DEF Reconcile
<1>. QED
  BY ONLY Next, <1>1, <1>2, <1>3, <1>4, <1>5, <1>6, <1>7, <1>8, <1>9, <1>10, <1>11,
     <1>12, <1>13, <1>14, <1>15, <1>16, <1>17, <1>18, <1>19, <1>20, <1>21 DEF Next, Step

\* At most one call presses, and once.
LEMMA NextKeepsClaims ==
  ASSUME Types, CallsMakeSense, ClaimsHold, Next
  PROVE  ClaimsHold'
<1>. USE CanaryAssumption DEF Types, CallTypes, NonePresses, Goto, Return, FinishWith,
     NoFrame, Frames, execVars, claimVars, sessVars, callVars, history, bounds
<1>1. ASSUME NEW c \in Calls, Begin(c) PROVE ClaimsHold'
  <2>1. NonePresses
    BY <1>1 DEF Begin
  <2>2. attempted' = attempted /\ clicks' = clicks
    BY <1>1 DEF Begin
  <2>. QED BY ONLY <2>1, <2>2, ClaimsHold DEF ClaimsHold, OneClick, NonePresses, Exec
<1>2. ASSUME NEW c \in Calls, ReadClaim(c) PROVE ClaimsHold'
  <2>1. NonePresses
    BY <1>2 DEF ReadClaim
  <2>2. attempted' = attempted /\ clicks' = clicks
    BY <1>2 DEF ReadClaim
  <2>. QED BY ONLY <2>1, <2>2, ClaimsHold DEF ClaimsHold, OneClick, NonePresses, Exec
<1>3. ASSUME NEW c \in Calls, Check(c) PROVE ClaimsHold'
  <2>1. NonePresses
    BY <1>3 DEF Check
  <2>2. attempted' = attempted /\ clicks' = clicks
    BY <1>3 DEF Check
  <2>. QED BY ONLY <2>1, <2>2, ClaimsHold DEF ClaimsHold, OneClick, NonePresses, Exec
<1>4. ASSUME NEW c \in Calls, Start(c) PROVE ClaimsHold'
  <2>1. NonePresses
    BY <1>4 DEF Start
  <2>2. attempted' = attempted /\ clicks' = clicks
    BY <1>4 DEF Start
  <2>. QED BY ONLY <2>1, <2>2, ClaimsHold DEF ClaimsHold, OneClick, NonePresses, Exec
<1>5. ASSUME NEW c \in Calls, Take(c) PROVE ClaimsHold'
  <2>1. NonePresses
    BY <1>5 DEF Take
  <2>2. attempted' = attempted /\ clicks' = clicks
    BY <1>5 DEF Take
  <2>. QED BY ONLY <2>1, <2>2, ClaimsHold DEF ClaimsHold, OneClick, NonePresses, Exec
<1>6. ASSUME NEW c \in Calls, Claim(c) PROVE ClaimsHold'
  <2>1. NonePresses
    BY <1>6 DEF Claim, Decide
  <2>2. attempted' = attempted /\ clicks' = clicks
    BY <1>6 DEF Claim, Decide
  <2>. QED BY ONLY <2>1, <2>2, ClaimsHold DEF ClaimsHold, OneClick, NonePresses, Exec
<1>7. ASSUME NEW c \in Calls, Drive(c) PROVE ClaimsHold'
  <2>1. NonePresses
    BY <1>7 DEF Drive, WriteSession
  <2>2. attempted' = attempted /\ clicks' = clicks
    BY <1>7 DEF Drive, WriteSession
  <2>. QED BY ONLY <2>1, <2>2, ClaimsHold DEF ClaimsHold, OneClick, NonePresses, Exec
<1>8. ASSUME NEW c \in Calls, Release(c) PROVE ClaimsHold'
  <2>1. NonePresses
    BY <1>8 DEF Release, Decide
  <2>2. attempted' = attempted /\ clicks' = clicks
    BY <1>8 DEF Release, Decide
  <2>. QED BY ONLY <2>1, <2>2, ClaimsHold DEF ClaimsHold, OneClick, NonePresses, Exec
<1>9. ASSUME NEW c \in Calls, Fresh(c) PROVE ClaimsHold'
  <2>1. NonePresses
    BY <1>9 DEF Fresh
  <2>2. attempted' = attempted /\ clicks' = clicks
    BY <1>9 DEF Fresh
  <2>. QED BY ONLY <2>1, <2>2, ClaimsHold DEF ClaimsHold, OneClick, NonePresses, Exec
<1>10. ASSUME NEW c \in Calls, Scan(c) PROVE ClaimsHold'
  <2>1. NonePresses
    BY <1>10 DEF Scan
  <2>2. attempted' = attempted /\ clicks' = clicks
    BY <1>10 DEF Scan
  <2>. QED BY ONLY <2>1, <2>2, ClaimsHold DEF ClaimsHold, OneClick, NonePresses, Exec
<1>11. ASSUME NEW c \in Calls, AcquireSubmitClaim(c) PROVE ClaimsHold'
  <2>. DEFINE e == frame[c].exec
  <2>1. CASE attempted[e]
    <3>1. NonePresses
      BY <1>11, <2>1 DEF AcquireSubmitClaim, FreeClaim, Exec
    <3>2. attempted' = attempted /\ clicks' = clicks
      BY <1>11, <2>1 DEF AcquireSubmitClaim, FreeClaim, Exec
    <3>. QED BY ONLY <3>1, <3>2, ClaimsHold DEF ClaimsHold, OneClick, NonePresses, Exec
  <2>2. CASE ~attempted[e]
    <3>1. e \in Executions /\ clicks' = clicks /\ frame' = frame
      BY <1>11, <2>2 DEF AcquireSubmitClaim, CallsMakeSense, Exec
    <3>2. attempted' = [attempted EXCEPT ![e] = TRUE]
      BY <1>11, <2>2 DEF AcquireSubmitClaim, FreeClaim, Exec
    <3>3. clicks[e] = 0
      BY <2>2, <3>1 DEF ClaimsHold, OneClick, HistoryTypes
    <3>4. \A d \in Calls : pc'[d] = "click" => d = c \/ (pc[d] = "click" /\ frame[d].exec # e)
      BY <1>11, <2>2 DEF AcquireSubmitClaim, FreeClaim, ClaimsHold, Exec
    <3>5. \A f \in Executions : attempted[f] => attempted'[f]
      BY <3>2 DEF RowTypes
    <3>6. attempted'[e]
      BY <3>1, <3>2 DEF RowTypes
    <3>7. OneClick'
      BY <3>1, <3>5 DEF ClaimsHold, OneClick, HistoryTypes
    <3>8. \A d \in Calls : pc'[d] = "click" => attempted'[frame'[d].exec] /\ clicks'[frame'[d].exec] = 0
      BY <3>1, <3>2, <3>3, <3>4, <3>5, <3>6 DEF ClaimsHold, Exec, RowTypes
    <3>. QED BY <3>1, <3>4, <3>7, <3>8 DEF ClaimsHold, Exec
  <2>. QED BY <2>1, <2>2
<1>12. ASSUME NEW c \in Calls, Click(c) PROVE ClaimsHold'
  <2>. DEFINE e == frame[c].exec
  <2>1. e \in Executions /\ attempted' = attempted
    BY <1>12 DEF Click, CallsMakeSense, Exec
  <2>2. \A d \in Calls : pc'[d] = "click" => d # c /\ pc[d] = "click" /\ frame'[d].exec = frame[d].exec
    BY <1>12 DEF Click
  <2>3. CASE clicks' = clicks
    BY ONLY <2>1, <2>2, <2>3, ClaimsHold DEF ClaimsHold, OneClick, Exec
  <2>4. CASE clicks' # clicks
    <3>1. pc[c] = "click" /\ clicks' = [clicks EXCEPT ![e] = clicks[e] + 1]
      BY <1>12, <2>4 DEF Click, Exec
    <3>2. attempted[e] /\ clicks[e] = 0
      BY <3>1 DEF ClaimsHold, Exec
    <3>3. \A d \in Calls : pc'[d] = "click" => frame'[d].exec # e
      BY <2>2, <3>1 DEF ClaimsHold, Exec
    <3>4. \A f \in Executions : clicks'[f] = IF f = e THEN 1 ELSE clicks[f]
      BY <3>1, <3>2 DEF HistoryTypes
    <3>5. OneClick'
      BY <2>1, <3>2, <3>4 DEF ClaimsHold, OneClick, HistoryTypes
    <3>6. \A d \in Calls : pc[d] = "click" => frame[d].exec \in Executions
      BY DEF CallsMakeSense, Exec
    <3>. QED BY <2>1, <2>2, <3>3, <3>4, <3>5, <3>6 DEF ClaimsHold, Exec
  <2>. QED BY <2>3, <2>4
<1>13. ASSUME NEW c \in Calls, Record(c) PROVE ClaimsHold'
  <2>1. NonePresses
    BY <1>13 DEF Record, RecordOutcome
  <2>2. attempted' = attempted /\ clicks' = clicks
    BY <1>13 DEF Record, RecordOutcome
  <2>. QED BY ONLY <2>1, <2>2, ClaimsHold DEF ClaimsHold, OneClick, NonePresses, Exec
<1>14. ASSUME NEW c \in Calls, Settle(c) PROVE ClaimsHold'
  <2>1. NonePresses
    BY <1>14 DEF Settle
  <2>2. attempted' = attempted /\ clicks' = clicks
    BY <1>14 DEF Settle
  <2>. QED BY ONLY <2>1, <2>2, ClaimsHold DEF ClaimsHold, OneClick, NonePresses, Exec
<1>15. ASSUME NEW c \in Calls, Mirror(c) PROVE ClaimsHold'
  <2>1. NonePresses
    BY <1>15 DEF Mirror
  <2>2. attempted' = attempted /\ clicks' = clicks
    BY <1>15 DEF Mirror
  <2>. QED BY ONLY <2>1, <2>2, ClaimsHold DEF ClaimsHold, OneClick, NonePresses, Exec
<1>16. ASSUME NEW c \in Calls, CloseSession(c) PROVE ClaimsHold'
  <2>1. NonePresses
    BY <1>16 DEF CloseSession, WriteSession
  <2>2. attempted' = attempted /\ clicks' = clicks
    BY <1>16 DEF CloseSession, WriteSession
  <2>. QED BY ONLY <2>1, <2>2, ClaimsHold DEF ClaimsHold, OneClick, NonePresses, Exec
<1>17. ASSUME NEW c \in Calls, Raise(c) PROVE ClaimsHold'
  <2>. DEFINE e == frame[c].exec
  <2>1. e \in Executions /\ attempted' = attempted
    BY <1>17 DEF Raise, CallsMakeSense, Exec
  <2>2. \A d \in Calls : pc'[d] = "click" => d # c /\ pc[d] = "click" /\ frame'[d].exec = frame[d].exec
    BY <1>17 DEF Raise
  <2>3. CASE clicks' = clicks
    BY ONLY <2>1, <2>2, <2>3, ClaimsHold DEF ClaimsHold, OneClick, Exec
  <2>4. CASE clicks' # clicks
    <3>1. pc[c] = "click" /\ clicks' = [clicks EXCEPT ![e] = clicks[e] + 1]
      BY <1>17, <2>4 DEF Raise, Exec
    <3>2. attempted[e] /\ clicks[e] = 0
      BY <3>1 DEF ClaimsHold, Exec
    <3>3. \A d \in Calls : pc'[d] = "click" => frame'[d].exec # e
      BY <2>2, <3>1 DEF ClaimsHold, Exec
    <3>4. \A f \in Executions : clicks'[f] = IF f = e THEN 1 ELSE clicks[f]
      BY <3>1, <3>2 DEF HistoryTypes
    <3>5. OneClick'
      BY <2>1, <3>2, <3>4 DEF ClaimsHold, OneClick, HistoryTypes
    <3>6. \A d \in Calls : pc[d] = "click" => frame[d].exec \in Executions
      BY DEF CallsMakeSense, Exec
    <3>. QED BY <2>1, <2>2, <3>3, <3>4, <3>5, <3>6 DEF ClaimsHold, Exec
  <2>. QED BY <2>3, <2>4
<1>18. ASSUME NEW c \in Calls, Crash(c) PROVE ClaimsHold'
  <2>1. NonePresses
    BY <1>18 DEF Crash
  <2>2. attempted' = attempted /\ clicks' = clicks
    BY <1>18 DEF Crash
  <2>. QED BY ONLY <2>1, <2>2, ClaimsHold DEF ClaimsHold, OneClick, NonePresses, Exec
<1>19. ASSUME NEW s \in Sessions, LeaseLapses(s) PROVE ClaimsHold'
  <2>1. NonePresses
    BY <1>19 DEF LeaseLapses
  <2>2. attempted' = attempted /\ clicks' = clicks
    BY <1>19 DEF LeaseLapses
  <2>. QED BY ONLY <2>1, <2>2, ClaimsHold DEF ClaimsHold, OneClick, NonePresses, Exec
<1>20. ASSUME NEW e \in Executions, Approve(e) PROVE ClaimsHold'
  <2>1. NonePresses
    BY <1>20 DEF Approve
  <2>2. attempted' = attempted /\ clicks' = clicks
    BY <1>20 DEF Approve
  <2>. QED BY ONLY <2>1, <2>2, ClaimsHold DEF ClaimsHold, OneClick, NonePresses, Exec
<1>21. ASSUME NEW e \in Executions, Reconcile(e) PROVE ClaimsHold'
  <2>1. NonePresses
    BY <1>21 DEF Reconcile
  <2>2. attempted' = attempted /\ clicks' = clicks
    BY <1>21 DEF Reconcile
  <2>. QED BY ONLY <2>1, <2>2, ClaimsHold DEF ClaimsHold, OneClick, NonePresses, Exec
<1>. QED
  BY ONLY Next, <1>1, <1>2, <1>3, <1>4, <1>5, <1>6, <1>7, <1>8, <1>9, <1>10, <1>11,
     <1>12, <1>13, <1>14, <1>15, <1>16, <1>17, <1>18, <1>19, <1>20, <1>21 DEF Next, Step

\* At most one execution of the job is active.
LEMMA NextKeepsOneActive ==
  ASSUME Types, OneActive, Next
  PROVE  OneActive'
<1>. USE CanaryAssumption DEF Types, RowTypes, OneActive, ActiveExecutions, execVars,
     claimVars, sessVars, callVars, history, bounds
<1>1. ASSUME NEW c \in Calls, Begin(c) PROVE OneActive'
  BY <1>1 DEF Begin
<1>2. ASSUME NEW c \in Calls, ReadClaim(c) PROVE OneActive'
  BY <1>2 DEF ReadClaim
<1>3. ASSUME NEW c \in Calls, Check(c) PROVE OneActive'
  BY <1>3 DEF Check
<1>4. ASSUME NEW c \in Calls, Start(c) PROVE OneActive'
  BY <1>4 DEF Start
<1>5. ASSUME NEW c \in Calls, Take(c) PROVE OneActive'
  BY <1>5 DEF Take
<1>6. ASSUME NEW c \in Calls, Claim(c) PROVE OneActive'
  BY <1>6 DEF Claim, Decide
<1>7. ASSUME NEW c \in Calls, Drive(c) PROVE OneActive'
  BY <1>7 DEF Drive, WriteSession
<1>8. ASSUME NEW c \in Calls, Release(c) PROVE OneActive'
  BY <1>8 DEF Release, Decide
<1>9. ASSUME NEW c \in Calls, Fresh(c) PROVE OneActive'
  BY <1>9 DEF Fresh
<1>10. ASSUME NEW c \in Calls, Scan(c) PROVE OneActive'
  BY <1>10 DEF Scan
<1>11. ASSUME NEW c \in Calls, AcquireSubmitClaim(c) PROVE OneActive'
  BY <1>11 DEF AcquireSubmitClaim, FreeClaim
<1>12. ASSUME NEW c \in Calls, Click(c) PROVE OneActive'
  BY <1>12 DEF Click, Get
<1>13. ASSUME NEW c \in Calls, Record(c) PROVE OneActive'
  BY <1>13 DEF Record, RecordOutcome
<1>14. ASSUME NEW c \in Calls, Settle(c) PROVE OneActive'
  BY <1>14 DEF Settle
<1>15. ASSUME NEW c \in Calls, Mirror(c) PROVE OneActive'
  BY <1>15 DEF Mirror
<1>16. ASSUME NEW c \in Calls, CloseSession(c) PROVE OneActive'
  BY <1>16 DEF CloseSession, WriteSession
<1>17. ASSUME NEW c \in Calls, Raise(c) PROVE OneActive'
  BY <1>17 DEF Raise, Get
<1>18. ASSUME NEW c \in Calls, Crash(c) PROVE OneActive'
  BY <1>18 DEF Crash
<1>19. ASSUME NEW s \in Sessions, LeaseLapses(s) PROVE OneActive'
  BY <1>19 DEF LeaseLapses
<1>20. ASSUME NEW e \in Executions, Approve(e) PROVE OneActive'
  BY <1>20 DEF Approve
<1>21. ASSUME NEW e \in Executions, Reconcile(e) PROVE OneActive'
  BY <1>21 DEF Reconcile
<1>. QED
  BY ONLY Next, <1>1, <1>2, <1>3, <1>4, <1>5, <1>6, <1>7, <1>8, <1>9, <1>10, <1>11,
     <1>12, <1>13, <1>14, <1>15, <1>16, <1>17, <1>18, <1>19, <1>20, <1>21 DEF Next, Step

\* Calls one at a time keep their execution active until they settle it.
LEMMA NextKeepsAlone ==
  ASSUME Types, CallsMakeSense, OneActive, ~excused => Alone, Next
  PROVE  ~excused' => Alone'
<1>. USE CanaryAssumption DEF Types, CallTypes, RowTypes, HistoryTypes, CallsMakeSense,
     Alone, Unsettled, UnknownStaysActive, Running, Steps, Opening, Engine, Goto,
     Return, FinishWith, Frames, NoFrame, Exec, Sess, ActiveExecutions, execVars,
     claimVars, sessVars, callVars, history, bounds
<1>1. ASSUME NEW c \in Calls, Begin(c) PROVE ~excused' => Alone'
  BY <1>1 DEF Begin
<1>2. ASSUME NEW c \in Calls, ReadClaim(c) PROVE ~excused' => Alone'
  BY <1>2 DEF ReadClaim
<1>3. ASSUME NEW c \in Calls, Check(c) PROVE ~excused' => Alone'
  <2>1. \A d \in Calls : pc'[d] # "idle" => pc[d] # "idle"
    BY <1>3 DEF Check
  <2>2. \A d \in Calls : pc'[d] \in Unsettled => pc[d] \in Unsettled /\ frame'[d].exec = frame[d].exec
    BY <1>3 DEF Check
  <2>3. active' = active /\ status' = status /\ excused' = excused
    BY <1>3 DEF Check
  <2>. QED BY ONLY <2>1, <2>2, <2>3, ~excused => Alone DEF Alone, UnknownStaysActive, Exec
<1>4. ASSUME NEW c \in Calls, Start(c) PROVE ~excused' => Alone'
  <2>1. \A d \in Calls : pc'[d] # "idle" => pc[d] # "idle"
    BY <1>4 DEF Start
  <2>2. \A d \in Calls : pc'[d] \in Unsettled => pc[d] \in Unsettled /\ frame'[d].exec = frame[d].exec
    BY <1>4 DEF Start
  <2>3. active' = active /\ status' = status /\ excused' = excused
    BY <1>4 DEF Start
  <2>. QED BY ONLY <2>1, <2>2, <2>3, ~excused => Alone DEF Alone, UnknownStaysActive, Exec
<1>5. ASSUME NEW c \in Calls, Take(c) PROVE ~excused' => Alone'
  <2>1. \A d \in Calls : pc'[d] # "idle" => pc[d] # "idle"
    BY <1>5 DEF Take
  <2>2. \A d \in Calls : pc'[d] \in Unsettled => pc[d] \in Unsettled /\ frame'[d].exec = frame[d].exec
    BY <1>5 DEF Take
  <2>3. active' = active /\ status' = status /\ excused' = excused
    BY <1>5 DEF Take
  <2>. QED BY ONLY <2>1, <2>2, <2>3, ~excused => Alone DEF Alone, UnknownStaysActive, Exec
<1>6. ASSUME NEW c \in Calls, Claim(c) PROVE ~excused' => Alone'
  <2>1. \A d \in Calls : pc'[d] # "idle" => pc[d] # "idle"
    BY <1>6 DEF Claim, Decide
  <2>2. \A d \in Calls : pc'[d] \in Unsettled => pc[d] \in Unsettled /\ frame'[d].exec = frame[d].exec
    BY <1>6 DEF Claim, Decide
  <2>3. active' = active /\ status' = status /\ excused' = excused
    BY <1>6 DEF Claim, Decide
  <2>. QED BY ONLY <2>1, <2>2, <2>3, ~excused => Alone DEF Alone, UnknownStaysActive, Exec
<1>7. ASSUME NEW c \in Calls, Drive(c) PROVE ~excused' => Alone'
  <2>1. \A d \in Calls : pc'[d] # "idle" => pc[d] # "idle"
    BY <1>7 DEF Drive
  <2>2. \A d \in Calls : pc'[d] \in Unsettled => pc[d] \in Unsettled /\ frame'[d].exec = frame[d].exec
    BY <1>7 DEF Drive
  <2>3. active' = active /\ status' = status /\ excused' = excused
    BY <1>7 DEF Drive
  <2>. QED BY ONLY <2>1, <2>2, <2>3, ~excused => Alone DEF Alone, UnknownStaysActive, Exec
<1>8. ASSUME NEW c \in Calls, Release(c) PROVE ~excused' => Alone'
  <2>1. \A d \in Calls : pc'[d] # "idle" => pc[d] # "idle"
    BY <1>8 DEF Release, Decide
  <2>2. \A d \in Calls : pc'[d] \in Unsettled => pc[d] \in Unsettled /\ frame'[d].exec = frame[d].exec
    BY <1>8 DEF Release, Decide
  <2>3. active' = active /\ status' = status /\ excused' = excused
    BY <1>8 DEF Release, Decide
  <2>. QED BY ONLY <2>1, <2>2, <2>3, ~excused => Alone DEF Alone, UnknownStaysActive, Exec
<1>9. ASSUME NEW c \in Calls, Fresh(c) PROVE ~excused' => Alone'
  <2>1. \A d \in Calls : pc'[d] # "idle" => pc[d] # "idle"
    BY <1>9 DEF Fresh
  <2>2. \A d \in Calls : pc'[d] \in Unsettled => pc[d] \in Unsettled /\ frame'[d].exec = frame[d].exec
    BY <1>9 DEF Fresh
  <2>3. active' = active /\ status' = status /\ excused' = excused
    BY <1>9 DEF Fresh
  <2>. QED BY ONLY <2>1, <2>2, <2>3, ~excused => Alone DEF Alone, UnknownStaysActive, Exec
<1>10. ASSUME NEW c \in Calls, Scan(c) PROVE ~excused' => Alone'
  <2>1. \A d \in Calls : pc'[d] # "idle" => pc[d] # "idle"
    BY <1>10 DEF Scan
  <2>2. \A d \in Calls : pc'[d] \in Unsettled => pc[d] \in Unsettled /\ frame'[d].exec = frame[d].exec
    BY <1>10 DEF Scan
  <2>3. active' = active /\ status' = status /\ excused' = excused
    BY <1>10 DEF Scan
  <2>. QED BY ONLY <2>1, <2>2, <2>3, ~excused => Alone DEF Alone, UnknownStaysActive, Exec
<1>11. ASSUME NEW c \in Calls, AcquireSubmitClaim(c) PROVE ~excused' => Alone'
  <2>1. \A d \in Calls : pc'[d] # "idle" => pc[d] # "idle"
    BY <1>11 DEF AcquireSubmitClaim
  <2>2. \A d \in Calls : pc'[d] \in Unsettled => pc[d] \in Unsettled /\ frame'[d].exec = frame[d].exec
    BY <1>11 DEF AcquireSubmitClaim
  <2>3. active' = active /\ status' = status /\ excused' = excused
    BY <1>11 DEF AcquireSubmitClaim
  <2>. QED BY ONLY <2>1, <2>2, <2>3, ~excused => Alone DEF Alone, UnknownStaysActive, Exec
<1>12. ASSUME NEW c \in Calls, Click(c) PROVE ~excused' => Alone'
  <2>1. \A d \in Calls : pc'[d] # "idle" => pc[d] # "idle"
    BY <1>12 DEF Click
  <2>2. \A d \in Calls : pc'[d] \in Unsettled => pc[d] \in Unsettled /\ frame'[d].exec = frame[d].exec
    BY <1>12 DEF Click
  <2>3. active' = active /\ status' = status /\ excused' = excused
    BY <1>12 DEF Click
  <2>. QED BY ONLY <2>1, <2>2, <2>3, ~excused => Alone DEF Alone, UnknownStaysActive, Exec
<1>13. ASSUME NEW c \in Calls, Record(c) PROVE ~excused' => Alone'
  BY <1>13 DEF Record, RecordOutcome
<1>14. ASSUME NEW c \in Calls, Settle(c) PROVE ~excused' => Alone'
  <2>. DEFINE e == frame[c].exec
              st == StatusOf(frame[c].result)
  <2>. SUFFICES ASSUME ~excused PROVE Alone'
    BY <1>14 DEF Settle
  <2>1. e \in Executions /\ active[e]
    BY <1>14 DEF Settle
  <2>2. /\ status' = [status EXCEPT ![e] = st]
        /\ active' = [active EXCEPT ![e] = active[e] /\ st \notin TerminalStatuses]
        /\ pc' = [pc EXCEPT ![c] = "mirror"] /\ frame' = frame /\ pc[c] = "settle"
    BY <1>14 DEF Settle
  <2>3. \A f \in Executions : active'[f] = (active[f] /\ (f = e => st \notin TerminalStatuses))
    BY <2>2
  <2>4. \A f \in Executions : status'[f] = IF f = e THEN st ELSE status[f]
    BY <2>2
  <2>5. UnknownStaysActive'
    BY ONLY <2>1, <2>3, <2>4, StatusFacts, Alone DEF Alone, UnknownStaysActive
  <2>6. \A d \in Calls : d # c => pc'[d] = "idle"
    BY <2>2
  <2>7. pc'[c] = "mirror"
    BY <2>2
  <2>. QED BY ONLY <2>5, <2>6, <2>7 DEF Alone, Unsettled, Steps, Opening, Engine
<1>15. ASSUME NEW c \in Calls, Mirror(c) PROVE ~excused' => Alone'
  BY <1>15 DEF Mirror
<1>16. ASSUME NEW c \in Calls, CloseSession(c) PROVE ~excused' => Alone'
  BY <1>16 DEF CloseSession, WriteSession
<1>17. ASSUME NEW c \in Calls, Raise(c) PROVE ~excused' => Alone'
  BY <1>17 DEF Raise, Get
<1>18. ASSUME NEW c \in Calls, Crash(c) PROVE ~excused' => Alone'
  BY <1>18 DEF Crash
<1>19. ASSUME NEW s \in Sessions, LeaseLapses(s) PROVE ~excused' => Alone'
  BY <1>19 DEF LeaseLapses
<1>20. ASSUME NEW e \in Executions, Approve(e) PROVE ~excused' => Alone'
  BY <1>20 DEF Approve
<1>21. ASSUME NEW e \in Executions, Reconcile(e) PROVE ~excused' => Alone'
  BY <1>21 DEF Reconcile
<1>. QED
  BY ONLY Next, <1>1, <1>2, <1>3, <1>4, <1>5, <1>6, <1>7, <1>8, <1>9, <1>10, <1>11,
     <1>12, <1>13, <1>14, <1>15, <1>16, <1>17, <1>18, <1>19, <1>20, <1>21 DEF Next, Step

\* Calls one at a time: what the posting got leaves a mark that stops the next one.
LEMMA NextKeepsApplied ==
  ASSUME Types, CallsMakeSense, OneActive, ClaimsHold, ~excused => (Alone /\ Applied), Next
  PROVE  ~excused' => Applied'
<1>. USE CanaryAssumption DEF Types, CallTypes, RowTypes, HistoryTypes, CallsMakeSense,
     OneActive, Alone, Applied, Marked, Harmless, Pressing, Unsettled, Running, Steps,
     Opening, Engine, Goto, Return, FinishWith, Frames, NoFrame, Exec, Sess,
     ActiveExecutions, execVars, claimVars, sessVars, callVars, history, bounds
<1>1. ASSUME NEW c \in Calls, Begin(c) PROVE ~excused' => Applied'
  BY <1>1 DEF Begin
<1>2. ASSUME NEW c \in Calls, ReadClaim(c) PROVE ~excused' => Applied'
  <2>. SUFFICES ASSUME ~excused' PROVE Applied'
    OBVIOUS
  <2>1. Alone /\ Applied /\ pc[c] # "idle"
    BY <1>2 DEF ReadClaim
  <2>2. \A d \in Calls : d # c => pc'[d] = "idle" /\ pc[d] = "idle"
    BY <1>2, <2>1 DEF ReadClaim, Decide
  <2>3. received' = received /\ attempted' = attempted /\ active' = active /\ jobState' = jobState
    BY <1>2 DEF ReadClaim
  <2>4. pc[c] = "contract" /\ pc'[c] \in {"check", "idle"}
    BY <1>2 DEF ReadClaim
  <2>5. (\E f \in Executions : active[f] /\ attempted[f]) => pc'[c] = "idle"
    BY <1>2 DEF ReadClaim
  <2>6. received = 1 => jobState = "APPLIED" \/ \E f \in Executions : active[f] /\ attempted[f]
    BY ONLY <2>1, <2>2, <2>4 DEF Applied, Marked
  <2>8. received' \in {0, 1} /\ (received' = 1 => Marked' /\ Harmless(c)')
    BY ONLY <2>1, <2>3, <2>4, <2>5, <2>6 DEF Applied, Marked, Harmless, Pressing
  <2>9. pc'[c] \notin {"settle", "mirror"}
    BY <2>4
  <2>. QED BY ONLY <2>2, <2>8, <2>9, SingleApplied
<1>3. ASSUME NEW c \in Calls, Check(c) PROVE ~excused' => Applied'
  BY <1>3 DEF Check
<1>4. ASSUME NEW c \in Calls, Start(c) PROVE ~excused' => Applied'
  <2>. SUFFICES ASSUME ~excused' PROVE Applied'
    OBVIOUS
  <2>1. Alone /\ Applied /\ pc[c] # "idle"
    BY <1>4 DEF Start
  <2>2. \A d \in Calls : d # c => pc'[d] = "idle" /\ pc[d] = "idle"
    BY <1>4, <2>1 DEF Start, Decide
  <2>3. received' = received /\ attempted' = attempted /\ active' = active /\ jobState' = jobState
    BY <1>4 DEF Start
  <2>4. pc[c] = "start" /\ pc'[c] \in {"take", "idle"}
    BY <1>4 DEF Start
  <2>5. received = 1 => jobState = "APPLIED"
    BY <2>1, <2>4 DEF Applied, Harmless
  <2>6. jobState = "APPLIED" => pc'[c] = "idle"
    BY <1>4, StatusFacts DEF Start
  <2>8. received' \in {0, 1} /\ (received' = 1 => Marked' /\ Harmless(c)')
    BY ONLY <2>1, <2>3, <2>4, <2>5, <2>6 DEF Applied, Marked, Harmless, Pressing
  <2>9. pc'[c] \notin {"settle", "mirror"}
    BY <2>4
  <2>. QED BY ONLY <2>2, <2>8, <2>9, SingleApplied
<1>5. ASSUME NEW c \in Calls, Take(c) PROVE ~excused' => Applied'
  BY <1>5 DEF Take
<1>6. ASSUME NEW c \in Calls, Claim(c) PROVE ~excused' => Applied'
  <2>. SUFFICES ASSUME ~excused' PROVE Applied'
    OBVIOUS
  <2>1. Alone /\ Applied /\ pc[c] # "idle"
    BY <1>6 DEF Claim
  <2>2. \A d \in Calls : d # c => pc'[d] = "idle" /\ pc[d] = "idle"
    BY <1>6, <2>1 DEF Claim, Decide
  <2>3. received = 0 /\ received' = 0
    BY <1>6, <2>1 DEF Claim
  <2>4. pc'[c] \in {"drive", "fresh", "record"}
    BY <1>6 DEF Claim, Decide
  <2>8. received' \in {0, 1} /\ (received' = 1 => Marked' /\ Harmless(c)')
    BY <2>3
  <2>9. pc'[c] \notin {"settle", "mirror"}
    BY <2>4
  <2>. QED BY ONLY <2>2, <2>8, <2>9, SingleApplied
<1>7. ASSUME NEW c \in Calls, Drive(c) PROVE ~excused' => Applied'
  BY <1>7 DEF Drive, WriteSession
<1>8. ASSUME NEW c \in Calls, Release(c) PROVE ~excused' => Applied'
  BY <1>8 DEF Release, Decide
<1>9. ASSUME NEW c \in Calls, Fresh(c) PROVE ~excused' => Applied'
  BY <1>9 DEF Fresh
<1>10. ASSUME NEW c \in Calls, Scan(c) PROVE ~excused' => Applied'
  BY <1>10 DEF Scan
<1>11. ASSUME NEW c \in Calls, AcquireSubmitClaim(c) PROVE ~excused' => Applied'
  BY <1>11 DEF AcquireSubmitClaim, FreeClaim
<1>12. ASSUME NEW c \in Calls, Click(c) PROVE ~excused' => Applied'
  <2>. SUFFICES ASSUME ~excused' PROVE Applied'
    OBVIOUS
  <2>1. Alone /\ Applied /\ pc[c] # "idle"
    BY <1>12 DEF Click
  <2>2. \A d \in Calls : d # c => pc'[d] = "idle" /\ pc[d] = "idle"
    BY <1>12, <2>1 DEF Click, Decide
  <2>3. received = 0 /\ received' \in {0, 1}
    BY <1>12, <2>1 DEF Click, Get
  <2>4. /\ attempted' = attempted /\ active' = active
        /\ pc[c] = "click" /\ pc'[c] = "record" /\ frame'[c].exec = frame[c].exec
    BY <1>12 DEF Click
  <2>5. frame[c].exec \in Executions /\ active[frame[c].exec] /\ attempted[frame[c].exec]
    BY <2>1, <2>4 DEF ClaimsHold
  <2>6. received' = 1 => frame'[c].result \in {"BLOCKED", "CONFIRMED", "SUBMISSION_STATUS_UNKNOWN"}
    BY <1>12, <2>3 DEF Click, Get, Judgements
  <2>8. received' \in {0, 1} /\ (received' = 1 => Marked' /\ Harmless(c)')
    BY ONLY <2>3, <2>4, <2>5, <2>6 DEF Marked, Harmless, Pressing, Exec
  <2>9. pc'[c] \notin {"settle", "mirror"}
    BY <2>4
  <2>. QED BY ONLY <2>2, <2>8, <2>9, SingleApplied
<1>13. ASSUME NEW c \in Calls, Record(c) PROVE ~excused' => Applied'
  BY <1>13 DEF Record, RecordOutcome
<1>14. ASSUME NEW c \in Calls, Settle(c) PROVE ~excused' => Applied'
  <2>. SUFFICES ASSUME ~excused' PROVE Applied'
    OBVIOUS
  <2>1. Alone /\ Applied /\ pc[c] # "idle"
    BY <1>14 DEF Settle
  <2>2. \A d \in Calls : d # c => pc'[d] = "idle" /\ pc[d] = "idle"
    BY <1>14, <2>1 DEF Settle, Decide
  <2>. DEFINE e == frame[c].exec
              r == frame[c].result
  <2>3. /\ received' = received /\ attempted' = attempted /\ jobState' = jobState
        /\ pc[c] = "settle" /\ pc'[c] = "mirror" /\ frame' = frame /\ r # "BLOCKED" /\ e \in Executions
    BY <1>14, <2>1 DEF Settle
  <2>4. r = "SUBMISSION_STATUS_UNKNOWN" => active' = active
    BY <1>14, <2>3, StatusFacts DEF Settle
  <2>5. received = 1 => r = "CONFIRMED" \/ (r = "SUBMISSION_STATUS_UNKNOWN" /\ active[e] /\ attempted[e])
    BY ONLY <2>1, <2>3 DEF Applied, Harmless, Exec
  <2>8. received' \in {0, 1} /\ (received' = 1 => Marked' /\ Harmless(c)')
    BY ONLY <2>1, <2>3, <2>4, <2>5 DEF Applied, Marked, Harmless, Pressing, Exec
  <2>9. frame'[c].result # "BLOCKED"
    BY <2>3
  <2>. QED BY ONLY <2>2, <2>8, <2>9, SingleApplied
<1>15. ASSUME NEW c \in Calls, Mirror(c) PROVE ~excused' => Applied'
  <2>. SUFFICES ASSUME ~excused' PROVE Applied'
    OBVIOUS
  <2>1. Alone /\ Applied /\ pc[c] # "idle"
    BY <1>15 DEF Mirror
  <2>2. \A d \in Calls : d # c => pc'[d] = "idle" /\ pc[d] = "idle"
    BY <1>15, <2>1 DEF Mirror, Decide
  <2>. DEFINE e == frame[c].exec
              r == frame[c].result
  <2>3. /\ received' = received /\ attempted' = attempted /\ active' = active /\ jobState' = MirrorOf(StatusOf(r))
        /\ pc[c] = "mirror" /\ pc'[c] = "close" /\ r # "BLOCKED" /\ e \in Executions
    BY <1>15, <2>1 DEF Mirror
  <2>4. r = "CONFIRMED" => jobState' = "APPLIED"
    BY <2>3, StatusFacts
  <2>5. received = 1 => r = "CONFIRMED" \/ (active[e] /\ attempted[e])
    BY ONLY <2>1, <2>3 DEF Applied, Harmless, Exec
  <2>8. received' \in {0, 1} /\ (received' = 1 => Marked' /\ Harmless(c)')
    BY ONLY <2>1, <2>3, <2>4, <2>5 DEF Applied, Marked, Harmless, Pressing, Exec
  <2>9. pc'[c] \notin {"settle", "mirror"}
    BY <2>3
  <2>. QED BY ONLY <2>2, <2>8, <2>9, SingleApplied
<1>16. ASSUME NEW c \in Calls, CloseSession(c) PROVE ~excused' => Applied'
  BY <1>16 DEF CloseSession, WriteSession
<1>17. ASSUME NEW c \in Calls, Raise(c) PROVE ~excused' => Applied'
  <2>. SUFFICES ASSUME ~excused' PROVE Applied'
    OBVIOUS
  <2>1. Alone /\ Applied /\ pc[c] # "idle"
    BY <1>17 DEF Raise
  <2>2. \A d \in Calls : d # c => pc'[d] = "idle" /\ pc[d] = "idle"
    BY <1>17, <2>1 DEF Raise, Decide
  <2>3. CASE pc[c] = "live"
    <3>1. received = 0 /\ received' = 0 /\ pc'[c] = "close"
      BY <1>17, <2>1, <2>3 DEF Raise
    <3>. QED BY ONLY <2>2, <3>1, SingleApplied
  <2>4. CASE pc[c] = "click"
    <3>1. received = 0 /\ received' \in {0, 1}
      BY <1>17, <2>1, <2>4 DEF Raise, Get
    <3>2. attempted' = attempted /\ active' = active /\ pc'[c] = "close"
      BY <1>17 DEF Raise
    <3>3. frame[c].exec \in Executions /\ active[frame[c].exec] /\ attempted[frame[c].exec]
      BY <2>1, <2>4 DEF ClaimsHold
    <3>4. Marked' /\ Harmless(c)'
      BY ONLY <3>2, <3>3 DEF Marked, Harmless, Pressing
    <3>. QED BY ONLY <2>2, <3>1, <3>2, <3>4, SingleApplied
  <2>. QED BY <1>17, <2>3, <2>4 DEF Raise
<1>18. ASSUME NEW c \in Calls, Crash(c) PROVE ~excused' => Applied'
  <2>. SUFFICES ASSUME ~excused' PROVE Applied'
    OBVIOUS
  <2>1. Alone /\ Applied /\ pc[c] # "idle"
    BY <1>18 DEF Crash
  <2>2. \A d \in Calls : d # c => pc'[d] = "idle" /\ pc[d] = "idle"
    BY <1>18, <2>1 DEF Crash, Decide
  <2>3. received' = received /\ attempted' = attempted /\ active' = active /\ jobState' = jobState
    BY <1>18 DEF Crash
  <2>0. pc[c] # "mirror"
    BY ONLY <1>18, ~excused' DEF Crash
  <2>4. pc[c] # "mirror" /\ pc'[c] = "idle"
    BY <1>18, <2>0 DEF Crash
  <2>5. Marked => Marked'
    BY ONLY <2>2, <2>3, <2>4 DEF Marked
  <2>8. received' \in {0, 1} /\ (received' = 1 => Marked' /\ Harmless(c)')
    BY ONLY <2>1, <2>3, <2>4, <2>5 DEF Applied, Harmless, Pressing
  <2>9. pc'[c] \notin {"settle", "mirror"}
    BY <2>4
  <2>. QED BY ONLY <2>2, <2>8, <2>9, SingleApplied
<1>19. ASSUME NEW s \in Sessions, LeaseLapses(s) PROVE ~excused' => Applied'
  BY <1>19 DEF LeaseLapses
<1>20. ASSUME NEW e \in Executions, Approve(e) PROVE ~excused' => Applied'
  <2>. SUFFICES ASSUME ~excused' PROVE Applied'
    OBVIOUS
  <2>1. Alone /\ Applied
    BY <1>20 DEF Approve
  <2>2. received' = received /\ pc' = pc /\ frame' = frame
    BY <1>20 DEF Approve
  <2>3. jobState # "APPLIED" /\ \A f \in Executions : ~active[f]
    BY <1>20, StatusFacts DEF Approve
  <2>4. CASE received = 0
    BY ONLY <2>1, <2>2, <2>4 DEF Applied
  <2>5. CASE received = 1
    <3>1. PICK c \in Calls : pc[c] = "mirror" /\ frame[c].result = "CONFIRMED"
      BY ONLY <2>1, <2>3, <2>5 DEF Applied, Marked
    <3>2. \A d \in Calls : d # c => pc[d] = "idle"
      BY ONLY <2>1, <3>1 DEF Alone
    <3>. QED BY ONLY <2>1, <2>2, <3>1, <3>2 DEF Applied, Marked, Harmless, Pressing
  <2>. QED BY <2>1, <2>4, <2>5 DEF Applied
<1>21. ASSUME NEW e \in Executions, Reconcile(e) PROVE ~excused' => Applied'
  <2>. SUFFICES ASSUME ~excused' PROVE Applied'
    OBVIOUS
  <2>1. Applied /\ \A c \in Calls : pc[c] = "idle"
    BY <1>21 DEF Reconcile
  <2>2. received' = received /\ pc' = pc
    BY <1>21 DEF Reconcile
  <2>3. received = 1 => jobState' = "APPLIED"
    BY <1>21, StatusFacts DEF Reconcile
  <2>. QED BY ONLY <2>1, <2>2, <2>3 DEF Applied, Marked, Harmless, Pressing
<1>. QED
  BY ONLY Next, <1>1, <1>2, <1>3, <1>4, <1>5, <1>6, <1>7, <1>8, <1>9, <1>10, <1>11,
     <1>12, <1>13, <1>14, <1>15, <1>16, <1>17, <1>18, <1>19, <1>20, <1>21 DEF Next, Step

-----------------------------------------------------------------------------
IInv ==
  /\ Types /\ CallsMakeSense /\ ClaimsHold /\ OneActive
  /\ ~excused => Alone /\ Applied

LEMMA InitIInv == Init => IInv
<1>. SUFFICES ASSUME Init PROVE IInv
  OBVIOUS
<1>. USE CanaryAssumption DEF Init, NoFrame, NoStatus
<1>1. CallTypes
  BY DEF CallTypes, Steps, Frames
<1>2. RowTypes
  BY DEF RowTypes, JobStates, QueueableStates
<1>3. HistoryTypes
  <2>1. clicks \in [Executions -> Nat] /\ dropped \in [Executions -> BOOLEAN]
    OBVIOUS
  <2>2. received \in 0..2 /\ begun \in 0..MaxCalls /\ faults \in 0..MaxFaults
    OBVIOUS
  <2>3. excused \in BOOLEAN
    OBVIOUS
  <2>. QED BY ONLY <2>1, <2>2, <2>3 DEF HistoryTypes
<1>4. CallsMakeSense
  BY DEF CallsMakeSense, Engine
<1>5. ClaimsHold
  BY DEF ClaimsHold, OneClick
<1>6. OneActive
  BY DEF OneActive
<1>7. Alone
  BY DEF Alone, Unsettled, UnknownStaysActive
<1>8. Applied
  BY DEF Applied
<1>. QED BY <1>1, <1>2, <1>3, <1>4, <1>5, <1>6, <1>7, <1>8 DEF IInv, Types

LEMMA StutterIInv == ASSUME IInv, UNCHANGED vars PROVE IInv'
<1>. USE DEF vars, execVars, claimVars, sessVars, callVars, history, bounds
<1>1. Types'
  BY DEF IInv, Types, CallTypes, RowTypes, HistoryTypes
<1>2. CallsMakeSense' /\ ClaimsHold' /\ OneActive'
  BY DEF IInv, CallsMakeSense, ClaimsHold, OneActive, OneClick, Exec, Sess
<1>3. ~excused' => Alone'
  BY DEF IInv, Alone, UnknownStaysActive, Exec
<1>4. ~excused' => Applied'
  BY DEF IInv, Applied, Marked, Harmless, Exec
<1>. QED BY <1>1, <1>2, <1>3, <1>4 DEF IInv

LEMMA NextIInv == IInv /\ [Next]_vars => IInv'
<1>1. ASSUME IInv, Next PROVE IInv'
  <2>1. CallTypes' /\ RowTypes' /\ HistoryTypes'
    BY <1>1, NextKeepsCallTypes, NextKeepsRowTypes, NextKeepsHistoryTypes DEF IInv
  <2>2. CallsMakeSense' /\ ClaimsHold'
    BY <1>1, NextKeepsSense, NextKeepsClaims DEF IInv
  <2>3. OneActive'
    BY <1>1, NextKeepsOneActive DEF IInv
  <2>4. ~excused' => Alone'
    BY <1>1, NextKeepsAlone DEF IInv
  <2>5. ~excused' => Applied'
    BY <1>1, NextKeepsApplied DEF IInv
  <2>. QED BY <2>1, <2>2, <2>3, <2>4, <2>5 DEF IInv, Types
<1>. QED BY <1>1, StutterIInv

LEMMA InvariantHolds == Spec => []IInv
BY InitIInv, NextIInv, PTL DEF Spec

-----------------------------------------------------------------------------

\* Every reachable state is well typed, for any number of calls, executions,
\* sessions, crashes and exceptions.
THEOREM TypeCorrect == Spec => []TypeOK
<1>1. IInv => TypeOK
  BY DEF IInv, Types, CallTypes, RowTypes, HistoryTypes, TypeOK
<1>. QED BY <1>1, InvariantHolds, PTL

\* greenhouse_submit_claim.py: however many processes run the canary, overlap,
\* crash and begin again, the submit button of an execution is pressed once at most,
\* and never by a call that did not take the claim.
THEOREM PressedOnce == Spec => []OneClick
<1>1. IInv => OneClick
  BY DEF IInv, ClaimsHold
<1>. QED BY <1>1, InvariantHolds, PTL

\* Calls one at a time: whatever the page answers, and wherever a call dies but
\* between a status and its mirror, the posting gets one application, of all the
\* executions that the job ever has.
THEOREM AppliedOnce == Spec => []OneApplication
<1>1. IInv => OneApplication
  BY DEF IInv, Applied, Types, HistoryTypes, OneApplication
<1>. QED BY <1>1, InvariantHolds, PTL

\* Calls one at a time: an execution with an unknown outcome stays active, so that no
\* other can be queued, until a person settles it.
THEOREM UnknownHeld == Spec => []UnknownIsHeld
<1>1. IInv => UnknownIsHeld
  BY DEF IInv, Alone, UnknownIsHeld
<1>. QED BY <1>1, InvariantHolds, PTL
=============================================================================

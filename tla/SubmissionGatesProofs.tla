------------------------ MODULE SubmissionGatesProofs ------------------------
(***************************************************************************)
(* The two gates that a prepared application still passes on its way to    *)
(* the provider, each a component of its own.                              *)
(*                                                                         *)
(* The submission circuit, for every number of workers, every slot limit   *)
(* and every threshold: the limit on concurrent submissions, crashes       *)
(* included, and the pause of a failing provider.                          *)
(*                                                                         *)
(* The approval, for every form, profile, posting and file, every number   *)
(* of tabs and workers and every bound: what is sent is what was approved, *)
(* nothing in it is guessed, and nothing is approved that was not made     *)
(* ready for it.                                                           *)
(***************************************************************************)
EXTENDS ApplicationApproval, SubmissionCircuit, FiniteSetTheorems, TLAPS

-----------------------------------------------------------------------------
(* The submission circuit.                                                 *)

\* A window never holds more failures than attempts.
GoodRows == {r \in Rows : r.failed <= r.attempts}

\* What the proofs need of the types; fairness and the bounds on faults play no
\* part.
CircuitTypes ==
  /\ circuit \in GoodRows
  /\ at \in [Submitters -> Steps]

\* Every operation on a row but the recording of a result yields a row, changes
\* the slots as its name says, and leaves the failures in a row alone or clears
\* them; only a close makes the row CLOSED.
LEMMA RowOperations ==
  ASSUME NEW r \in GoodRows
  PROVE  /\ /\ Admitted(r) \in GoodRows
            /\ Admitted(r).slots = r.slots /\ Admitted(r).failures = r.failures
            /\ Admitted(r).state = "CLOSED" => r.state = "CLOSED"
         /\ /\ ForceClose(r) \in GoodRows
            /\ ForceClose(r).slots = r.slots /\ ForceClose(r).failures = 0
         /\ /\ ReleaseHalfOpenProbe(r) \in GoodRows
            /\ ReleaseHalfOpenProbe(r).slots = r.slots
            /\ ReleaseHalfOpenProbe(r).failures = r.failures
            /\ ReleaseHalfOpenProbe(r).state = r.state
         /\ HasSlot(r) =>
            /\ AcquireInflightSlot(r) \in GoodRows
            /\ AcquireInflightSlot(r).slots = r.slots + 1
            /\ AcquireInflightSlot(r).failures = r.failures
            /\ AcquireInflightSlot(r).state = r.state
         /\ /\ ReleaseInflightSlot(r) \in GoodRows
            /\ r.slots > 0 => ReleaseInflightSlot(r).slots = r.slots - 1
            /\ ReleaseInflightSlot(r).failures = r.failures
            /\ ReleaseInflightSlot(r).state = r.state
         /\ /\ ForceProbe(r) \in GoodRows
            /\ ForceProbe(r).slots = r.slots /\ ForceProbe(r).failures = r.failures
            /\ ForceProbe(r).state = "CLOSED" => r.state = "CLOSED"
<1>. USE CircuitAssumption DEF GoodRows, Rows
<1>1. /\ Admitted(r) \in GoodRows
      /\ Admitted(r).slots = r.slots /\ Admitted(r).failures = r.failures
      /\ Admitted(r).state = "CLOSED" => r.state = "CLOSED"
  BY DEF Admitted
<1>2. /\ ForceClose(r) \in GoodRows
      /\ ForceClose(r).slots = r.slots /\ ForceClose(r).failures = 0
  <2>. DEFINE r1 == [r EXCEPT !.state = "CLOSED", !.cooled = FALSE]
              r2 == [r1 EXCEPT !.failures = 0]
              r3 == [r2 EXCEPT !.attempts = 0]
              r4 == [r3 EXCEPT !.failed = 0, !.probing = FALSE]
  <2>1. r1 \in Rows /\ r1.slots = r.slots
    OBVIOUS
  <2>. HIDE DEF r1
  <2>2. r2 \in Rows /\ r2.slots = r.slots /\ r2.failures = 0
    BY <2>1
  <2>. HIDE DEF r2
  <2>3. r3 \in Rows /\ r3.slots = r.slots /\ r3.failures = 0 /\ r3.attempts = 0
    BY <2>2
  <2>. HIDE DEF r3
  <2>4. /\ r4 \in Rows /\ r4.slots = r.slots /\ r4.failures = 0
        /\ r4.attempts = 0 /\ r4.failed = 0
    BY <2>3
  <2>5. ForceClose(r) = r4
    BY ONLY Zenon DEF ForceClose, r1, r2, r3, r4
  <2>. HIDE DEF r4
  <2>. QED BY <2>4, <2>5
<1>3. /\ ReleaseHalfOpenProbe(r) \in GoodRows
      /\ ReleaseHalfOpenProbe(r).slots = r.slots
      /\ ReleaseHalfOpenProbe(r).failures = r.failures
      /\ ReleaseHalfOpenProbe(r).state = r.state
  BY DEF ReleaseHalfOpenProbe
<1>4. HasSlot(r) =>
      /\ AcquireInflightSlot(r) \in GoodRows
      /\ AcquireInflightSlot(r).slots = r.slots + 1
      /\ AcquireInflightSlot(r).failures = r.failures
      /\ AcquireInflightSlot(r).state = r.state
  BY DEF HasSlot, AcquireInflightSlot
<1>5. /\ ReleaseInflightSlot(r) \in GoodRows
      /\ r.slots > 0 => ReleaseInflightSlot(r).slots = r.slots - 1
      /\ ReleaseInflightSlot(r).failures = r.failures
      /\ ReleaseInflightSlot(r).state = r.state
  BY DEF ReleaseInflightSlot
<1>6. /\ ForceProbe(r) \in GoodRows
      /\ ForceProbe(r).slots = r.slots /\ ForceProbe(r).failures = r.failures
      /\ ForceProbe(r).state = "CLOSED" => r.state = "CLOSED"
  BY DEF ForceProbe
<1>. QED BY ONLY <1>1, <1>2, <1>3, <1>4, <1>5, <1>6

\* Counting one failure more stays within the threshold.
LEMMA OneMoreType ==
  ASSUME NEW n \in 0..TripAfter
  PROVE  OneMore(n) \in 0..TripAfter
BY CircuitAssumption DEF OneMore

\* A recorded result is one failure more or the end of the failures in a row, it
\* never touches the slots, and TripAfter failures in a row leave no row CLOSED.
LEMMA RecordedResult ==
  ASSUME NEW r \in GoodRows, NEW success \in BOOLEAN
  PROVE  LET s == RecordResult(r, success) IN
         /\ s \in GoodRows
         /\ s.slots = r.slots
         /\ s.failures = (IF success THEN 0 ELSE OneMore(r.failures))
         /\ s.state = "CLOSED" => s.failures # TripAfter
<1>. DEFINE more == OneMore(r.failures)
            counted == IF success THEN 0 ELSE more
<1>1. more \in 0..TripAfter
  BY OneMoreType DEF GoodRows, Rows
<1>2. /\ Reopen(r) \in GoodRows /\ Reopen(r).slots = r.slots
      /\ Reopen(r).state = "OPEN" /\ Reopen(r).failures = more
  BY <1>1, CircuitAssumption DEF Reopen, GoodRows, Rows
<1>3. /\ ForceClose(r) \in GoodRows /\ ForceClose(r).slots = r.slots
      /\ ForceClose(r).failures = 0
  BY RowOperations
<1>4. /\ Sampled(r, success) \in GoodRows
      /\ Sampled(r, success).state = r.state
      /\ Sampled(r, success).slots = r.slots
      /\ Sampled(r, success).failures = counted
  <2>. DEFINE full == r.attempts + 1 >= WindowSize
              tried == IF full THEN 0 ELSE r.attempts + 1
              lost == IF full THEN 0 ELSE IF success THEN r.failed ELSE r.failed + 1
  <2>1. /\ counted \in 0..TripAfter
        /\ tried \in 0..WindowSize /\ lost \in 0..WindowSize /\ lost <= tried
    BY <1>1, CircuitAssumption DEF GoodRows, Rows
  <2>. DEFINE r1 == [r EXCEPT !.failures = counted]
              r2 == [r1 EXCEPT !.attempts = tried]
              r3 == [r2 EXCEPT !.failed = lost]
  <2>. HIDE DEF counted, tried, lost
  <2>2. r1 \in Rows /\ r1.slots = r.slots /\ r1.state = r.state /\ r1.failures = counted
    BY <2>1 DEF GoodRows, Rows
  <2>. HIDE DEF r1
  <2>3. /\ r2 \in Rows /\ r2.slots = r.slots /\ r2.state = r.state
        /\ r2.failures = counted /\ r2.attempts = tried
    BY <2>1, <2>2 DEF Rows
  <2>. HIDE DEF r2
  <2>4. /\ r3 \in GoodRows /\ r3.slots = r.slots /\ r3.state = r.state
        /\ r3.failures = counted
    BY <2>1, <2>3 DEF GoodRows, Rows
  <2>5. Sampled(r, success) = r3
    BY ONLY Zenon DEF Sampled, r1, r2, r3, counted, tried, lost, full, more
  <2>. HIDE DEF r3
  <2>. QED BY <2>4, <2>5
<1>5. CASE r.state = "HALF_OPEN"
  <2>1. RecordResult(r, success) = IF success THEN ForceClose(r) ELSE Reopen(r)
    BY <1>5 DEF RecordResult
  <2>. QED BY <1>2, <1>3, <2>1, CircuitAssumption
<1>6. CASE r.state = "CLOSED" /\ ShouldTrip(r, success)
  <2>1. RecordResult(r, success) =
          [Sampled(r, success) EXCEPT !.state = "OPEN", !.cooled = FALSE]
    BY <1>6 DEF RecordResult
  <2>. QED BY <1>4, <2>1 DEF GoodRows, Rows
<1>7. CASE r.state # "HALF_OPEN" /\ ~(r.state = "CLOSED" /\ ShouldTrip(r, success))
  <2>1. RecordResult(r, success) = Sampled(r, success)
    BY <1>7 DEF RecordResult
  <2>2. r.state = "CLOSED" => counted # TripAfter
    BY <1>1, <1>7, CircuitAssumption DEF ShouldTrip
  <2>. QED BY <1>4, <2>1, <2>2
<1>. QED BY <1>5, <1>6, <1>7

-----------------------------------------------------------------------------
(* The slots: every worker that holds one is counted by the row.           *)

CircuitInv ==
  /\ CircuitTypes
  /\ SlotsRespected
  /\ circuit.failures = streak
  /\ FailingProviderPaused

\* A worker that goes where it held no slot and holds none changes no count;
\* one that takes a slot adds itself to the holders, one that leaves goes.
LEMMA HoldersAfter ==
  ASSUME NEW w \in Submitters, NEW step \in Steps,
         at \in [Submitters -> Steps], Proceed(w, step)
  PROVE  /\ at' \in [Submitters -> Steps]
         /\ IsFiniteSet(Holders)
         /\ Cardinality(Holders) \in Nat
         /\ step \in Holding => Holders' = Holders \cup {w}
         /\ step \notin Holding => Holders' = Holders \ {w}
         /\ at[w] \in Holding <=> w \in Holders
<1>1. at' \in [Submitters -> Steps] /\ at'[w] = step
      /\ \A v \in Submitters \ {w} : at'[v] = at[v]
  BY DEF Proceed
<1>2. IsFiniteSet(Holders)
  BY WorkersAssumption, FS_Subset DEF Holders
<1>3. Cardinality(Holders) \in Nat
  BY <1>2, FS_CardinalityType
<1>4. Holders' = {v \in Submitters : at'[v] \in Holding}
  BY DEF Holders
<1>5. step \in Holding => Holders' = Holders \cup {w}
  BY <1>1, <1>4 DEF Holders
<1>6. step \notin Holding => Holders' = Holders \ {w}
  BY <1>1, <1>4 DEF Holders
<1>7. at[w] \in Holding <=> w \in Holders
  BY DEF Holders
<1>. QED BY <1>1, <1>2, <1>3, <1>5, <1>6, <1>7

\* A step that leaves the slots and the holders alone keeps the limit.
LEMMA SameHolders ==
  ASSUME SlotsRespected, Holders' = Holders, circuit'.slots = circuit.slots
  PROVE  SlotsRespected'
BY DEF SlotsRespected

\* A step that leaves the slots alone and adds no holder keeps the limit.
LEMMA FewerHolders ==
  ASSUME SlotsRespected, CircuitTypes, NEW w \in Submitters, NEW step \in Steps \ Holding,
         Proceed(w, step), circuit'.slots = circuit.slots
  PROVE  SlotsRespected'
<1>1. /\ Holders' = Holders \ {w} /\ IsFiniteSet(Holders)
  BY HoldersAfter DEF CircuitTypes
<1>2. Cardinality(Holders') <= Cardinality(Holders) /\ Cardinality(Holders') \in Nat
      /\ Cardinality(Holders) \in Nat
  BY <1>1, FS_Subset, FS_CardinalityType
<1>3. circuit.slots \in Nat
  BY CircuitAssumption DEF CircuitTypes, GoodRows, Rows
<1>. QED BY <1>2, <1>3 DEF SlotsRespected

\* The invariant holds in every reachable state, whatever workers crash and
\* whatever the operator does to the circuit.
THEOREM CircuitInvariant == CircuitSpec => []CircuitInv
<1>1. CircuitInit => CircuitInv
  <2> SUFFICES ASSUME CircuitInit PROVE CircuitInv
    OBVIOUS
  <2>1. circuit = NewRow /\ circuit.slots = 0 /\ circuit.failures = 0 /\ circuit.attempts = 0
        /\ circuit.failed = 0
    BY DEF CircuitInit, NewRow
  <2>2. circuit \in Rows
    BY <2>1, CircuitAssumption DEF NewRow, Rows
  <2>3. CircuitTypes
    BY <2>1, <2>2 DEF CircuitTypes, GoodRows, CircuitInit, Steps
  <2>4. Holders = {}
    BY DEF CircuitInit, Holders, Holding
  <2>5. SlotsRespected
    BY <2>1, <2>4, FS_EmptySet, CircuitAssumption DEF SlotsRespected
  <2>. QED BY <2>1, <2>3, <2>5, CircuitAssumption DEF CircuitInv, CircuitInit, FailingProviderPaused
<1>2. CircuitInv /\ [CircuitNext]_circuitVars => CircuitInv'
  <2> SUFFICES ASSUME CircuitInv, [CircuitNext]_circuitVars PROVE CircuitInv'
    OBVIOUS
  <2>. USE DEF CircuitInv
  <2>a. circuit \in GoodRows /\ at \in [Submitters -> Steps] /\ streak \in 0..TripAfter
        /\ (circuit.failures = TripAfter => circuit.state # "CLOSED")
        /\ circuit.slots \in Nat
    BY CircuitAssumption DEF CircuitTypes, GoodRows, Rows, FailingProviderPaused
  <2>1. ASSUME NEW w \in Submitters, MayAttempt(w) PROVE CircuitInv'
    <3>1. Proceed(w, "admitted") /\ "admitted" \in Steps \ Holding
      BY <2>1 DEF MayAttempt, Steps, Holding
    <3>2. /\ circuit' = Admitted(circuit) /\ streak' = streak
      BY <2>1 DEF MayAttempt
    <3>3. CircuitTypes'
      BY <2>a, <3>1, <3>2, RowOperations, HoldersAfter DEF CircuitTypes
    <3>4. SlotsRespected'
      BY <2>a, <3>1, <3>2, RowOperations, FewerHolders
    <3>. QED BY <2>a, <3>2, <3>3, <3>4, RowOperations DEF FailingProviderPaused
  <2>2. ASSUME NEW w \in Submitters, TakeSlot(w) PROVE CircuitInv'
    <3>1. streak' = streak
      BY <2>2 DEF TakeSlot
    <3>2. CASE HasSlot(circuit) /\ circuit' = AcquireInflightSlot(circuit) /\ Proceed(w, "executing")
      <4>1. "executing" \in Steps /\ "executing" \in Holding
        BY DEF Steps, Holding
      <4>2. /\ circuit' \in GoodRows /\ circuit'.slots = circuit.slots + 1
            /\ circuit'.failures = circuit.failures /\ circuit'.state = circuit.state
        BY <2>a, <3>2, RowOperations
      <4>3. /\ Holders' = Holders \cup {w} /\ IsFiniteSet(Holders)
            /\ Cardinality(Holders) \in Nat /\ at' \in [Submitters -> Steps]
        BY <2>a, <3>2, <4>1, HoldersAfter
      <4>4. Cardinality(Holders') <= Cardinality(Holders) + 1
            /\ Cardinality(Holders') \in Nat
        <5>1. IsFiniteSet(Holders') /\ Cardinality(Holders') \in Nat
          BY <4>3, FS_AddElement, FS_CardinalityType
        <5>2. Cardinality(Holders') \in {Cardinality(Holders), Cardinality(Holders) + 1}
          BY ONLY <4>3, FS_AddElement
        <5>. QED BY <4>3, <5>1, <5>2
      <4>5. SlotsRespected'
        BY <2>a, <3>2, <4>2, <4>3, <4>4, CircuitAssumption DEF SlotsRespected, HasSlot
      <4>. QED BY <2>a, <3>1, <4>2, <4>3, <4>5 DEF CircuitTypes, FailingProviderPaused
    <3>3. CASE UNCHANGED circuit /\ Proceed(w, "refused")
      <4>1. "refused" \in Steps \ Holding
        BY DEF Steps, Holding
      <4>2. SlotsRespected' /\ CircuitTypes'
        BY <2>a, <3>3, <4>1, FewerHolders, HoldersAfter DEF CircuitTypes
      <4>. QED BY <3>1, <3>3, <4>2 DEF FailingProviderPaused
    <3>. QED BY <2>2, <3>2, <3>3 DEF TakeSlot
  <2>3. ASSUME NEW w \in Submitters, GiveUp(w) PROVE CircuitInv'
    <3>1. Proceed(w, "idle") /\ "idle" \in Steps \ Holding
      BY <2>3 DEF GiveUp, Steps, Holding
    <3>2. circuit' = ReleaseHalfOpenProbe(circuit) /\ streak' = streak
      BY <2>3 DEF GiveUp
    <3>3. CircuitTypes'
      BY <2>a, <3>1, <3>2, RowOperations, HoldersAfter DEF CircuitTypes
    <3>4. SlotsRespected'
      BY <2>a, <3>1, <3>2, RowOperations, FewerHolders
    <3>. QED BY <2>a, <3>2, <3>3, <3>4, RowOperations DEF FailingProviderPaused
  <2>4. ASSUME NEW w \in Submitters, Execute(w) \/ Raise(w) PROVE CircuitInv'
    <3>1. PICK step \in Holding : Proceed(w, step)
      BY <2>4 DEF Execute, Raise, Holding
    <3>2. UNCHANGED <<circuit, streak>> /\ at[w] \in Holding /\ step \in Steps
      BY <2>4 DEF Execute, Raise, Holding, Steps
    <3>3. Holders' = Holders /\ at' \in [Submitters -> Steps]
      BY <2>a, <3>1, <3>2, HoldersAfter
    <3>4. SlotsRespected'
      BY <3>2, <3>3, SameHolders
    <3>. QED BY <2>a, <3>2, <3>3, <3>4 DEF CircuitTypes, FailingProviderPaused
  <2>5. ASSUME NEW w \in Submitters, Report(w) PROVE CircuitInv'
    <3>1. Proceed(w, "leaving") /\ at[w] \in Holding /\ "leaving" \in Holding
          /\ "leaving" \in Steps
      BY <2>5 DEF Report, Holding, Steps
    <3>2. Holders' = Holders /\ at' \in [Submitters -> Steps]
      BY <2>a, <3>1, HoldersAfter
    <3>3. /\ circuit' \in GoodRows /\ circuit'.slots = circuit.slots /\ circuit'.failures = streak'
          /\ (circuit'.failures = TripAfter => circuit'.state # "CLOSED")
      <4>1. CASE UNCHANGED streak /\ circuit' = ReleaseHalfOpenProbe(circuit)
        BY <2>a, <4>1, RowOperations
      <4>2. ASSUME NEW success \in BOOLEAN, circuit' = RecordResult(circuit, success),
                   streak' = IF success THEN 0 ELSE OneMore(streak)
            PROVE  /\ circuit' \in GoodRows /\ circuit'.slots = circuit.slots /\ circuit'.failures = streak'
                   /\ (circuit'.failures = TripAfter => circuit'.state # "CLOSED")
        <5>1. /\ circuit' \in GoodRows /\ circuit'.slots = circuit.slots
              /\ circuit'.failures = (IF success THEN 0 ELSE OneMore(circuit.failures))
              /\ (circuit'.state = "CLOSED" => circuit'.failures # TripAfter)
          BY <2>a, <4>2, RecordedResult
        <5>2. circuit.failures = streak
          OBVIOUS
        <5>. QED BY <4>2, <5>1, <5>2
      <4>3. \/ UNCHANGED streak /\ circuit' = ReleaseHalfOpenProbe(circuit)
            \/ LET success == at[w] = "succeeded" IN
               /\ circuit' = RecordResult(circuit, success)
               /\ streak' = IF success THEN 0 ELSE OneMore(streak)
        BY <2>5 DEF Report
      <4>. QED BY <4>1, <4>2, <4>3
    <3>4. SlotsRespected'
      BY <3>2, <3>3, SameHolders
    <3>. QED BY <3>2, <3>3, <3>4 DEF CircuitTypes, FailingProviderPaused
  <2>6. ASSUME NEW w \in Submitters, Leave(w) PROVE CircuitInv'
    <3>1. Proceed(w, "idle") /\ "idle" \in Steps /\ "idle" \notin Holding /\ at[w] \in Holding
      BY <2>6 DEF Leave, Steps, Holding
    <3>2. circuit' = ReleaseInflightSlot(circuit) /\ streak' = streak
      BY <2>6 DEF Leave
    <3>3. /\ w \in Holders /\ Holders' = Holders \ {w} /\ IsFiniteSet(Holders)
          /\ Cardinality(Holders) \in Nat /\ at' \in [Submitters -> Steps]
      BY <2>a, <3>1, HoldersAfter
    <3>4. Cardinality(Holders') = Cardinality(Holders) - 1 /\ Cardinality(Holders') \in Nat
      BY <3>3, FS_RemoveElement, FS_CardinalityType
    <3>5. circuit.slots > 0
      BY <2>a, <3>3, <3>4 DEF SlotsRespected
    <3>6. /\ circuit' \in GoodRows /\ circuit'.slots = circuit.slots - 1
          /\ circuit'.failures = circuit.failures /\ circuit'.state = circuit.state
      BY <2>a, <3>2, <3>5, RowOperations
    <3>7. SlotsRespected'
      BY <2>a, <3>3, <3>4, <3>6, CircuitAssumption DEF SlotsRespected
    <3>. QED BY <2>a, <3>2, <3>3, <3>6, <3>7 DEF CircuitTypes, FailingProviderPaused
  <2>7. ASSUME NEW w \in Submitters, Die(w) PROVE CircuitInv'
    <3>1. Proceed(w, "idle") /\ "idle" \in Steps \ Holding /\ UNCHANGED <<circuit, streak>>
      BY <2>7 DEF Die, Steps, Holding
    <3>2. SlotsRespected' /\ CircuitTypes'
      BY <2>a, <3>1, FewerHolders, HoldersAfter DEF CircuitTypes
    <3>. QED BY <3>1, <3>2 DEF FailingProviderPaused
  <2>8. CASE CooldownElapses
    <3>1. circuit' = [circuit EXCEPT !.cooled = TRUE] /\ UNCHANGED <<at, streak>>
      BY <2>8 DEF CooldownElapses
    <3>2. /\ circuit' \in GoodRows /\ circuit'.slots = circuit.slots
          /\ circuit'.failures = circuit.failures /\ circuit'.state = circuit.state
      BY <2>a, <3>1 DEF GoodRows, Rows
    <3>3. Holders' = Holders
      BY <3>1 DEF Holders
    <3>4. SlotsRespected'
      BY <3>2, <3>3, SameHolders
    <3>. QED BY <2>a, <3>1, <3>2, <3>4 DEF CircuitTypes, FailingProviderPaused
  <2>9. CASE AdminCloses
    <3>1. circuit' = ForceClose(circuit) /\ streak' = 0 /\ at' = at
      BY <2>9 DEF AdminCloses
    <3>2. circuit' \in GoodRows /\ circuit'.slots = circuit.slots /\ circuit'.failures = 0
      BY <2>a, <3>1, RowOperations
    <3>3. Holders' = Holders
      BY <3>1 DEF Holders
    <3>4. SlotsRespected'
      BY <3>2, <3>3, SameHolders
    <3>. QED BY <2>a, <3>1, <3>2, <3>4, CircuitAssumption DEF CircuitTypes, FailingProviderPaused
  <2>10. CASE AdminProbes
    <3>1. circuit' = ForceProbe(circuit) /\ streak' = streak /\ at' = at
      BY <2>10 DEF AdminProbes
    <3>2. /\ circuit' \in GoodRows /\ circuit'.slots = circuit.slots
          /\ circuit'.failures = circuit.failures /\ (circuit'.state = "CLOSED" => circuit.state = "CLOSED")
      BY <2>a, <3>1, RowOperations
    <3>3. Holders' = Holders
      BY <3>1 DEF Holders
    <3>4. SlotsRespected'
      BY <3>2, <3>3, SameHolders
    <3>. QED BY <2>a, <3>1, <3>2, <3>4 DEF CircuitTypes, FailingProviderPaused
  <2>11. CASE UNCHANGED circuitVars
    <3>1. Holders' = Holders
      BY <2>11 DEF circuitVars, Holders
    <3>. QED BY <2>11, <3>1 DEF circuitVars, CircuitTypes, SlotsRespected, FailingProviderPaused
  <2>. QED
    BY <2>1, <2>2, <2>3, <2>4, <2>5, <2>6, <2>7, <2>8, <2>9, <2>10, <2>11
    DEF CircuitNext, Work
<1>. QED BY <1>1, <1>2, PTL DEF CircuitSpec

\* Crashes, exceptions and operators included, never more submissions run at once
\* than acquire_inflight_slot() allows.
THEOREM SlotLimitHolds == CircuitSpec => []SlotsRespected
BY CircuitInvariant, PTL DEF CircuitInv

\* record_result() always pauses a provider after TripAfter failures in a row.
THEOREM FailuresPause == CircuitSpec => []FailingProviderPaused
BY CircuitInvariant, PTL DEF CircuitInv

-----------------------------------------------------------------------------
(* The approval and what is sent.                                          *)

ApprovalSteps ==
  {"idle", "claim", "record", "begin", "verify", "discover", "fill", "gate", "submit"}

\* A sequence, whatever it holds.
IsSeq(s) == s \in Seq(Range(s))

\* What the proofs need of the types.
ApprovalTypes ==
  /\ profile \in Profiles /\ form \in Forms \cup {None}
  /\ provider \in Providers
  /\ DOMAIN row = {"status", "hash", "answers", "form"}
  /\ pc \in [Procs -> ApprovalSteps]
  /\ DOMAIN frame = Procs /\ \A p \in Procs : DOMAIN frame[p] = DOMAIN Blank
  /\ IsSeq(approvals) /\ IsSeq(sent)

\* Two runs of the row do not overlap.
OneRun == \A p, q \in Procs : InRun(p) /\ InRun(q) => p = q

\* The row is where the run is, and was made ready for the approval to be recorded.
InStep(p) ==
  /\ pc[p] \in {"record", "verify", "discover"} => row.status = "STARTED"
  /\ pc[p] = "record" => ready
  /\ pc[p] = "fill" => row.status = "FORM_DISCOVERED"
  /\ pc[p] = "gate" => row.status = "FORM_FILLED"
  /\ pc[p] = "submit" => row.status = "SUBMITTING"

ReadyRow == row.status = "SUBMISSION_READY" => ready /\ row.hash # None

\* Approval a covers a posting, a profile, a form and a resume.
Covers(a, q, v, f, digest) ==
  /\ q = a.posting /\ Fingerprint(f) = a.form /\ digest = a.hash
  /\ ~ProfileReverts => v = a.profile

\* The draft answers the form from the profile and the file, and is complete.
Answered(d, v, f, digest) ==
  /\ f \in Forms /\ Unresolved(f, d) = {}
  /\ d = FillDraft("mock_ats", f, ApplicationFields(ProfileAt[v], digest), {})

\* What the run read still holds of the row, and no approval is later than it.
Relies(p) ==
  LET f == frame[p] IN
  /\ pc[p] \in {"claim", "record"} => f.row.hash # None
  /\ pc[p] = "verify" => row.hash = f.row.hash
  /\ pc[p] \in {"discover", "fill", "gate", "submit"} =>
       /\ f.digest # None /\ row.hash = f.digest
       /\ f.profile \in Profiles
       /\ ~ProfileReverts =>
            f.profile <= profile /\ \A i \in DOMAIN approvals : approvals[i].profile <= f.profile
  /\ pc[p] \in {"fill", "gate", "submit"} =>
       row.form = Fingerprint(f.form) /\ f.form \in Forms \cup {None}
  /\ pc[p] \in {"gate", "submit"} /\ provider = "mock_ats" =>
       Answered(f.draft, f.profile, f.form, f.digest)
  /\ pc[p] = "submit" =>
       /\ provider = "mock_ats" /\ approvals # <<>>
       /\ Covers(approvals[Len(approvals)], f.posting, f.profile, f.form, f.digest)

\* An approval is of a verified resume and of a profile that was current.
Approved ==
  \A i \in DOMAIN approvals :
    /\ approvals[i].hash # None /\ approvals[i].profile \in Profiles
    /\ ~ProfileReverts => approvals[i].profile <= profile

\* Whatever was sent was covered and answered.
Delivered ==
  \A i \in DOMAIN sent :
    LET s == sent[i] IN
    /\ s.approval \in DOMAIN approvals
    /\ Covers(approvals[s.approval], s.posting, s.profile, s.form, s.verified)
    /\ Answered(s.draft, s.profile, s.form, s.verified)

ApprovalInv ==
  /\ ApprovalTypes
  /\ OneRun /\ ReadyRow
  /\ \A p \in Procs : InStep(p) /\ Relies(p)
  /\ Approved /\ Delivered
  /\ provider = "mock_ats" => evidence = {}

\* A sequence stays one when something is appended, and keeps what it held.
LEMMA Appended ==
  ASSUME NEW s, IsSeq(s), NEW e
  PROVE  /\ IsSeq(Append(s, e))
         /\ DOMAIN s = 1..Len(s) /\ Len(s) \in Nat
         /\ Len(Append(s, e)) = Len(s) + 1
         /\ DOMAIN Append(s, e) = 1..(Len(s) + 1)
         /\ \A i \in DOMAIN s : Append(s, e)[i] = s[i]
         /\ Append(s, e)[Len(s) + 1] = e
<1> DEFINE t == Append(s, e)
           S == Range(s) \cup {e}
<1>1. s \in Seq(S) /\ e \in S
  BY DEF IsSeq
<1>2. /\ t \in Seq(S) /\ Len(t) = Len(s) + 1 /\ Len(s) \in Nat /\ DOMAIN s = 1..Len(s)
      /\ DOMAIN t = 1..(Len(s) + 1) /\ t[Len(s) + 1] = e
      /\ \A i \in 1..Len(s) : t[i] = s[i]
  BY <1>1
<1> HIDE DEF t, S
<1>3. t \in [1..Len(t) -> Range(t)]
  BY <1>2 DEF Range
<1>4. IsSeq(t)
  BY <1>2, <1>3 DEF IsSeq
<1> QED BY <1>2, <1>4 DEF t

\* Where a process goes, and where the others stay.
LEMMA Gone ==
  ASSUME ApprovalTypes, NEW p \in Procs, NEW step \in ApprovalSteps, NEW f,
         DOMAIN f = DOMAIN Blank, Goto(p, step, f)
  PROVE  /\ pc' \in [Procs -> ApprovalSteps] /\ DOMAIN frame' = Procs
         /\ \A q \in Procs : DOMAIN frame'[q] = DOMAIN Blank
         /\ pc'[p] = step /\ frame'[p] = f
         /\ \A q \in Procs \ {p} : pc'[q] = pc[q] /\ frame'[q] = frame[q]
BY DEF ApprovalTypes, Goto

\* The one process that runs writes to the row: no other one relies on it.
LEMMA RunnerKeeps ==
  ASSUME ApprovalInv, NEW p \in Procs, NEW step \in ApprovalSteps, NEW f,
         DOMAIN f = DOMAIN Blank, Goto(p, step, f),
         \A q \in Procs \ {p} : ~InRun(q),
         UNCHANGED world, DOMAIN row' = DOMAIN row, ReadyRow', InStep(p)', Relies(p)',
         IsSeq(approvals)', IsSeq(sent)', Approved', Delivered'
  PROVE  ApprovalInv'
<1>1. ApprovalTypes'
  BY Gone DEF ApprovalInv, ApprovalTypes, world
<1>2. \A q \in Procs \ {p} : pc'[q] = pc[q] /\ frame'[q] = frame[q] /\ ~InRun(q)'
  BY Gone DEF ApprovalInv, InRun
<1>3. OneRun'
  BY <1>2 DEF OneRun
<1>4. ASSUME NEW q \in Procs \ {p} PROVE InStep(q)' /\ Relies(q)'
  <2>1. pc[q] \notin {"record", "begin", "verify", "discover", "fill", "gate", "submit"}
    BY <1>2, <1>4 DEF InRun
  <2> QED BY <1>2, <1>4, <2>1 DEF ApprovalInv, InStep, Relies
<1> QED BY <1>1, <1>3, <1>4 DEF ApprovalInv, world

\* A run that ends.
LEMMA RestKeeps ==
  ASSUME ApprovalInv, NEW p \in Procs, InRun(p), NEW r, Rest(p, r), DOMAIN r = DOMAIN row,
         r.status = "SUBMISSION_READY" => r.hash # None, IsSeq(sent)', Delivered'
  PROVE  ApprovalInv'
<1>1. \A q \in Procs \ {p} : ~InRun(q)
  BY DEF ApprovalInv, OneRun
<1>2. Goto(p, "idle", Blank) /\ "idle" \in ApprovalSteps
  BY DEF Rest, ApprovalSteps
<1>3. pc'[p] = "idle"
  BY <1>2, Gone DEF ApprovalInv
<1>4. InStep(p)' /\ Relies(p)'
  BY <1>3 DEF InStep, Relies
<1>5. ReadyRow'
  BY DEF Rest, ReadyRow
<1>6. IsSeq(approvals)' /\ Approved' /\ UNCHANGED world /\ DOMAIN row' = DOMAIN row
  BY DEF Rest, ApprovalInv, ApprovalTypes, Approved, world
<1> QED BY <1>1, <1>2, <1>4, <1>5, <1>6, RunnerKeeps

\* A run that goes on.
LEMMA GoKeeps ==
  ASSUME ApprovalInv, NEW p \in Procs, InRun(p), NEW r, NEW step \in ApprovalSteps, NEW f,
         Go(p, r, step, f), DOMAIN f = DOMAIN Blank, DOMAIN r = DOMAIN row,
         r.status # "SUBMISSION_READY", sent' = sent, InStep(p)', Relies(p)'
  PROVE  ApprovalInv'
<1>1. \A q \in Procs \ {p} : ~InRun(q)
  BY DEF ApprovalInv, OneRun
<1>2. Goto(p, step, f) /\ ReadyRow'
  BY DEF Go, ReadyRow
<1>3. /\ IsSeq(approvals)' /\ IsSeq(sent)' /\ Approved' /\ Delivered'
      /\ UNCHANGED world /\ DOMAIN row' = DOMAIN row
  BY DEF Go, ApprovalInv, ApprovalTypes, Approved, Delivered, world
<1> QED BY <1>1, <1>2, <1>3, RunnerKeeps

\* A process that steps aside writes nothing the others rely on.
LEMMA AsideKeeps ==
  ASSUME ApprovalInv, NEW p \in Procs, NEW step \in {"idle", "claim"}, NEW f,
         DOMAIN f = DOMAIN Blank, Goto(p, step, f), step = "claim" => f.row.hash # None,
         UNCHANGED <<world, row, approvals, ready>>, IsSeq(sent)', Delivered'
  PROVE  ApprovalInv'
<1>0. step \in ApprovalSteps
  BY DEF ApprovalSteps
<1>1. ApprovalTypes'
  BY <1>0, Gone DEF ApprovalInv, ApprovalTypes, world
<1>2. /\ pc'[p] = step /\ frame'[p] = f
      /\ \A q \in Procs \ {p} : pc'[q] = pc[q] /\ frame'[q] = frame[q]
  BY <1>0, Gone DEF ApprovalInv
<1>3. OneRun'
  BY <1>2 DEF OneRun, InRun, ApprovalInv
<1>4. InStep(p)' /\ Relies(p)'
  BY <1>2 DEF InStep, Relies
<1>5. ASSUME NEW q \in Procs \ {p} PROVE InStep(q)' /\ Relies(q)'
  BY <1>2, <1>5 DEF ApprovalInv, InStep, Relies, world
<1>6. ReadyRow' /\ Approved'
  BY DEF ApprovalInv, ReadyRow, Approved, world
<1> QED BY <1>1, <1>3, <1>4, <1>5, <1>6 DEF ApprovalInv, world

\* The fields of a record of this kind, one update at a time.
LEMMA WithStatus ==
  ASSUME ApprovalTypes, NEW s
  PROVE  /\ DOMAIN With(s) = DOMAIN row /\ With(s).status = s
         /\ With(s).hash = row.hash /\ With(s).form = row.form
BY DEF With, ApprovalTypes

\* A run that ends and sends nothing.
LEMMA RestSilent ==
  ASSUME ApprovalInv, NEW p \in Procs, InRun(p), NEW r, Rest(p, r), DOMAIN r = DOMAIN row,
         r.status = "SUBMISSION_READY" => r.hash # None, sent' = sent
  PROVE  ApprovalInv'
<1>1. IsSeq(sent)' /\ Delivered'
  BY DEF Rest, ApprovalInv, ApprovalTypes, Delivered
<1> QED BY <1>1, RestKeeps

LEMMA BeginKeeps ==
  ASSUME ApprovalInv, NEW p \in Procs, Begin(p)
  PROVE  ApprovalInv'
<1>0. ApprovalTypes /\ InRun(p) /\ sent' = sent
  BY DEF ApprovalInv, Begin, InRun
<1>1. CASE Rest(p, row)
  BY <1>0, <1>1, RestSilent DEF ApprovalInv, ReadyRow
<1>2. CASE Rest(p, With("SUBMISSION_STATUS_UNKNOWN"))
  BY <1>0, <1>2, RestSilent, WithStatus
<1> DEFINE f == [frame[p] EXCEPT !.row = row, !.posting = posting]
<1>3. CASE Go(p, With("STARTED"), "verify", f)
  <2>1. DOMAIN f = DOMAIN Blank /\ f.row = row
    BY <1>0 DEF ApprovalTypes, Blank
  <2>2. "verify" \in ApprovalSteps
    BY DEF ApprovalSteps
  <2> HIDE DEF f
  <2>3. pc'[p] = "verify" /\ frame'[p] = f /\ row' = With("STARTED")
    BY <1>0, <1>3, <2>1, <2>2, Gone DEF Go
  <2>4. InStep(p)' /\ Relies(p)'
    BY <1>0, <2>1, <2>3, WithStatus DEF InStep, Relies
  <2> QED BY <1>0, <1>3, <2>1, <2>2, <2>4, WithStatus, GoKeeps
<1> QED BY <1>1, <1>2, <1>3 DEF Begin

LEMMA VerifyResumeKeeps ==
  ASSUME ApprovalInv, NEW p \in Procs, VerifyResume(p)
  PROVE  ApprovalInv'
<1>0. /\ ApprovalTypes /\ InRun(p) /\ sent' = sent /\ pc[p] = "verify"
      /\ row.status = "STARTED" /\ row.hash = frame[p].row.hash
  BY DEF ApprovalInv, VerifyResume, InRun, InStep, Relies
<1>1. CASE Rest(p, With("PERMANENT_SUBMISSION_FAILURE"))
  BY <1>0, <1>1, RestSilent, WithStatus
<1>2. CASE Rest(p, [row EXCEPT !.status = "VALIDATION_REQUIRED", !.hash = file])
  <2> DEFINE r == [row EXCEPT !.status = "VALIDATION_REQUIRED", !.hash = file]
  <2>1. DOMAIN r = DOMAIN row /\ r.status = "VALIDATION_REQUIRED"
    BY <1>0 DEF ApprovalTypes
  <2> HIDE DEF r
  <2> QED BY <1>0, <1>2, <2>1, RestSilent DEF r
<1> DEFINE r == [row EXCEPT !.hash = IF frame[p].row.hash = None THEN file ELSE @]
           f == [frame[p] EXCEPT !.digest = file, !.profile = profile]
<1>3. CASE /\ file # None /\ (frame[p].row.hash = None \/ frame[p].row.hash = file)
           /\ Go(p, r, "discover", f)
  <2>1. DOMAIN f = DOMAIN Blank /\ f.digest = file /\ f.profile = profile
    BY <1>0 DEF ApprovalTypes, Blank
  <2>2. DOMAIN r = DOMAIN row /\ r.status = "STARTED" /\ r.hash = file
    BY <1>0, <1>3 DEF ApprovalTypes
  <2>3. "discover" \in ApprovalSteps
    BY DEF ApprovalSteps
  <2>4. /\ pc'[p] = "discover" /\ frame'[p] = f /\ row' = r
        /\ UNCHANGED <<profile, approvals>>
    BY <1>0, <1>3, <2>1, <2>3, Gone DEF Go, world
  <2> HIDE DEF f, r
  <2>5. profile \in Nat /\ profile \in Profiles
    BY <1>0, ApprovalAssumption DEF ApprovalTypes
  <2>6. InStep(p)' /\ Relies(p)'
    BY <1>3, <2>1, <2>2, <2>4, <2>5 DEF InStep, Relies, ApprovalInv, Approved
  <2> QED BY <1>0, <1>3, <2>1, <2>2, <2>3, <2>6, GoKeeps
<1> QED BY <1>1, <1>2, <1>3 DEF VerifyResume

LEMMA DiscoverKeeps ==
  ASSUME ApprovalInv, NEW p \in Procs, Discover(p)
  PROVE  ApprovalInv'
<1> DEFINE seen == [row EXCEPT !.status = "FORM_DISCOVERED", !.form = Fingerprint(form),
                               !.answers = AnswersVersion(Answers(p))]
           f == [frame[p] EXCEPT !.form = form]
<1>0. ApprovalTypes /\ InRun(p) /\ sent' = sent /\ pc[p] = "discover"
  BY DEF ApprovalInv, Discover, InRun
<1>1. /\ DOMAIN seen = DOMAIN row /\ seen.status = "FORM_DISCOVERED"
      /\ seen.form = Fingerprint(form) /\ seen.hash = row.hash
  BY <1>0 DEF ApprovalTypes
<1>2. CASE Rest(p, [seen EXCEPT !.status = "NEEDS_USER_ACTION"])
  <2>1. /\ DOMAIN [seen EXCEPT !.status = "NEEDS_USER_ACTION"] = DOMAIN row
        /\ [seen EXCEPT !.status = "NEEDS_USER_ACTION"].status = "NEEDS_USER_ACTION"
    BY <1>0, <1>1 DEF ApprovalTypes
  <2> HIDE DEF seen
  <2> QED BY <1>0, <1>2, <2>1, RestSilent
<1>3. CASE Go(p, seen, "fill", f)
  <2>1. /\ DOMAIN f = DOMAIN Blank /\ f.form = form
        /\ f.digest = frame[p].digest /\ f.profile = frame[p].profile
    BY <1>0 DEF ApprovalTypes, Blank
  <2>2. "fill" \in ApprovalSteps
    BY DEF ApprovalSteps
  <2>3. /\ pc'[p] = "fill" /\ frame'[p] = f /\ row' = seen
        /\ UNCHANGED <<profile, approvals>>
    BY <1>0, <1>3, <2>1, <2>2, Gone DEF Go, world
  <2> HIDE DEF f, seen
  <2>4. InStep(p)' /\ Relies(p)'
    BY <1>0, <1>1, <2>1, <2>3 DEF InStep, Relies, ApprovalInv, ApprovalTypes
  <2> QED BY <1>0, <1>1, <1>3, <2>1, <2>2, <2>4, GoKeeps
<1> QED BY <1>2, <1>3 DEF Discover

\* The draft of the mock ATS, which maps without evidence.
LEMMA MockDraft ==
  ASSUME NEW f, NEW answers, NEW known
  PROVE  FillDraft("mock_ats", f, answers, known) = FillDraft("mock_ats", f, answers, {})
BY DEF FillDraft, ResolvedBy

LEMMA FillKeeps ==
  ASSUME ApprovalInv, NEW p \in Procs, Fill(p)
  PROVE  ApprovalInv'
<1> DEFINE draft == IF frame[p].form = None THEN <<>>
                    ELSE FillDraft(provider, frame[p].form, Answers(p), Current(p))
           f == [frame[p] EXCEPT !.draft = draft]
<1>0. ApprovalTypes /\ InRun(p) /\ sent' = sent /\ pc[p] = "fill"
  BY DEF ApprovalInv, Fill, InRun
<1>1. row.hash # None /\ row.form = Fingerprint(frame[p].form)
  BY <1>0 DEF ApprovalInv, Relies
<1>2. CASE Rest(p, With("NEEDS_USER_ACTION")) \/ Rest(p, With("SUBMISSION_READY"))
  BY <1>0, <1>1, <1>2, RestSilent, WithStatus
<1>3. CASE ValidationOk(provider, frame[p].form, draft) /\ Go(p, With("FORM_FILLED"), "gate", f)
  <2>1. /\ DOMAIN f = DOMAIN Blank /\ f.form = frame[p].form /\ f.draft = draft
        /\ f.digest = frame[p].digest /\ f.profile = frame[p].profile
    BY <1>0 DEF ApprovalTypes, Blank
  <2>2. "gate" \in ApprovalSteps
    BY DEF ApprovalSteps
  <2>3. /\ pc'[p] = "gate" /\ frame'[p] = f /\ row' = With("FORM_FILLED")
        /\ UNCHANGED <<profile, provider, approvals>>
    BY <1>0, <1>3, <2>1, <2>2, Gone DEF Go, world
  <2>4. /\ frame[p].digest # None /\ row.hash = frame[p].digest /\ frame[p].profile \in Profiles
        /\ frame[p].form \in Forms \cup {None}
        /\ ~ProfileReverts =>
             /\ frame[p].profile <= profile
             /\ \A i \in DOMAIN approvals : approvals[i].profile <= frame[p].profile
    BY <1>0 DEF ApprovalInv, Relies
  <2>5. ASSUME provider = "mock_ats"
        PROVE  Answered(draft, frame[p].profile, frame[p].form, frame[p].digest)
    <3>1. frame[p].form # None /\ Unresolved(frame[p].form, draft) = {}
      BY <1>3, <2>5 DEF ValidationOk
    <3>2. draft = FillDraft("mock_ats", frame[p].form, Answers(p), {})
      BY <2>5, <3>1, MockDraft
    <3> HIDE DEF draft
    <3> QED BY <2>4, <3>1, <3>2 DEF Answered, Answers
  <2> HIDE DEF f, draft
  <2>6. InStep(p)' /\ Relies(p)'
    BY <1>0, <1>1, <2>1, <2>3, <2>4, <2>5, WithStatus DEF InStep, Relies
  <2> QED BY <1>0, <1>3, <2>1, <2>2, <2>6, WithStatus, GoKeeps
<1> QED BY <1>2, <1>3 DEF Fill

LEMMA GateKeeps ==
  ASSUME ApprovalInv, NEW p \in Procs, Gate(p)
  PROVE  ApprovalInv'
<1> DEFINE f == [frame[p] EXCEPT !.posting = posting]
           a == approvals[Len(approvals)]
<1>0. ApprovalTypes /\ InRun(p) /\ sent' = sent /\ pc[p] = "gate"
  BY DEF ApprovalInv, Gate, InRun
<1>1. row.hash # None
  BY <1>0 DEF ApprovalInv, Relies
<1>2. ASSUME NEW s, Rest(p, With(s)) PROVE ApprovalInv'
  BY <1>0, <1>1, <1>2, RestSilent, WithStatus
<1>3. CASE ApprovedSubmitPermitted(p) /\ Go(p, With("SUBMITTING"), "submit", f)
  <2>1. /\ DOMAIN f = DOMAIN Blank /\ f.form = frame[p].form /\ f.draft = frame[p].draft
        /\ f.digest = frame[p].digest /\ f.profile = frame[p].profile /\ f.posting = posting
    BY <1>0 DEF ApprovalTypes, Blank
  <2>2. "submit" \in ApprovalSteps
    BY DEF ApprovalSteps
  <2>3. /\ pc'[p] = "submit" /\ frame'[p] = f /\ row' = With("SUBMITTING")
        /\ UNCHANGED <<profile, provider, approvals>>
    BY <1>0, <1>3, <2>1, <2>2, Gone DEF Go, world
  <2>4. provider = "mock_ats" /\ approvals # <<>> /\ IsCurrentValid(a)
    BY <1>3 DEF ApprovedSubmitPermitted, SubmissionSupported
  <2>5. Len(approvals) \in DOMAIN approvals
    BY <1>0, <2>4, Appended DEF ApprovalTypes, IsSeq
  <2>6. Relies(p)
    BY DEF ApprovalInv
  <2>7. /\ posting = a.posting /\ Fingerprint(frame[p].form) = a.form /\ frame[p].digest = a.hash
    BY <1>0, <2>4, <2>5, <2>6 DEF IsCurrentValid, Relies, ApprovalInv, Approved
  <2>8. ASSUME ~ProfileReverts PROVE frame[p].profile = a.profile
    <3>1. a.profile = profile
      BY <2>4 DEF IsCurrentValid
    <3>2. frame[p].profile <= profile /\ a.profile <= frame[p].profile
      BY <1>0, <2>5, <2>6, <2>8 DEF Relies
    <3>3. frame[p].profile \in Nat /\ profile \in Nat
      BY <1>0, <2>6, ApprovalAssumption DEF Relies, ApprovalTypes
    <3> QED BY <3>1, <3>2, <3>3
  <2> HIDE DEF f, a
  <2>9. Covers(a, f.posting, f.profile, f.form, f.digest)
    BY <2>1, <2>7, <2>8 DEF Covers
  <2>10. InStep(p)' /\ Relies(p)'
    BY <1>0, <2>1, <2>3, <2>4, <2>6, <2>9, WithStatus DEF InStep, Relies, a
  <2> QED BY <1>0, <1>3, <2>1, <2>2, <2>10, WithStatus, GoKeeps
<1> QED BY <1>2, <1>3 DEF Gate

\* What is sent at this moment was covered and answered.
LEMMA SentDelivers ==
  ASSUME ApprovalInv, NEW p \in Procs, pc[p] = "submit", sent' = Sent(p), UNCHANGED approvals
  PROVE  IsSeq(sent)' /\ Delivered'
<1> DEFINE e == [posting |-> frame[p].posting, profile |-> frame[p].profile,
                 verified |-> frame[p].digest, file |-> file, form |-> frame[p].form,
                 draft |-> frame[p].draft, approval |-> Len(approvals)]
<1>1. IsSeq(sent) /\ IsSeq(approvals) /\ sent' = Append(sent, e)
  BY DEF ApprovalInv, ApprovalTypes, Sent
<1>2. /\ e.posting = frame[p].posting /\ e.profile = frame[p].profile
      /\ e.verified = frame[p].digest /\ e.form = frame[p].form /\ e.draft = frame[p].draft
      /\ e.approval = Len(approvals)
  OBVIOUS
<1> HIDE DEF e
<1>3. Len(approvals) \in DOMAIN approvals
  BY <1>1 DEF ApprovalInv, Relies, IsSeq
<1>4. /\ Covers(approvals[e.approval], e.posting, e.profile, e.form, e.verified)
      /\ Answered(e.draft, e.profile, e.form, e.verified)
  BY <1>2 DEF ApprovalInv, Relies
<1>5. /\ IsSeq(sent') /\ DOMAIN sent' = DOMAIN sent \cup {Len(sent) + 1}
      /\ \A i \in DOMAIN sent : sent'[i] = sent[i]
      /\ sent'[Len(sent) + 1] = e
  <2>1. DOMAIN Append(sent, e) = DOMAIN sent \cup {Len(sent) + 1}
    BY <1>1, Appended
  <2> QED BY <1>1, <2>1, Appended
<1>6. Delivered'
  BY <1>2, <1>3, <1>4, <1>5 DEF Delivered, ApprovalInv
<1> QED BY <1>5, <1>6

LEMMA SubmitKeeps ==
  ASSUME ApprovalInv, NEW p \in Procs, Submit(p)
  PROVE  ApprovalInv'
<1>1. ApprovalTypes /\ InRun(p) /\ pc[p] = "submit"
  BY DEF ApprovalInv, Submit, InRun
<1>2. PICK s \in {"APPLIED", "SUBMISSION_STATUS_UNKNOWN", "RETRYABLE_SUBMISSION_FAILURE",
                  "PERMANENT_SUBMISSION_FAILURE"} : Rest(p, With(s))
  BY DEF Submit
<1>3. IsSeq(sent)' /\ Delivered'
  BY <1>1, <1>2, SentDelivers DEF Submit, Rest
<1> QED BY <1>1, <1>2, <1>3, WithStatus, RestKeeps

LEMMA RunKeeps ==
  ASSUME ApprovalInv, NEW p \in Procs, Run(p)
  PROVE  ApprovalInv'
BY BeginKeeps, VerifyResumeKeeps, DiscoverKeeps, FillKeeps, GateKeeps, SubmitKeeps DEF Run

\* A process that dies leaves the row as it is; if it was submitting, the provider
\* may have the application.
LEMMA DyingKeeps ==
  ASSUME ApprovalInv, NEW p \in Procs, Crash(p)
  PROVE  ApprovalInv'
<1>1. /\ Goto(p, "idle", Blank)
      /\ UNCHANGED <<world, row, approvals, ready>>
  BY DEF Crash
<1>2. IsSeq(sent)' /\ Delivered'
  <2>1. CASE sent' = sent
    BY <1>1, <2>1 DEF ApprovalInv, ApprovalTypes, Delivered
  <2>2. CASE pc[p] = "submit" /\ sent' = Sent(p)
    BY <1>1, <2>2, SentDelivers
  <2> QED BY <2>1, <2>2 DEF Crash
<1> QED BY <1>1, <1>2, AsideKeeps

\* The two ways into a run that nothing has been approved for: a process begins.
LEMMA EntryKeeps ==
  ASSUME ApprovalInv, NEW p \in Procs, MayRun, NEW f, DOMAIN f = DOMAIN Blank,
         Step(p, "begin", f)
  PROVE  ApprovalInv'
<1>1. "begin" \in ApprovalSteps /\ Goto(p, "begin", f)
  BY DEF ApprovalSteps, Step
<1>2. pc'[p] = "begin"
  BY <1>1, Gone DEF ApprovalInv
<1>3. InStep(p)' /\ Relies(p)'
  BY <1>2 DEF InStep, Relies
<1>4. /\ ReadyRow' /\ IsSeq(approvals)' /\ IsSeq(sent)' /\ Approved' /\ Delivered'
      /\ UNCHANGED world /\ DOMAIN row' = DOMAIN row
  BY DEF Step, ApprovalInv, ApprovalTypes, ReadyRow, Approved, Delivered, world
<1> QED BY <1>1, <1>3, <1>4, RunnerKeeps DEF MayRun

LEMMA ClaimKeeps ==
  ASSUME ApprovalInv, NEW w \in Workers, Claim(w)
  PROVE  ApprovalInv'
<1>1. PICK draining \in BOOLEAN :
        Step(w, "begin", [Blank EXCEPT !.approved = row.status = "RETRYABLE_SUBMISSION_FAILURE",
                                       !.allow = ~draining])
  BY DEF Claim
<1> DEFINE f == [Blank EXCEPT !.approved = row.status = "RETRYABLE_SUBMISSION_FAILURE",
                              !.allow = ~draining]
<1>2. DOMAIN f = DOMAIN Blank /\ w \in Procs /\ MayRun
  BY DEF Blank, Procs, Claim
<1> HIDE DEF f
<1> QED BY <1>1, <1>2, EntryKeeps DEF f

LEMMA RetryKeeps ==
  ASSUME ApprovalInv, NEW c \in Clicks, Retry(c)
  PROVE  ApprovalInv'
BY EntryKeeps DEF Retry, Procs

LEMMA OpenReadyKeeps ==
  ASSUME ApprovalInv, NEW c \in Clicks, OpenReady(c)
  PROVE  ApprovalInv'
<1> DEFINE f == [Blank EXCEPT !.approved = TRUE, !.row = row, !.posting = posting]
<1>1. DOMAIN f = DOMAIN Blank /\ f.row = row
  BY DEF Blank
<1>2. c \in Procs /\ row.hash # None
  BY DEF Procs, OpenReady, ApprovalInv, ReadyRow
<1>3. Goto(c, "claim", f)
  BY DEF OpenReady, Step
<1>4. UNCHANGED <<world, row, approvals, ready>> /\ IsSeq(sent)' /\ Delivered'
  BY DEF OpenReady, Step, ApprovalInv, ApprovalTypes, Delivered
<1> HIDE DEF f
<1> QED BY <1>1, <1>2, <1>3, <1>4, AsideKeeps

LEMMA ClaimReadyKeeps ==
  ASSUME ApprovalInv, NEW c \in Clicks, ClaimReady(c)
  PROVE  ApprovalInv'
<1>0. c \in Procs /\ ApprovalTypes /\ pc[c] = "claim" /\ frame[c].row.hash # None
  BY DEF Procs, ApprovalInv, ClaimReady, Relies
<1>1. /\ UNCHANGED <<world, approvals, ready, sent>>
      /\ IsSeq(approvals)' /\ IsSeq(sent)' /\ Approved' /\ Delivered'
  BY DEF ClaimReady, ApprovalInv, ApprovalTypes, Approved, Delivered, world
<1>2. CASE row.status = "SUBMISSION_READY" /\ row' = With("STARTED") /\ Goto(c, "record", frame[c])
  <2>1. "record" \in ApprovalSteps /\ DOMAIN frame[c] = DOMAIN Blank
    BY <1>0 DEF ApprovalSteps, ApprovalTypes
  <2>2. pc'[c] = "record" /\ frame'[c] = frame[c]
    BY <1>0, <1>2, <2>1, Gone
  <2>3. ReadyRow' /\ InStep(c)' /\ Relies(c)'
    BY <1>0, <1>1, <1>2, <2>2, WithStatus DEF ReadyRow, InStep, Relies, ApprovalInv
  <2>4. \A q \in Procs \ {c} : ~InRun(q)
    BY DEF ClaimReady, MayRun
  <2> QED BY <1>0, <1>1, <1>2, <2>1, <2>3, <2>4, WithStatus, RunnerKeeps
<1>3. CASE Goto(c, "idle", Blank) /\ UNCHANGED row
  BY <1>0, <1>1, <1>3, AsideKeeps
<1> QED BY <1>2, <1>3 DEF ClaimReady

LEMMA RecordApprovalKeeps ==
  ASSUME ApprovalInv, NEW c \in Clicks, RecordApproval(c)
  PROVE  ApprovalInv'
<1> DEFINE a == [posting |-> frame[c].posting, hash |-> frame[c].row.hash,
                 answers |-> frame[c].row.answers, form |-> frame[c].row.form,
                 profile |-> profile, supported |-> SubmissionSupported(provider)]
           f == [Blank EXCEPT !.approved = TRUE]
<1>0. c \in Procs /\ ApprovalTypes /\ InRun(c) /\ pc[c] = "record" /\ frame[c].row.hash # None
  BY DEF Procs, ApprovalInv, RecordApproval, InRun, Relies
<1>1. approvals' = Append(approvals, a) /\ Goto(c, "begin", f)
      /\ UNCHANGED <<world, row, sent>>
  BY DEF RecordApproval
<1>2. a.hash = frame[c].row.hash /\ a.profile = profile /\ DOMAIN f = DOMAIN Blank
  BY DEF Blank
<1> HIDE DEF a, f
<1>3. "begin" \in ApprovalSteps
  BY DEF ApprovalSteps
<1>4. pc'[c] = "begin"
  BY <1>0, <1>1, <1>2, <1>3, Gone
<1>5. /\ IsSeq(approvals') /\ DOMAIN approvals' = DOMAIN approvals \cup {Len(approvals) + 1}
      /\ \A i \in DOMAIN approvals : approvals'[i] = approvals[i]
      /\ approvals'[Len(approvals) + 1] = a
  <2>1. DOMAIN Append(approvals, a) = DOMAIN approvals \cup {Len(approvals) + 1}
    BY <1>0, Appended DEF ApprovalTypes
  <2> QED BY <1>0, <1>1, <2>1, Appended DEF ApprovalTypes
<1>6. profile \in Nat /\ profile \in Profiles
  BY <1>0, ApprovalAssumption DEF ApprovalTypes
<1>7. Approved'
  BY <1>0, <1>1, <1>2, <1>5, <1>6 DEF Approved, ApprovalInv, world
<1>8. Delivered' /\ IsSeq(sent)'
  BY <1>1, <1>5 DEF Delivered, ApprovalInv, ApprovalTypes
<1>9. ReadyRow' /\ InStep(c)' /\ Relies(c)' /\ DOMAIN row' = DOMAIN row
  BY <1>0, <1>1, <1>4 DEF ReadyRow, InStep, Relies, ApprovalInv
<1>10. \A q \in Procs \ {c} : ~InRun(q)
  BY <1>0 DEF ApprovalInv, OneRun
<1> QED BY <1>0, <1>1, <1>2, <1>3, <1>5, <1>7, <1>8, <1>9, <1>10, RunnerKeeps

\* The candidate, the analysis and the provider write to nothing of the execution;
\* the mock ATS is never asked in a live browser.
LEMMA WorldKeeps ==
  ASSUME ApprovalInv, World
  PROVE  ApprovalInv'
<1>1. UNCHANGED <<provider, row, approvals, pc, frame, sent, ready>>
  BY DEF World, EditProfile, ReanalyzePosting, ReplaceFile, ChangeForm, RecordVerifiedAnswer, Edit
<1>2. /\ profile' \in Profiles /\ form' \in Forms \cup {None}
      /\ ~ProfileReverts => profile <= profile'
      /\ provider = "mock_ats" => evidence' = {}
  <2>0. /\ profile \in Profiles /\ form \in Forms \cup {None} /\ Profiles \subseteq Nat
        /\ provider = "mock_ats" => evidence = {}
    BY ApprovalAssumption DEF ApprovalInv, ApprovalTypes
  <2>1. CASE \E v \in Profiles : EditProfile(v)
    BY <2>0, <2>1 DEF EditProfile
  <2>2. CASE \E q \in Postings : ReanalyzePosting(q)
    BY <2>0, <2>2 DEF ReanalyzePosting
  <2>3. CASE \E f \in Files \cup {None} : ReplaceFile(f)
    BY <2>0, <2>3 DEF ReplaceFile
  <2>4. CASE \E f \in Forms \cup {None} : ChangeForm(f)
    BY <2>0, <2>4 DEF ChangeForm
  <2>5. CASE \E v \in Evidence : RecordVerifiedAnswer(v)
    BY <2>0, <2>5 DEF RecordVerifiedAnswer
  <2> QED BY <2>1, <2>2, <2>3, <2>4, <2>5 DEF World
<1>3. Profiles \subseteq Nat /\ profile \in Profiles
  BY ApprovalAssumption DEF ApprovalInv, ApprovalTypes
<1>4. ApprovalTypes' /\ OneRun' /\ ReadyRow' /\ Delivered'
  BY <1>1, <1>2 DEF ApprovalInv, ApprovalTypes, OneRun, InRun, ReadyRow, Delivered
<1>5. Approved'
  BY <1>1, <1>2, <1>3 DEF ApprovalInv, Approved
<1>6. ASSUME NEW p \in Procs PROVE InStep(p)' /\ Relies(p)'
  <2>1. InStep(p)'
    BY <1>1 DEF ApprovalInv, InStep
  <2>2. Relies(p)
    BY DEF ApprovalInv
  <2>3. ASSUME ~ProfileReverts, frame[p].profile \in Profiles, frame[p].profile <= profile
        PROVE  frame[p].profile <= profile'
    <3>1. profile <= profile' /\ profile' \in Nat /\ profile \in Nat /\ frame[p].profile \in Nat
      BY <1>2, <1>3, <2>3
    <3> QED BY <2>3, <3>1
  <2>4. Relies(p)'
    BY <1>1, <2>2, <2>3 DEF Relies
  <2> QED BY <2>1, <2>4
<1> QED BY <1>1, <1>2, <1>4, <1>5, <1>6 DEF ApprovalInv

LEMMA InitApproves == Init => ApprovalInv
<1> SUFFICES ASSUME Init PROVE ApprovalInv
  OBVIOUS
<1>1. ApprovalTypes
  <2>1. IsSeq(<< >>)
    BY DEF IsSeq, Range
  <2>2. row = [status |-> "QUEUED", hash |-> None, answers |-> 0, form |-> None]
    BY DEF Init
  <2>3. DOMAIN row = {"status", "hash", "answers", "form"}
    BY <2>2
  <2>4. pc \in [Procs -> ApprovalSteps] /\ DOMAIN frame = Procs
        /\ \A p \in Procs : DOMAIN frame[p] = DOMAIN Blank
    BY DEF Init, ApprovalSteps
  <2> QED BY <2>1, <2>3, <2>4, ApprovalAssumption DEF Init, ApprovalTypes
<1>2. \A p \in Procs : pc[p] = "idle"
  BY DEF Init
<1>3. OneRun /\ \A p \in Procs : InStep(p) /\ Relies(p)
  BY <1>2 DEF OneRun, InRun, InStep, Relies
<1>4. ReadyRow
  BY DEF Init, ReadyRow
<1>5. Approved /\ Delivered
  BY DEF Init, Approved, Delivered
<1> QED BY <1>1, <1>3, <1>4, <1>5 DEF Init, ApprovalInv

LEMMA ApprovalInductive == Spec => []ApprovalInv
<1>1. ASSUME ApprovalInv, [Next]_vars PROVE ApprovalInv'
  <2>1. CASE UNCHANGED vars
    BY <1>1, <2>1 DEF vars, world, ApprovalInv, ApprovalTypes, OneRun, InRun, ReadyRow, InStep,
                      Relies, Approved, Delivered
  <2> QED BY <1>1, <2>1, RunKeeps, DyingKeeps, ClaimKeeps, RetryKeeps, OpenReadyKeeps,
             ClaimReadyKeeps, RecordApprovalKeeps, WorldKeeps DEF Next
<1>2. ApprovalInv /\ [Next]_vars => ApprovalInv'
  BY <1>1
<1> QED BY <1>2, InitApproves, PTL DEF Spec

\* What is sent is what its latest approval covers, whatever changes meanwhile, as
\* long as the candidate takes no edit of the profile back (is_current_valid()).
THEOREM SentIsApproved ==
  ASSUME ~ProfileReverts
  PROVE  Spec => []SentAsApproved
<1>1. ASSUME ApprovalInv PROVE SentAsApproved
  <2> SUFFICES ASSUME NEW i \in DOMAIN sent
               PROVE  /\ sent[i].approval > 0
                      /\ LET a == approvals[sent[i].approval] IN
                         /\ sent[i].posting = a.posting
                         /\ sent[i].profile = a.profile
                         /\ Fingerprint(sent[i].form) = a.form
                         /\ sent[i].verified = a.hash
    BY DEF SentAsApproved
  <2>1. /\ sent[i].approval \in DOMAIN approvals
        /\ Covers(approvals[sent[i].approval], sent[i].posting, sent[i].profile, sent[i].form,
                  sent[i].verified)
    BY <1>1 DEF ApprovalInv, Delivered
  <2>2. DOMAIN approvals = 1..Len(approvals) /\ Len(approvals) \in Nat
    BY <1>1, Appended DEF ApprovalInv, ApprovalTypes
  <2> QED BY <2>1, <2>2 DEF Covers
<1>2. ApprovalInv => SentAsApproved
  BY <1>1
<1> QED BY <1>2, ApprovalInductive, PTL

\* Of any number of tabs that approve at once one records its approval, and only
\* what was made ready since the one before (approve_and_apply()).
THEOREM ApprovedWhenReady == Spec => OneApprovalPerReady
<1>1. ASSUME ApprovalInv, [Next]_vars PROVE [approvals' # approvals => ready]_vars
  <2>1. ASSUME NEW c \in Clicks, RecordApproval(c) PROVE ready
    BY <1>1, <2>1 DEF ApprovalInv, InStep, RecordApproval, Procs
  <2>2. ASSUME NEW p \in Procs, Run(p) \/ Crash(p) PROVE approvals' = approvals
    BY <2>2 DEF Run, Begin, VerifyResume, Discover, Fill, Gate, Submit, Rest, Go, Crash
  <2>3. ASSUME NEW p, Claim(p) \/ Retry(p) \/ OpenReady(p) \/ ClaimReady(p)
        PROVE  approvals' = approvals
    BY <2>3 DEF Claim, Retry, OpenReady, ClaimReady, Step
  <2>4. ASSUME World PROVE approvals' = approvals
    BY <2>4 DEF World, EditProfile, ReanalyzePosting, ReplaceFile, ChangeForm,
                RecordVerifiedAnswer, Edit
  <2>5. CASE UNCHANGED vars
    BY <2>5
  <2> QED BY <1>1, <2>1, <2>2, <2>3, <2>4, <2>5 DEF Next
<1>2. ApprovalInv /\ [Next]_vars => [approvals' # approvals => ready]_vars
  BY <1>1
<1> QED BY <1>2, ApprovalInductive, PTL DEF Spec, OneApprovalPerReady

-----------------------------------------------------------------------------
(* What mapping.py promises of the fields it finds.                        *)

\* Natural numbers that are bounded have a greatest, and any have a least.
LEMMA HasMin ==
  ASSUME NEW S \in SUBSET Nat, S # {}
  PROVE  Min(S) \in S
<1>1. PICK x \in S : \A y \in S : ~(<<y, x>> \in OpToRel(<, Nat))
  BY NatLessThanWellFounded, WFMin
<1>2. ASSUME NEW y \in S PROVE x <= y
  <2>1. ~(y < x)
    BY <1>1 DEF OpToRel
  <2> QED BY <2>1
<1> QED BY <1>2 DEF Min

LEMMA HasMax ==
  ASSUME NEW S \in SUBSET Nat, S # {}, NEW b \in Nat, \A y \in S : y <= b
  PROVE  Max(S) \in S
<1> DEFINE D == {b - y : y \in S}
<1>1. D \in SUBSET Nat /\ D # {}
  <2>1. \A y \in S : b - y \in Nat
    OBVIOUS
  <2> QED BY <2>1
<1>2. PICK d \in D : \A e \in D : ~(<<e, d>> \in OpToRel(<, Nat))
  BY <1>1, NatLessThanWellFounded, WFMin
<1>3. PICK x \in S : d = b - x
  BY <1>2
<1>4. ASSUME NEW y \in S PROVE x >= y
  <2>1. b - y \in D /\ b - y \in Nat /\ d \in Nat
    BY <1>1, <1>2
  <2>2. ~(b - y < d)
    BY <1>2, <2>1 DEF OpToRel
  <2> QED BY <1>3, <2>2
<1> QED BY <1>3, <1>4 DEF Max

\* The fallback never reaches a field that only an exact alias may match: of a
\* finite label the longest alias it contains exists, and so does the first field
\* that has it.
LEMMA FallbackIsNotStrict ==
  ASSUME NEW label, IsFiniteSet(label), TokenOverlapCandidate(label) # None
  PROVE  TokenOverlapCandidate(label) \notin Strict
<1> DEFINE hits == {h \in (DOMAIN FieldOrder) \X UNION {Aliases[f] : f \in Fields} :
                      /\ FieldOrder[h[1]] \notin Strict
                      /\ h[2] \in Aliases[FieldOrder[h[1]]] /\ h[2] \subseteq label}
           lengths == {Cardinality(h[2]) : h \in hits}
           best == {h[1] : h \in {g \in hits : Cardinality(g[2]) = Max(lengths)}}
<1>1. hits # {} /\ TokenOverlapCandidate(label) = FieldOrder[Min(best)]
  BY DEF TokenOverlapCandidate
<1>2. \A h \in hits : h[1] \in DOMAIN FieldOrder /\ FieldOrder[h[1]] \notin Strict /\ h[2] \subseteq label
  OBVIOUS
<1> HIDE DEF hits
<1>3. Cardinality(label) \in Nat /\ \A h \in hits : Cardinality(h[2]) \in Nat /\ Cardinality(h[2]) <= Cardinality(label)
  BY <1>2, FS_CardinalityType, FS_Subset
<1>4. lengths \in SUBSET Nat /\ lengths # {} /\ \A n \in lengths : n <= Cardinality(label)
  BY <1>1, <1>3
<1> HIDE DEF lengths
<1>5. Max(lengths) \in lengths
  BY <1>3, <1>4, HasMax
<1>6. best # {}
  BY <1>5 DEF lengths
<1>7. DOMAIN FieldOrder \subseteq Nat
  BY FormAssumption
<1>8. best \in SUBSET Nat
  BY <1>2, <1>7
<1> HIDE DEF best
<1>9. Min(best) \in best
  BY <1>6, <1>8, HasMin
<1>10. PICK h \in hits : Min(best) = h[1]
  BY <1>9 DEF best
<1> QED BY <1>1, <1>2, <1>10

\* So a strict field is only ever matched by an alias of its own.
LEMMA StrictIsExact ==
  ASSUME NEW q, IsFiniteSet(q.label), MatchField(q).field \in Strict
  PROVE  MatchField(q).confidence \in {"EXACT", "HIGH"}
<1>1. None \notin Strict
  BY FormAssumption DEF Strict
<1>2. CASE AliasIndex(q.label) # None
  BY <1>2 DEF MatchField
<1>3. CASE AliasIndex(q.label) = None /\ q.name # {} /\ AliasIndex(q.name) # None
  BY <1>3 DEF MatchField
<1>4. CASE /\ AliasIndex(q.label) = None /\ ~(q.name # {} /\ AliasIndex(q.name) # None)
           /\ TokenOverlapCandidate(q.label) # None
  <2>1. MatchField(q).field = TokenOverlapCandidate(q.label)
    BY <1>4 DEF MatchField
  <2> QED BY <1>4, <2>1, FallbackIsNotStrict
<1>5. CASE /\ AliasIndex(q.label) = None /\ ~(q.name # {} /\ AliasIndex(q.name) # None)
           /\ TokenOverlapCandidate(q.label) = None
  <2>1. MatchField(q).field = None
    BY <1>5 DEF MatchField
  <2> QED BY <1>1, <2>1
<1> QED BY <1>2, <1>3, <1>4, <1>5

\* A question with choices is answered with one of them or not at all.
LEMMA FilledFromChoices ==
  ASSUME NEW q, NEW r, FillValue(q, r) # None, q.choices # {}, q.input # "file"
  PROVE  FillValue(q, r) \in q.choices
<1>1. CASE r.value = None
  <2>1. q.choices \cap Declining # {}
    BY <1>1 DEF FillValue
  <2>2. FillValue(q, r) = CHOOSE c \in q.choices \cap Declining : TRUE
    BY <1>1 DEF FillValue
  <2> QED BY <2>1, <2>2
<1>2. CASE r.value # None
  BY <1>2 DEF FillValue
<1> QED BY <1>1, <1>2

\* Nothing that is sent is guessed: a required question has an answer, an answer is
\* one of the offered choices, and a strict field is answered only where its own
\* alias asks for it (mapping.py, mock_ats.py).
THEOREM NothingIsGuessed == Spec => []SentAnswered
<1>1. ASSUME ApprovalInv PROVE SentAnswered
  <2> SUFFICES ASSUME NEW i \in DOMAIN sent, NEW q \in sent[i].form.questions
               PROVE  LET m == MatchField(q)
                          value == sent[i].draft[q]
                      IN /\ q.required => value # None
                         /\ value # None /\ q.choices # {} /\ q.input # "file" =>
                              value \in q.choices
                         /\ value # None /\ m.field \in Strict => m.confidence \in {"EXACT", "HIGH"}
    BY DEF SentAnswered
  <2> DEFINE s == sent[i]
             answers == ApplicationFields(ProfileAt[s.profile], s.verified)
  <2>1. /\ s.form \in Forms /\ Unresolved(s.form, s.draft) = {}
        /\ s.draft = FillDraft("mock_ats", s.form, answers, {})
    BY <1>1 DEF ApprovalInv, Delivered, Answered
  <2>2. s.draft[q] = FillValue(q, ResolvedBy("mock_ats", q, answers, {}))
    BY <2>1 DEF FillDraft
  <2>3. IsFiniteSet(q.label)
    BY <2>1, ApprovalAssumption
  <2>4. q.required => s.draft[q] # None
    BY <2>1 DEF Unresolved
  <2>5. s.draft[q] # None /\ q.choices # {} /\ q.input # "file" => s.draft[q] \in q.choices
    BY <2>2, FilledFromChoices
  <2>6. MatchField(q).field \in Strict => MatchField(q).confidence \in {"EXACT", "HIGH"}
    BY <2>3, StrictIsExact
  <2> QED BY <2>4, <2>5, <2>6
<1>2. ApprovalInv => SentAnswered
  BY <1>1
<1> QED BY <1>2, ApprovalInductive, PTL

\* Where the manifest reports nothing unanswered, the pipeline fills an answer to
\* every required question, but where the choice is offered in another case: the
\* mock ATS reads no evidence, and never gets any (presubmit_manifest.py).
THEOREM ManifestIsHonest == Spec => []ManifestHonest
<1>1. ASSUME ApprovalInv PROVE ManifestHonest
  <2> DEFINE answers == ApplicationFields(ProfileAt[profile], file)
             known == {v \in evidence : v.jd = posting.jd}
             R(q) == ResolvedBy(provider, q, answers, known)
  <2> SUFFICES ASSUME form # None, UnansweredRequired(form, answers, known) = {},
                      NEW q \in Unresolved(form, FillDraft(provider, form, answers, known))
               PROVE  \E c \in q.choices : R(q).value # None /\ Fold[c] = Fold[R(q).value]
    BY DEF ManifestHonest
  <2>1. /\ q \in form.questions /\ q.required
        /\ FillValue(q, R(q)) = None
    BY DEF Unresolved, FillDraft
  <2>2. R(q) = ResolvedWith(q, answers, known)
    <3>1. CASE provider = "mock_ats"
      <4>1. evidence = {}
        BY <1>1, <3>1 DEF ApprovalInv
      <4>2. ResolvedWith(q, answers, known) = Resolved(q, answers)
        BY <4>1 DEF ResolvedWith
      <4> QED BY <3>1, <4>2 DEF ResolvedBy
    <3>2. CASE provider # "mock_ats"
      BY <3>2 DEF ResolvedBy
    <3> QED BY <3>1, <3>2
  <2>3. SafeAnswer(q, R(q))
    BY <2>1, <2>2 DEF UnansweredRequired
  <2> HIDE DEF R
  <2>4. R(q).value # None
    BY <2>3 DEF SafeAnswer
  <2>5. q.input # "file" /\ q.choices # {}
    BY <2>1, <2>4 DEF FillValue
  <2> QED BY <2>3, <2>4, <2>5 DEF SafeAnswer
<1>2. ApprovalInv => ManifestHonest
  BY <1>1
<1> QED BY <1>2, ApprovalInductive, PTL

-----------------------------------------------------------------------------
(* The bound on the submissions of one application.                        *)

\* The statuses in which no further submission may begin.
Spent == Ended \cup {"SUBMISSION_STATUS_UNKNOWN", "SUBMITTING"}

\* What the row and the world hold.
DataTypes ==
  /\ posting \in Postings /\ file \in Files \cup {None}
  /\ row.status \in Statuses /\ row.hash \in Files \cup {None}
  /\ row.answers \in 0..Len(FieldOrder)

\* A submission begins only from a status that leaves an attempt, and the count is
\* ahead of it.
Budget ==
  /\ attempts \in 0..MaxAttempts
  /\ row.status \in Spent \/ attempts < MaxAttempts
  /\ Len(sent) <= attempts
  /\ \A p \in Procs : pc[p] = "submit" => Len(sent) < attempts
  /\ Len(approvals) <= MaxApprovals

BudgetInv == ApprovalInv /\ DataTypes /\ Budget

\* There are as many canonical fields as the list has entries, or fewer.
LEMMA AnswersCounted ==
  ASSUME NEW answers
  PROVE  AnswersVersion(answers) \in 0..Len(FieldOrder)
<1> DEFINE S == {f \in Fields : answers[f] # None}
           n == Len(FieldOrder)
<1>1. FieldOrder \in Seq(Fields) /\ n \in Nat /\ DOMAIN FieldOrder = 1..n
  BY FormAssumption
<1>2. FieldOrder \in Surjection(1..n, Fields)
  BY <1>1 DEF Surjection, Fields, Range
<1>3. IsFiniteSet(1..n) /\ Cardinality(1..n) = n
  BY <1>1, FS_Interval
<1>4. IsFiniteSet(Fields) /\ Cardinality(Fields) <= n
  BY <1>2, <1>3, FS_Surjection
<1>5. IsFiniteSet(S) /\ Cardinality(S) <= Cardinality(Fields)
  BY <1>4, FS_Subset
<1>6. Cardinality(S) \in Nat /\ Cardinality(Fields) \in Nat
  BY <1>4, <1>5, FS_CardinalityType
<1> QED BY <1>1, <1>4, <1>5, <1>6 DEF AnswersVersion

\* A step that submits nothing and begins no submission keeps the count, if it
\* leaves a status from which no other begins or that left an attempt before.
LEMMA BudgetKept ==
  ASSUME BudgetInv, NEW p \in Procs, NEW step \in ApprovalSteps \ {"submit"}, NEW f,
         DOMAIN f = DOMAIN Blank, Goto(p, step, f), attempts' = attempts, sent' = sent,
         row'.status \in Spent \/ row.status \notin Spent,
         Len(approvals') <= MaxApprovals
  PROVE  Budget'
<1>1. \A q \in Procs : pc'[q] = "submit" => pc[q] = "submit"
  BY Gone DEF BudgetInv, ApprovalInv
<1> QED BY <1>1 DEF BudgetInv, Budget

\* How a run writes its row and goes on or ends.
LEMMA RunWrites ==
  ASSUME BudgetInv, NEW p \in Procs, NEW r,
         \/ Rest(p, r)
         \/ \E step \in ApprovalSteps \ {"submit"} : \E f :
              DOMAIN f = DOMAIN Blank /\ Go(p, r, step, f),
         attempts' = attempts, sent' = sent,
         r.status \in Statuses, r.hash \in Files \cup {None}, r.answers \in 0..Len(FieldOrder),
         r.status \in Spent \/ row.status \notin Spent
  PROVE  DataTypes' /\ Budget'
<1>1. row' = r /\ UNCHANGED <<world, approvals>>
  BY DEF Rest, Go
<1>2. DataTypes'
  BY <1>1 DEF BudgetInv, DataTypes, world
<1>3. PICK step \in ApprovalSteps \ {"submit"} : \E f : DOMAIN f = DOMAIN Blank /\ Goto(p, step, f)
  BY DEF Rest, Go, ApprovalSteps
<1>4. Budget'
  BY <1>1, <1>3, BudgetKept DEF BudgetInv, Budget
<1> QED BY <1>2, <1>4

\* The fields a new status leaves alone.
LEMMA WithTypes ==
  ASSUME BudgetInv, NEW s \in Statuses
  PROVE  /\ With(s).status = s /\ With(s).hash \in Files \cup {None}
         /\ With(s).answers \in 0..Len(FieldOrder)
BY DEF With, BudgetInv, DataTypes, ApprovalInv, ApprovalTypes

LEMMA RunBudget ==
  ASSUME BudgetInv, NEW p \in Procs, Begin(p) \/ VerifyResume(p) \/ Discover(p) \/ Fill(p)
  PROVE  DataTypes' /\ Budget'
<1>0. /\ ApprovalTypes /\ DataTypes /\ InStep(p) /\ DOMAIN frame[p] = DOMAIN Blank
      /\ attempts' = attempts /\ sent' = sent
  BY DEF BudgetInv, ApprovalInv, ApprovalTypes, Begin, VerifyResume, Discover, Fill
<1>1. /\ {"verify", "discover", "fill", "gate"} \subseteq ApprovalSteps \ {"submit"}
      /\ {"STARTED", "VALIDATION_REQUIRED", "FORM_DISCOVERED", "FORM_FILLED", "NEEDS_USER_ACTION",
          "SUBMISSION_READY"} \cap Spent = {}
      /\ {"STARTED", "VALIDATION_REQUIRED", "FORM_DISCOVERED", "FORM_FILLED", "NEEDS_USER_ACTION",
          "SUBMISSION_READY", "SUBMISSION_STATUS_UNKNOWN", "PERMANENT_SUBMISSION_FAILURE"}
           \subseteq Statuses
      /\ {"SUBMISSION_STATUS_UNKNOWN", "PERMANENT_SUBMISSION_FAILURE"} \subseteq Spent
  BY DEF ApprovalSteps, Spent, Ended, Statuses, Claimable
<1>2. CASE Begin(p)
  <2>1. CASE Rest(p, row)
    BY <1>0, <2>1, RunWrites DEF DataTypes
  <2>2. CASE Rest(p, With("SUBMISSION_STATUS_UNKNOWN"))
    BY <1>0, <1>1, <2>2, WithTypes, RunWrites
  <2> DEFINE f == [frame[p] EXCEPT !.row = row, !.posting = posting]
  <2>3. CASE row.status \notin Spent /\ Go(p, With("STARTED"), "verify", f)
    <3>1. DOMAIN f = DOMAIN Blank
      BY <1>0
    <3> HIDE DEF f
    <3> QED BY <1>0, <1>1, <2>3, <3>1, WithTypes, RunWrites
  <2> QED BY <1>2, <2>1, <2>2, <2>3 DEF Begin, Spent
<1>3. CASE VerifyResume(p)
  <2>0. row.status = "STARTED"
    BY <1>0, <1>3 DEF VerifyResume, InStep
  <2>1. CASE Rest(p, With("PERMANENT_SUBMISSION_FAILURE"))
    BY <1>0, <1>1, <2>1, WithTypes, RunWrites
  <2>2. CASE Rest(p, [row EXCEPT !.status = "VALIDATION_REQUIRED", !.hash = file])
    <3> DEFINE r == [row EXCEPT !.status = "VALIDATION_REQUIRED", !.hash = file]
    <3>1. r.status = "VALIDATION_REQUIRED" /\ r.hash = file /\ r.answers = row.answers
      BY <1>0 DEF ApprovalTypes
    <3> HIDE DEF r
    <3> QED BY <1>0, <1>1, <2>0, <2>2, <3>1, RunWrites DEF r, DataTypes
  <2> DEFINE r == [row EXCEPT !.hash = IF frame[p].row.hash = None THEN file ELSE @]
             f == [frame[p] EXCEPT !.digest = file, !.profile = profile]
  <2>3. CASE Go(p, r, "discover", f)
    <3>1. DOMAIN f = DOMAIN Blank
      BY <1>0
    <3>2. r.status = "STARTED" /\ r.hash \in Files \cup {None} /\ r.answers = row.answers
      BY <1>0, <2>0 DEF ApprovalTypes, DataTypes
    <3> HIDE DEF f, r
    <3> QED BY <1>0, <1>1, <2>0, <2>3, <3>1, <3>2, RunWrites DEF DataTypes
  <2> QED BY <1>3, <2>1, <2>2, <2>3 DEF VerifyResume
<1>4. CASE Discover(p)
  <2>0. row.status = "STARTED"
    BY <1>0, <1>4 DEF Discover, InStep
  <2> DEFINE seen == [row EXCEPT !.status = "FORM_DISCOVERED", !.form = Fingerprint(form),
                                 !.answers = AnswersVersion(Answers(p))]
             f == [frame[p] EXCEPT !.form = form]
  <2>1. /\ seen.status = "FORM_DISCOVERED" /\ seen.hash = row.hash
        /\ seen.answers \in 0..Len(FieldOrder) /\ DOMAIN seen = DOMAIN row
    BY <1>0, AnswersCounted DEF ApprovalTypes
  <2>2. DOMAIN f = DOMAIN Blank
    BY <1>0
  <2> HIDE DEF f, seen
  <2>3. CASE Rest(p, [seen EXCEPT !.status = "NEEDS_USER_ACTION"])
    <3> DEFINE r == [seen EXCEPT !.status = "NEEDS_USER_ACTION"]
    <3>1. r.status = "NEEDS_USER_ACTION" /\ r.hash = row.hash /\ r.answers = seen.answers
      BY <1>0, <2>1 DEF ApprovalTypes
    <3> HIDE DEF r
    <3> QED BY <1>0, <1>1, <2>0, <2>1, <2>3, <3>1, RunWrites DEF r, DataTypes
  <2>4. CASE Go(p, seen, "fill", f)
    BY <1>0, <1>1, <2>0, <2>1, <2>2, <2>4, RunWrites DEF DataTypes
  <2> QED BY <1>4, <2>3, <2>4 DEF Discover, f, seen
<1>5. CASE Fill(p)
  <2>0. row.status = "FORM_DISCOVERED"
    BY <1>0, <1>5 DEF Fill, InStep
  <2> DEFINE draft == IF frame[p].form = None THEN <<>>
                      ELSE FillDraft(provider, frame[p].form, Answers(p), Current(p))
             f == [frame[p] EXCEPT !.draft = draft]
  <2>1. DOMAIN f = DOMAIN Blank
    BY <1>0
  <2>2. \/ Rest(p, With("NEEDS_USER_ACTION")) \/ Rest(p, With("SUBMISSION_READY"))
        \/ Go(p, With("FORM_FILLED"), "gate", f)
    BY <1>5 DEF Fill
  <2> HIDE DEF f
  <2> QED BY <1>0, <1>1, <2>0, <2>1, <2>2, WithTypes, RunWrites
<1> QED BY <1>2, <1>3, <1>4, <1>5

\* The attempt is counted before the submission begins (executor.py).
LEMMA GateBudget ==
  ASSUME BudgetInv, NEW p \in Procs, Gate(p)
  PROVE  DataTypes' /\ Budget'
<1>0. /\ ApprovalTypes /\ DataTypes /\ Budget /\ sent' = sent
      /\ pc[p] = "gate" /\ row.status = "FORM_FILLED"
  BY DEF BudgetInv, ApprovalInv, InStep, Gate
<1>1. "FORM_FILLED" \notin Spent
  BY DEF Spent, Ended
<1>2. ASSUME NEW s \in Statuses, Rest(p, With(s)), attempts' = attempts
      PROVE  DataTypes' /\ Budget'
  BY <1>0, <1>1, <1>2, WithTypes, RunWrites
<1>3. {"JOB_NO_LONGER_ACTIVE", "NEEDS_USER_ACTION", "DUPLICATE_APPLICATION_BLOCKED", "APPROVED",
       "SUBMISSION_READY", "SUBMITTING"} \subseteq Statuses
  BY DEF Statuses, Ended, Claimable
<1> DEFINE f == [frame[p] EXCEPT !.posting = posting]
<1>4. CASE attempts' = attempts + 1 /\ Go(p, With("SUBMITTING"), "submit", f)
  <2>1. DOMAIN f = DOMAIN Blank /\ "submit" \in ApprovalSteps
    BY <1>0 DEF ApprovalTypes, ApprovalSteps
  <2>2. attempts < MaxAttempts /\ MaxAttempts \in Nat
    BY <1>0, <1>1, ApprovalAssumption DEF Budget
  <2>3. row' = With("SUBMITTING") /\ UNCHANGED <<world, approvals>>
    BY <1>4 DEF Go
  <2>4. DataTypes' /\ row'.status \in Spent
    BY <1>0, <1>3, <2>3, WithTypes DEF DataTypes, world, Spent
  <2>5. Len(sent) <= attempts /\ Len(sent) \in Nat
    BY <1>0, Appended DEF Budget, ApprovalTypes
  <2>6. Budget'
    BY <1>0, <1>4, <2>2, <2>3, <2>4, <2>5 DEF Budget
  <2> QED BY <2>4, <2>6
<1> QED BY <1>2, <1>3, <1>4 DEF Gate

\* What is sent is counted already; nobody else is about to send.
LEMMA SentCounted ==
  ASSUME BudgetInv, NEW p \in Procs, pc[p] = "submit", Goto(p, "idle", Blank),
         sent' \in {sent, Sent(p)}, attempts' = attempts
  PROVE  /\ Len(sent') <= attempts
         /\ \A q \in Procs : pc'[q] # "submit"
<1>1. ApprovalTypes /\ OneRun /\ "idle" \in ApprovalSteps
  BY DEF BudgetInv, ApprovalInv, ApprovalSteps
<1>2. \A q \in Procs : pc'[q] # "submit"
  BY <1>1, Gone DEF OneRun, InRun
<1>3. Len(Sent(p)) = Len(sent) + 1 /\ Len(sent) \in Nat
  BY <1>1, Appended DEF Sent, ApprovalTypes
<1>4. Len(sent) < attempts /\ attempts \in Nat
  BY DEF BudgetInv, Budget
<1> QED BY <1>2, <1>3, <1>4

LEMMA SubmitBudget ==
  ASSUME BudgetInv, NEW p \in Procs, Submit(p)
  PROVE  DataTypes' /\ Budget'
<1>0. DataTypes /\ Budget /\ pc[p] = "submit"
  BY DEF BudgetInv, Submit
<1>1. PICK s \in {"APPLIED", "SUBMISSION_STATUS_UNKNOWN", "RETRYABLE_SUBMISSION_FAILURE",
                  "PERMANENT_SUBMISSION_FAILURE"} :
        /\ s = "RETRYABLE_SUBMISSION_FAILURE" => attempts < MaxAttempts
        /\ Rest(p, With(s))
  BY DEF Submit
<1>2. s \in Statuses /\ (s \in Spent \/ s = "RETRYABLE_SUBMISSION_FAILURE")
  BY <1>1 DEF Statuses, Ended, Claimable, Spent
<1>3. /\ row' = With(s) /\ Goto(p, "idle", Blank) /\ UNCHANGED <<world, approvals>>
      /\ sent' = Sent(p) /\ attempts' = attempts
  BY <1>1 DEF Rest, Submit
<1>4. DataTypes' /\ row'.status = s
  BY <1>0, <1>2, <1>3, WithTypes DEF DataTypes, world
<1>5. Budget'
  BY <1>0, <1>1, <1>2, <1>3, <1>4, SentCounted DEF Budget
<1> QED BY <1>4, <1>5

LEMMA CrashBudget ==
  ASSUME BudgetInv, NEW p \in Procs, Crash(p)
  PROVE  DataTypes' /\ Budget'
<1>0. /\ DataTypes /\ Budget /\ Goto(p, "idle", Blank) /\ "idle" \in ApprovalSteps \ {"submit"}
      /\ UNCHANGED <<world, row, approvals, attempts>>
  BY DEF BudgetInv, Crash, ApprovalSteps
<1>1. DataTypes'
  BY <1>0 DEF DataTypes, world
<1>2. CASE pc[p] = "submit"
  <2>1. sent' \in {sent, Sent(p)}
    BY <1>2 DEF Crash
  <2> QED BY <1>0, <1>1, <1>2, <2>1, SentCounted DEF Budget
<1>3. CASE pc[p] # "submit"
  <2>1. sent' = sent
    BY <1>3 DEF Crash
  <2>2. row'.status \in Spent \/ row.status \notin Spent
    BY <1>0
  <2> QED BY <1>0, <1>1, <2>1, <2>2, BudgetKept DEF Budget
<1> QED BY <1>2, <1>3

\* A request or a worker on its way into a run.
LEMMA EntryBudget ==
  ASSUME BudgetInv, NEW p \in Procs, Claim(p) \/ Retry(p) \/ OpenReady(p) \/ ClaimReady(p) \/ RecordApproval(p)
  PROVE  DataTypes' /\ Budget'
<1>0. /\ DataTypes /\ Budget /\ ApprovalTypes /\ DOMAIN frame[p] = DOMAIN Blank
      /\ UNCHANGED <<world, attempts, sent>>
  BY DEF BudgetInv, ApprovalInv, ApprovalTypes, Claim, Retry, OpenReady, ClaimReady,
         RecordApproval, Step
<1>1. {"idle", "claim", "record", "begin"} \subseteq ApprovalSteps \ {"submit"}
  BY DEF ApprovalSteps
<1>2. PICK step \in ApprovalSteps \ {"submit"} : \E f : DOMAIN f = DOMAIN Blank /\ Goto(p, step, f)
  <2>1. CASE Claim(p)
    <3>1. PICK draining \in BOOLEAN :
            Goto(p, "begin", [Blank EXCEPT !.approved = row.status = "RETRYABLE_SUBMISSION_FAILURE",
                                           !.allow = ~draining])
      BY <2>1 DEF Claim, Step
    <3>2. DOMAIN [Blank EXCEPT !.approved = row.status = "RETRYABLE_SUBMISSION_FAILURE",
                               !.allow = ~draining] = DOMAIN Blank
      BY DEF Blank
    <3> QED BY <1>1, <3>1, <3>2
  <2>2. CASE Retry(p)
    BY <1>1, <2>2 DEF Retry, Step
  <2>3. CASE OpenReady(p)
    <3>1. DOMAIN [Blank EXCEPT !.approved = TRUE, !.row = row, !.posting = posting] = DOMAIN Blank
      BY DEF Blank
    <3> QED BY <1>1, <2>3, <3>1 DEF OpenReady, Step
  <2>4. CASE ClaimReady(p)
    BY <1>0, <1>1, <2>4 DEF ClaimReady
  <2>5. CASE RecordApproval(p)
    <3>1. DOMAIN [Blank EXCEPT !.approved = TRUE] = DOMAIN Blank
      BY DEF Blank
    <3> QED BY <1>1, <2>5, <3>1 DEF RecordApproval
  <2> QED BY <2>1, <2>2, <2>3, <2>4, <2>5
<1>3. Len(approvals') <= MaxApprovals
  <2>1. CASE RecordApproval(p)
    <3>1. PICK a : approvals' = Append(approvals, a)
      BY <2>1 DEF RecordApproval
    <3>2. Len(approvals') = Len(approvals) + 1 /\ Len(approvals) \in Nat
      BY <1>0, <3>1, Appended DEF ApprovalTypes
    <3> QED BY <2>1, <3>2, ApprovalAssumption DEF RecordApproval
  <2>2. CASE approvals' = approvals
    BY <1>0, <2>2 DEF Budget
  <2> QED BY <2>1, <2>2 DEF Claim, Retry, OpenReady, ClaimReady, Step
<1>4. /\ DataTypes'
      /\ row'.status \in Spent \/ row.status \notin Spent
  <2>1. CASE UNCHANGED row
    BY <1>0, <2>1 DEF DataTypes, world
  <2>2. CASE row.status = "SUBMISSION_READY" /\ row' = With("STARTED")
    <3>1. "STARTED" \in Statuses /\ "SUBMISSION_READY" \notin Spent
      BY DEF Statuses, Claimable, Spent, Ended
    <3> QED BY <1>0, <2>2, <3>1, WithTypes DEF DataTypes, world
  <2> QED BY <2>1, <2>2 DEF Claim, Retry, OpenReady, ClaimReady, RecordApproval, Step
<1> QED BY <1>0, <1>2, <1>3, <1>4, BudgetKept

LEMMA WorldBudget ==
  ASSUME BudgetInv, World
  PROVE  DataTypes' /\ Budget'
<1>1. UNCHANGED <<row, approvals, attempts, pc, sent>>
  BY DEF World, EditProfile, ReanalyzePosting, ReplaceFile, ChangeForm, RecordVerifiedAnswer, Edit
<1>2. posting' \in Postings /\ file' \in Files \cup {None}
  BY DEF BudgetInv, DataTypes, World, EditProfile, ReanalyzePosting, ReplaceFile, ChangeForm,
         RecordVerifiedAnswer
<1> QED BY <1>1, <1>2 DEF BudgetInv, DataTypes, Budget

\* However often it is retried, approved again or cut off, an application is sent at
\* most MaxAttempts times: executor.py counts an attempt before it submits and
\* retries only while the count leaves one.  Every variable keeps its type.
THEOREM AttemptsAreLimited ==
  ASSUME MaxAttempts > 0
  PROVE  Spec => []TypeOK
<1>1. Init => BudgetInv
  <2> SUFFICES ASSUME Init PROVE BudgetInv
    OBVIOUS
  <2>1. row = [status |-> "QUEUED", hash |-> None, answers |-> 0, form |-> None]
    BY DEF Init
  <2>2. /\ posting \in Postings /\ file \in Files /\ attempts = 0 /\ sent = << >>
        /\ approvals = << >> /\ pc = [p \in Procs |-> "idle"]
    BY DEF Init
  <2>3. Len(FieldOrder) \in Nat
    BY FormAssumption
  <2>4. "QUEUED" \in Statuses
    BY DEF Statuses, Claimable
  <2>5. DataTypes
    BY <2>1, <2>2, <2>3, <2>4 DEF DataTypes
  <2>6. Budget
    BY <2>2, ApprovalAssumption DEF Budget
  <2> QED BY <2>5, <2>6, InitApproves DEF BudgetInv
<1>2. ASSUME BudgetInv, [Next]_vars PROVE DataTypes' /\ Budget'
  <2>1. CASE UNCHANGED vars
    BY <1>2, <2>1 DEF vars, world, BudgetInv, DataTypes, Budget
  <2>2. ASSUME NEW p \in Procs, Run(p) \/ Crash(p) PROVE DataTypes' /\ Budget'
    BY <1>2, <2>2, RunBudget, GateBudget, SubmitBudget, CrashBudget DEF Run
  <2>3. Workers \subseteq Procs /\ Clicks \subseteq Procs
    BY DEF Procs
  <2> QED BY <1>2, <2>1, <2>2, <2>3, EntryBudget, WorldBudget DEF Next
<1>3. ApprovalInv /\ DataTypes /\ Budget /\ [Next]_vars => (DataTypes /\ Budget)'
  BY <1>2 DEF BudgetInv
<1>4. ApprovalInv /\ DataTypes /\ Budget => TypeOK
  <2> SUFFICES ASSUME ApprovalInv, DataTypes, Budget PROVE TypeOK
    OBVIOUS
  <2>1. Len(sent) \in Nat /\ MaxAttempts \in Nat
    BY Appended, ApprovalAssumption DEF ApprovalInv, ApprovalTypes
  <2> QED BY <2>1 DEF ApprovalInv, ApprovalTypes, DataTypes, Budget, TypeOK
<1>5. Init => DataTypes /\ Budget
  BY <1>1 DEF BudgetInv
<1> QED BY <1>3, <1>4, <1>5, ApprovalInductive, PTL DEF Spec
=============================================================================

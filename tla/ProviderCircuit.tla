--------------------------- MODULE ProviderCircuit ---------------------------
(***************************************************************************)
(* One row of a provider circuit table and what each statement does to it. *)
(* The submission breaker (applications/circuit.py) and the discovery      *)
(* breaker (workers/circuit.py) have the same mechanics on tables of their *)
(* own, with thresholds of their own; each operation is one transaction.   *)
(***************************************************************************)
EXTENDS Naturals

CONSTANTS
  TripAfter,     \* APPLICATION_CIRCUIT_CONSECUTIVE_TRIP_THRESHOLD
  MinAttempts,   \* _MIN_ATTEMPTS_BEFORE_TRIP
  WindowSize,    \* _WINDOW_SIZE
  TripPercent,   \* APPLICATION_CIRCUIT_BREAKER_FAILURE_THRESHOLD, in percent
  SlotLimit      \* APPLICATION_PROVIDER_CONCURRENCY_DEFAULT

ASSUME CircuitAssumption ==
  /\ TripAfter \in Nat \ {0} /\ MinAttempts \in Nat /\ WindowSize \in Nat \ {0}
  /\ TripPercent \in 0..100
  /\ SlotLimit \in Nat

\* consecutive_failures is compared with TripAfter only: counted no further.
Rows ==
  [state : {"CLOSED", "OPEN", "HALF_OPEN"},
   cooled : BOOLEAN,             \* the cooldown since opened_at has elapsed
   failures : 0..TripAfter,      \* consecutive_failures
   attempts : 0..WindowSize,     \* window_attempts
   failed : 0..WindowSize,       \* window_failures
   probing : BOOLEAN,            \* half_open_inflight
   slots : 0..SlotLimit]         \* inflight

\* _ensure_row()
NewRow ==
  [state |-> "CLOSED", cooled |-> FALSE, failures |-> 0, attempts |-> 0, failed |-> 0,
   probing |-> FALSE, slots |-> 0]

-----------------------------------------------------------------------------
\* may_attempt(): whether the row lets an attempt through ...
Admits(r) ==
  \/ r.state = "CLOSED"
  \/ r.state = "OPEN" /\ r.cooled
  \/ r.state = "HALF_OPEN" /\ ~r.probing

\* ... and the row once it did: unless CLOSED, the attempt is now the one probe.
Admitted(r) ==
  IF r.state = "CLOSED" THEN r ELSE [r EXCEPT !.state = "HALF_OPEN", !.probing = TRUE]

OneMore(failures) == IF failures < TripAfter THEN failures + 1 ELSE TripAfter

\* force_close(), and what a successful probe does.
ForceClose(r) ==
  [r EXCEPT !.state = "CLOSED", !.cooled = FALSE, !.failures = 0, !.attempts = 0,
            !.failed = 0, !.probing = FALSE]

\* A failed probe.
Reopen(r) ==
  [r EXCEPT !.state = "OPEN", !.cooled = FALSE, !.probing = FALSE, !.failures = OneMore(@)]

\* The row with one more result in it; a full window starts over.
Sampled(r, success) ==
  LET full == r.attempts + 1 >= WindowSize IN
  [r EXCEPT !.failures = IF success THEN 0 ELSE OneMore(@),
            !.attempts = IF full THEN 0 ELSE @ + 1,
            !.failed = IF full THEN 0 ELSE IF success THEN @ ELSE @ + 1]

\* Enough failures in a row, or too many in the window with this result in it.
ShouldTrip(r, success) ==
  LET attempts == r.attempts + 1
      failed == IF success THEN r.failed ELSE r.failed + 1 IN
  \/ ~success /\ OneMore(r.failures) >= TripAfter
  \/ attempts >= MinAttempts /\ failed * 100 >= TripPercent * attempts

\* MUTANT: only the failure rate trips the breaker.
RecordResultByRate(r, success) ==
  IF r.state = "HALF_OPEN" THEN (IF success THEN ForceClose(r) ELSE Reopen(r))
  ELSE IF r.state = "CLOSED" /\ r.attempts + 1 >= MinAttempts /\ ShouldTrip(r, success)
       THEN [Sampled(r, success) EXCEPT !.state = "OPEN", !.cooled = FALSE]
       ELSE Sampled(r, success)

\* record_result()
RecordResult(r, success) ==
  IF r.state = "HALF_OPEN" THEN (IF success THEN ForceClose(r) ELSE Reopen(r))
  ELSE IF r.state = "CLOSED" /\ ShouldTrip(r, success)
       THEN [Sampled(r, success) EXCEPT !.state = "OPEN", !.cooled = FALSE]
       ELSE Sampled(r, success)

\* release_half_open_probe(): whoever the probe is.
ReleaseHalfOpenProbe(r) == [r EXCEPT !.probing = FALSE]

\* acquire_inflight_slot() succeeds while a slot is free ...
HasSlot(r) == r.slots < SlotLimit
AcquireInflightSlot(r) == [r EXCEPT !.slots = @ + 1]

\* ... and release_inflight_slot() gives one back, never below zero.
ReleaseInflightSlot(r) == [r EXCEPT !.slots = IF @ = 0 THEN 0 ELSE @ - 1]

\* force_probe(): no cooldown for an OPEN circuit; nothing otherwise.
ForceProbe(r) ==
  IF r.state = "OPEN" THEN [r EXCEPT !.state = "HALF_OPEN", !.probing = FALSE] ELSE r
=============================================================================

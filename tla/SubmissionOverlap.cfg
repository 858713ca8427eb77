SPECIFICATION Spec
CONSTANTS
  None = None
  Jobs = {j1}
  Executions = {e1}
  Workers = {w1}
  Clicks = {c1}
  Modes = {"ASSIST"}
  MaxAttempts = 1
  Slots = 1
  AttemptCap = 2
  MaxFaults = 1
  Sponsorships = {"CONFIRMED_SPONSOR"}
  TrackerTargets = {}
  Regenerated = {}
  LeaseMayLapse = TRUE
  ClicksOverlap = TRUE
CHECK_DEADLOCK FALSE
INVARIANTS NothingUnapproved
PROPERTIES EndedForGood LiveLeaseKept

SPECIFICATION Spec
CONSTANTS
  None = None
  Jobs = {j1}
  Executions = {e1}
  Workers = {w1}
  Clicks = {c1}
  Modes = {"ASSIST", "AUTO_PERMITTED"}
  MaxAttempts = 1
  Slots = 1
  AttemptCap = 2
  MaxFaults = 0
  Sponsorships = {"CONFIRMED_SPONSOR"}
  TrackerTargets = {}
  Regenerated = {}
  LeaseMayLapse = FALSE
  ClicksOverlap = TRUE
CHECK_DEADLOCK FALSE
INVARIANTS NoSecondSubmission

SPECIFICATION Spec
CONSTANTS
  None = None
  Jobs = {j1}
  Executions = {e1, e2}
  Workers = {}
  Clicks = {c1}
  Modes = {"ASSIST", "AUTO_PERMITTED"}
  MaxAttempts = 1
  Slots = 1
  AttemptCap = 2
  MaxFaults = 0
  Sponsorships = {"CONFIRMED_SPONSOR"}
  TrackerTargets = {}
  Regenerated = {j1}
  LeaseMayLapse = FALSE
  ClicksOverlap = FALSE
CHECK_DEADLOCK FALSE
INVARIANTS OneApplicationPerJob

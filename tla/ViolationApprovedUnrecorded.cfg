SPECIFICATION Spec
CONSTANTS
  None = None
  Jobs = {j1}
  Executions = {e1}
  Workers = {w1}
  Clicks = {c1}
  Modes = {"AUTO_PERMITTED"}
  MaxAttempts = 2
  Slots = 1
  AttemptCap = 3
  MaxFaults = 0
  Sponsorships = {"CONFIRMED_SPONSOR", "NO_SPONSORSHIP"}
  TrackerTargets = {}
  Regenerated = {}
  LeaseMayLapse = FALSE
  ClicksOverlap = FALSE
CHECK_DEADLOCK FALSE
INVARIANTS ApprovedIsRecorded

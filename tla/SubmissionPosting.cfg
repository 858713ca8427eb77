SPECIFICATION Spec
CONSTANTS
  None = None
  Jobs = {j1, j2}
  Executions = {e1, e2}
  Workers = {w1}
  Clicks = {c1}
  Modes = {"AUTO_PERMITTED"}
  MaxAttempts = 1
  Slots = 1
  AttemptCap = 2
  MaxFaults = 1
  Sponsorships = {"CONFIRMED_SPONSOR"}
  TrackerTargets = {}
  Regenerated = {}
  LeaseMayLapse = FALSE
  ClicksOverlap = FALSE
CHECK_DEADLOCK FALSE
PROPERTIES AppliedJobsAreRefused
SYMMETRY Symmetric

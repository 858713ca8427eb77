SPECIFICATION FairSpec
CONSTANTS
  None = None
  Jobs = {j1}
  Executions = {e1}
  Workers = {w1, w2}
  Clicks = {c1}
  Modes = {"AUTO_PERMITTED"}
  MaxAttempts = 1
  Slots = 1
  AttemptCap = 2
  MaxFaults = 1
  Sponsorships = {"CONFIRMED_SPONSOR"}
  TrackerTargets = {}
  Regenerated = {}
  LeaseMayLapse = FALSE
  ClicksOverlap = FALSE
CHECK_DEADLOCK FALSE
PROPERTIES AlwaysRecovered

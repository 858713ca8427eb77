SPECIFICATION FairSpec
CONSTANTS
  None = None
  Jobs = {j1}
  Executions = {e1}
  Workers = {w1, w2}
  Clicks = {c1}
  Modes = {"AUTO_PERMITTED"}
  MaxAttempts = 2
  Slots = 2
  AttemptCap = 3
  MaxFaults = 1
  Sponsorships = {"CONFIRMED_SPONSOR", "NO_SPONSORSHIP"}
  TrackerTargets = {"WITHDRAWN"}
  Regenerated = {j1}
  LeaseMayLapse = FALSE
  ClicksOverlap = FALSE
CHECK_DEADLOCK FALSE
INVARIANTS NoSecondSubmission AttemptsBounded ApplicationsRemembered
PROPERTIES EndedForGood Recovered UnknownWaits

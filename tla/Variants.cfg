SPECIFICATION FairSpec
CONSTANTS
  Stages = {m1}
  Requests = {r1}
  Profiles = {v1, v2}
  MaxFaults = 1
  None = None
INVARIANTS PromotedPassed
PROPERTIES VariantArrives
CHECK_DEADLOCK FALSE

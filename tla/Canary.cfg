SPECIFICATION FairSpec
CONSTANTS
  Calls = {c1, c2}
  Executions = {e1, e2}
  Sessions = {s1, s2, s3}
  MaxCalls = 2
  MaxFaults = 1
  None = None
INVARIANTS OneClick OneApplication UnknownIsHeld
PROPERTY ClaimSettles
CHECK_DEADLOCK FALSE

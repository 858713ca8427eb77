SPECIFICATION Spec
CONSTANTS
  Calls = {c1, c2}
  Executions = {e1, e2}
  Sessions = {s1, s2, s3}
  MaxCalls = 2
  MaxFaults = 1
  None = None
INVARIANT UnknownStaysActive
CHECK_DEADLOCK FALSE

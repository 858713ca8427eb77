SPECIFICATION Spec
CONSTANTS
  Workers = {w1, w2}
  Desks = {d1}
  Slots = 2
  Threshold = 2
  MaxRequests = 1
  MaxFaults = 1
  None = None
INVARIANTS MirrorFollows OneVerifierAtATime
PROPERTIES DemotedForCause PendingIsProbed
CHECK_DEADLOCK FALSE

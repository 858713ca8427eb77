SPECIFICATION Spec
CONSTANTS
  p1 = p1
  p2 = p2
  Procs = {p1, p2}
  Calls = {p1, p2}
  Passes = {p2}
  Home <- MCThreads
  Sessions = {s1, s2}
  Concurrency = 1
  MaxCrashes = 1
  MaxCalls = 2
  LeaseMayLapse = FALSE
  None = None
PROPERTIES EndedStaysEnded
CHECK_DEADLOCK FALSE

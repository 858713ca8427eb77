SPECIFICATION Spec
CONSTANTS
  p1 = p1
  p2 = p2
  Procs = {p1, p2}
  Calls = {p1, t2, p2}
  Passes = {p2}
  Home <- MCThreads
  Sessions = {s1}
  Concurrency = 1
  MaxCrashes = 0
  MaxCalls = 4
  LeaseMayLapse = FALSE
  None = None
CHECK_DEADLOCK FALSE
INVARIANTS OneDriver

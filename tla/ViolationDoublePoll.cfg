SPECIFICATION FleetSpec
CONSTANTS
  None = None
  Portals = {p1}
  Workers = {w1, w2}
  Cycles = {}
  Operators = {}
  DeadLetterMax = 2
  MaxLetters = 2
  MaxCrashes = 1
  LeaseMayLapse = TRUE
  RequeueOverlaps = FALSE
  TripAfter = 1
  MinAttempts = 2
  WindowSize = 1
  TripPercent = 50
  SlotLimit = 2
INVARIANTS OnePollAtATime

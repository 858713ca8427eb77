SPECIFICATION FairFleet
CONSTANTS
  None = None
  Portals = {p1}
  Workers = {w1, w2}
  Cycles = {c1}
  Operators = {o1}
  DeadLetterMax = 2
  MaxLetters = 2
  MaxCrashes = 1
  LeaseMayLapse = FALSE
  RequeueOverlaps = FALSE
  TripAfter = 1
  MinAttempts = 2
  WindowSize = 1
  TripPercent = 50
  SlotLimit = 2
INVARIANTS OnePollAtATime GivenUpIsListed
PROPERTIES GivenUpForCause DuePortalsPolled ProbesFailingGivenUp

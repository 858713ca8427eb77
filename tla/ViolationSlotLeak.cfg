SPECIFICATION FairCircuit
CONSTANTS
  Submitters = {w1, w2}
  TripAfter = 3
  MinAttempts = 3
  WindowSize = 5
  TripPercent = 50
  SlotLimit = 1
  MaxExceptions = 0
  MaxCrashes = 1
PROPERTIES NeverDisabled

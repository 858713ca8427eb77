SPECIFICATION FairCircuit
CONSTANTS
  Submitters = {w1, w2}
  TripAfter = 3
  MinAttempts = 3
  WindowSize = 5
  TripPercent = 50
  SlotLimit = 1
  MaxExceptions = 1
  MaxCrashes = 0
PROPERTIES NeverDisabled

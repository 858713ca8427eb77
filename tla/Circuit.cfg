SPECIFICATION FairCircuit
CONSTANTS
  Submitters = {w1, w2, w3}
  TripAfter = 2
  MinAttempts = 3
  WindowSize = 4
  TripPercent = 50
  SlotLimit = 2
  MaxExceptions = 1
  MaxCrashes = 1
INVARIANTS SlotsRespected FailingProviderPaused
PROPERTIES SelfHeals

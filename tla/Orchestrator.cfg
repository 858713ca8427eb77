SPECIFICATION FairSpec
CONSTANTS
  Instances = {p1, p2}
  Nobody = nobody
  Gone = gone
  MaxFaults = 1
INVARIANTS OneCycleAtATime
PROPERTIES LeaseIsExclusive StopHonoured StandbyTakesOver

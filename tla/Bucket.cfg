\* Scripts run in any order within their delay; the key expires.
SPECIFICATION Spec
CONSTANTS
  Requests = {r1, r2}
  Rate = 1
  Burst = 4
  Cost = 2
  Expiry = 6
  MaxDelay = 2
  MaxTime = 8
  NotSent = NotSent
SYMMETRY Symmetric
INVARIANTS TypeOK RateKeptInOrder LateCostsADelay
PROPERTY RejectsOnlyAtLimit

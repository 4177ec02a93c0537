\* A script runs after one that was sent later.
SPECIFICATION Spec
CONSTANTS
  Requests = {r1, r2}
  Rate = 1
  Burst = 4
  Cost = 2
  Expiry = 8
  MaxDelay = 4
  MaxTime = 6
  NotSent = NotSent
SYMMETRY Symmetric
INVARIANT WithinRate

\* Two requests around midnight, upgrades, two faults.
SPECIFICATION Spec
CONSTANTS
  user = user  free = free  starter = starter  premium = premium
  None = None
  Accounts <- Upgrades
  Features = {"daily_details"}
  TIER_LIMITS <- MCTierLimits
  Conns = {c1, c2}
  DayLength = 2
  MaxDate = 1
  MaxCount = 3
  MaxFaults = 2
SYMMETRY Symmetric
INVARIANTS TypeOK WithinLimit RefusedOnlyAtLimit EveryCounterExpires

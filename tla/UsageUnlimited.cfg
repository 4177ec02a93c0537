\* An endpoint asks for a feature that the table does not name.
SPECIFICATION Spec
CONSTANTS
  user = user  free = free  starter = starter  premium = premium
  None = None
  Accounts <- Upgrades
  Features = {"daily_details", "search"}
  TIER_LIMITS <- MCTierLimits
  Conns = {c1}
  DayLength = 2
  MaxDate = 0
  MaxCount = 2
  MaxFaults = 0
SYMMETRY Symmetric
INVARIANTS UnlimitedNeverRefused

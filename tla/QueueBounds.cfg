\* Capacities below, at and above the limits, a platform named twice, payloads
\* pushed again and again, a payload both gateways read, its twin of the same
\* task id that only Python reads, and one without task_id that only Go reads.
SPECIFICATION LegacyFairSpec
CONSTANTS
  e1 = e1  e2 = e2  e3 = e3  t1 = t1  t2 = t2  p1 = p1  p2 = p2
  None = None
  Workers = {w1}
  Platforms = {p1}
  Entries = {e1, e2, e3}
  Undecodable = {e2}
  Rejected = {e3}
  Unreadable = {e3}
  TaskIds = {t1}
  TaskIdOf <- MCTaskIdOf
  LegacyIdOf <- MCLegacyIdOf
  GetConns = {g1}
  AckConns = {a1}
  MaxPriority = 2
  DefaultCapacity = 2
  MaxCapacity = 3
  CapacityQueries <- MCCapacityQueries
  DefaultPlatforms <- OnePlatform
  PlatformQueries <- MCPlatformQueries
  MaxFaults = 1
INVARIANTS TypeOK ResponseBounded
PROPERTIES NoStarvation HeldTasksSettled RemovedOnlyByAnAck

\* Two workers, two requests for work and two acknowledgements of twins (two
\* payloads of one task id).
SPECIFICATION Spec
CONSTANTS
  e1 = e1  e2 = e2  e3 = e3  t1 = t1  t2 = t2  p1 = p1  p2 = p2
  None = None
  Workers = {w1, w2}
  Platforms = {p1}
  Entries = {e1, e2}
  Undecodable = {}
  Rejected = {}
  Unreadable = {}
  TaskIds = {t1, t2}
  TaskIdOf <- MCTaskIdOf
  LegacyIdOf <- MCLegacyIdOf
  GetConns = {g1, g2}
  AckConns = {a1, a2}
  MaxPriority = 2
  DefaultCapacity = 2
  MaxCapacity = 2
  CapacityQueries <- FullCapacity
  DefaultPlatforms <- OnePlatform
  PlatformQueries <- JustDefault
  MaxFaults = 1
SYMMETRY Symmetric
INVARIANTS OnePlace DeliveredOnce StrandedOnlyByFault SuccessMeansGone
PROPERTIES RemovedOnlyByItsAck ImplementsLedger

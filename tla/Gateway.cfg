\* Two submissions with batches of up to three results, requests for work
\* and acknowledgements, one fault, signals and restarts.
SPECIFICATION GatewaySpec
CONSTANTS
  e1 = e1  t1 = t1  p1 = p1  r1 = r1  r2 = r2
  parcel1 = parcel1  parcel2 = parcel2
  None = None
  Workers = {w1}
  Platforms = {p1}
  Entries = {e1}
  Undecodable = {}
  TaskIds = {t1}
  TaskIdOf <- MCTaskIdOf
  GetConns = {g1}
  AckConns = {a1}
  SubConns = {s1, s2}
  MaxPriority = 1
  DefaultCapacity = 1
  MaxCapacity = 1
  CapacityQueries <- OneCapacity
  DefaultPlatforms <- OnePlatform
  PlatformQueries <- JustDefault
  Parcels = {parcel1, parcel2}
  Results = {r1, r2}
  ParcelOf <- MCParcelOf
  ResultTask <- MCResultTask
  Batches <- MCBatches
  MaxErrors = 1
  MaxFaults = 1
SYMMETRY Symmetric
INVARIANTS GatewayTypeOK GracefulLosesNothing EveryResultCounted StoredIffInserted
PROPERTY CompletedOnlyWhenStored

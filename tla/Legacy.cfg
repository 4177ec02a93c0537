\* Two submissions of crossing batches, one fault.
SPECIFICATION FairSpec
CONSTANTS
  t1 = t1  t2 = t2  t3 = t3  r1 = r1  r2 = r2  r3 = r3
  parcel1 = parcel1  parcel2 = parcel2
  None = None
  Tasks = {t1, t2, t3}
  Parcels = {parcel1, parcel2}
  Results = {r1, r2, r3}
  TaskOf <- MCTaskOf
  ParcelOf <- MCParcelOf
  Batches <- MCBatches
  Requests = {c1, c2}
  MaxFaults = 1
INVARIANTS TypeOK LostOnlyByAbort
PROPERTY SubmissionsEnd

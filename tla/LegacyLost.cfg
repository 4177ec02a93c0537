\* Crossing batches without a fault: completed tasks whose results are lost.
SPECIFICATION Spec
CONSTANTS
  t1 = t1  t2 = t2  t3 = t3  r1 = r1  r2 = r2  r3 = r3
  parcel1 = parcel1  parcel2 = parcel2
  None = None
  Tasks = {t1, t2, t3}
  Parcels = {parcel1, parcel2}
  Results = {r1, r2, r3}
  TaskOf <- MCTaskOf
  ParcelOf <- MCParcelOf
  Batches <- MCBatches
  Requests = {c1, c2}
  MaxFaults = 0
SYMMETRY Symmetric
INVARIANT CompletedIsStored

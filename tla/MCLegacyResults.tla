-------------------------- MODULE MCLegacyResults --------------------------
(* An instance of LegacyResults: batches that name two parcels in opposite  *)
(* orders.                                                                  *)
EXTENDS LegacyResults, TLC

CONSTANTS t1, t2, t3, r1, r2, r3, parcel1, parcel2

MCTaskOf == [r \in Results |-> CASE r = r1 -> t1 [] r = r2 -> t2 [] OTHER -> t3]
MCParcelOf == [r \in Results |-> IF r = r1 THEN parcel1 ELSE parcel2]
MCBatches == {<<r1, r2>>, <<r3, r1>>}

Symmetric == Permutations(Requests)
=============================================================================

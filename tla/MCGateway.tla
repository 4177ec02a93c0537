-------------------------- MODULE MCGateway --------------------------------
(* Instances of Gateway: two results of one task for two parcels, in batches *)
(* of up to three.                                                          *)
EXTENDS Gateway

CONSTANTS e1, t1, p1, r1, r2, parcel1, parcel2

MCTaskIdOf == [e \in Entries |-> t1]
MCParcelOf == [r \in Results |-> IF r = r2 THEN parcel2 ELSE parcel1]
MCResultTask == [r \in Results |-> t1]

OnePlatform == <<p1>>
JustDefault == {<<>>}
OneCapacity == {0}

MCBatches == {<<>>, <<r1, r2, r1>>}

Symmetric == Permutations(SubConns)
=============================================================================

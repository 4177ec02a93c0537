--------------------------- MODULE GatewayProofs ---------------------------
(***************************************************************************)
(* Theorems about Gateway and the results handler it composes with the     *)
(* queue, for any number of requests, batches, parcels, stops and starts.  *)
(***************************************************************************)
EXTENDS Gateway, TaskQueueProofs

ResultOf(r) == r.batch[r.at]

\* What a submission knows at each point of its loop, with this table.
Known(r, table) ==
    /\ r.pc = "exists" => ~r.existed
    /\ r.pc \in {"lrange", "lrem"} => table[ParcelOf[ResultOf(r)]] # None
    /\ r.pc = "lrem" => Holds(r.raw, ResultTask[ResultOf(r)])
    /\ r.pc = "upsert" /\ r.existed => table[ParcelOf[ResultOf(r)]] # None

\* The counters of a submission and the place in its batch.
Counted(r) ==
    LET counted == r.inserted + r.updated + r.failed
    IN  /\ r.pc \in {"exists", "upsert"} => counted = r.at - 1
        /\ r.pc \in {"lrange", "lrem"} => counted = r.at
        /\ r.pc = "reply" => counted = Len(r.batch) \/ r.failed = MaxErrors + 1
        /\ r.pc \in InProgress => r.failed <= MaxErrors

\* The types of a submission that depend on its place.
Typed(r) ==
    /\ r \in SubRequests
    /\ r.pc # "idle" => r.worker \in Workers
    /\ r.pc \in InProgress => r.at <= Len(r.batch)
    /\ r.pc = "lrem" => r.raw \in Entries

RequestOK(r, table) == Typed(r) /\ Counted(r) /\ Known(r, table)

-----------------------------------------------------------------------------
(* The steps of one submission *)

\* A submission stays one when a field gets a value of its type.
LEMMA FieldTypes ==
    ASSUME NEW r \in SubRequests
    PROVE  /\ \A x \in InProgress \cup {"idle", "reply"} :
                 [r EXCEPT !.pc = x] \in SubRequests
           /\ \A x \in Workers : [r EXCEPT !.worker = x] \in SubRequests
           /\ \A x \in Seq(Results) : [r EXCEPT !.batch = x] \in SubRequests
           /\ \A x \in Nat \ {0} : [r EXCEPT !.at = x] \in SubRequests
           /\ \A x \in BOOLEAN : [r EXCEPT !.existed = x] \in SubRequests
           /\ \A x \in Entries \cup {None} : [r EXCEPT !.raw = x] \in SubRequests
           /\ \A x \in Nat : [r EXCEPT !.inserted = x] \in SubRequests
           /\ \A x \in Nat : [r EXCEPT !.updated = x] \in SubRequests
           /\ \A x \in Nat : [r EXCEPT !.failed = x] \in SubRequests
  BY DEF SubRequests, InProgress

LEMMA IdleOK == \A table : RequestOK(IdleSub, table)
  BY DEF RequestOK, Typed, Counted, Known, IdleSub, SubRequests, InProgress

\* A table that loses no row takes nothing from what a submission knows.
LEMMA TableGrows ==
    ASSUME NEW r, NEW table, NEW table2, RequestOK(r, table),
           \A p \in Parcels : table[p] # None => table2[p] # None
    PROVE  RequestOK(r, table2)
<1>1. r.pc \in InProgress => ParcelOf[ResultOf(r)] \in Parcels
  <2> SUFFICES ASSUME r.pc \in InProgress
               PROVE  ParcelOf[ResultOf(r)] \in Parcels
    OBVIOUS
  <2>1. ResultOf(r) \in Results
    BY DEF RequestOK, Typed, SubRequests, ResultOf
  <2> QED  BY <2>1, ResultAssumption
<1>2. Known(r, table2)
  BY <1>1 DEF RequestOK, Known, InProgress
<1> QED  BY <1>2 DEF RequestOK

\* The current result of a submission in progress.
LEMMA CurrentType ==
    ASSUME NEW r, Typed(r), r.pc \in InProgress
    PROVE  /\ ResultOf(r) \in Results
           /\ ParcelOf[ResultOf(r)] \in Parcels
           /\ ResultTask[ResultOf(r)] \in TaskIds
<1>1. ResultOf(r) \in Results
  BY DEF Typed, SubRequests, ResultOf
<1> QED  BY <1>1, ResultAssumption

\* A submission whose current result is counted goes on to the next one, or
\* to its response.
LEMMA NextResultOK ==
    ASSUME NEW r \in SubRequests, NEW table, r.worker \in Workers,
           r.at <= Len(r.batch), r.failed <= MaxErrors,
           r.inserted + r.updated + r.failed = r.at
    PROVE  RequestOK(NextResult(r), table)
<1>t. /\ r.at \in Nat \ {0} /\ r.failed \in Nat /\ r.inserted \in Nat
      /\ r.updated \in Nat /\ r.batch \in Seq(Results) /\ Len(r.batch) \in Nat
  BY DEF SubRequests
<1>1. CASE r.at < Len(r.batch)
  <2> DEFINE n1 == [r EXCEPT !.pc = "exists"]
             n2 == [n1 EXCEPT !.at = n1.at + 1]
             n3 == [n2 EXCEPT !.existed = FALSE]
             n  == [n3 EXCEPT !.raw = None]
  <2>1. NextResult(r) = n
    BY <1>1, Zenon DEF NextResult
  <2>2. n1 \in SubRequests /\ n1.at + 1 \in Nat \ {0}
    <3>1. n1 \in SubRequests
      BY FieldTypes DEF InProgress
    <3> QED  BY <3>1 DEF SubRequests
  <2>3. n2 \in SubRequests
    BY <2>2, FieldTypes
  <2>4. n \in SubRequests
    BY <2>3, FieldTypes
  <2>5. /\ n.pc = "exists" /\ n.at = r.at + 1
        /\ n.worker = r.worker /\ n.batch = r.batch /\ n.failed = r.failed
        /\ n.inserted = r.inserted /\ n.updated = r.updated /\ ~n.existed
    BY <1>t DEF SubRequests
  <2> HIDE DEF n
  <2> QED  BY <1>t, <1>1, <2>1, <2>4, <2>5, ErrorAssumption
              DEF RequestOK, Typed, Counted, Known, InProgress
<1>2. CASE ~(r.at < Len(r.batch))
  <2> DEFINE n == [r EXCEPT !.pc = "reply"]
  <2>1. NextResult(r) = n
    BY <1>2 DEF NextResult
  <2>2. /\ n \in SubRequests /\ n.pc = "reply"
        /\ n.worker = r.worker /\ n.batch = r.batch /\ n.failed = r.failed
        /\ n.inserted = r.inserted /\ n.updated = r.updated
    BY DEF SubRequests
  <2>3. r.at = Len(r.batch)
    BY <1>t, <1>2
  <2> HIDE DEF n
  <2> QED  BY <1>t, <2>1, <2>2, <2>3 DEF RequestOK, Typed, Counted, Known, InProgress
<1> QED  BY <1>1, <1>2

\* A failed result is counted; the loop goes on or ends.
LEMMA FailedOK ==
    ASSUME NEW r, NEW table, Typed(r), Counted(r), r.pc = "upsert"
    PROVE  RequestOK(Failed(r), table)
<1> DEFINE f == [r EXCEPT !.failed = r.failed + 1]
<1>t. /\ r \in SubRequests /\ r.worker \in Workers /\ r.at \in Nat \ {0}
      /\ r.failed \in Nat /\ r.inserted \in Nat
      /\ r.updated \in Nat /\ r.batch \in Seq(Results) /\ Len(r.batch) \in Nat
      /\ r.at <= Len(r.batch) /\ r.failed <= MaxErrors
      /\ r.inserted + r.updated + r.failed = r.at - 1
  BY DEF Typed, Counted, SubRequests, InProgress
<1>1. /\ f \in SubRequests /\ f.worker = r.worker /\ f.at = r.at
      /\ f.batch = r.batch /\ f.inserted = r.inserted /\ f.updated = r.updated
      /\ f.failed = r.failed + 1
  BY <1>t DEF SubRequests
<1>2. Failed(r) = IF f.failed > MaxErrors THEN [f EXCEPT !.pc = "reply"]
                                          ELSE NextResult(f)
  BY DEF Failed
<1> HIDE DEF f
<1>3. CASE f.failed > MaxErrors
  <2> DEFINE n == [f EXCEPT !.pc = "reply"]
  <2>1. /\ n \in SubRequests /\ n.pc = "reply" /\ n.worker = r.worker
        /\ n.failed = r.failed + 1
    BY <1>1 DEF SubRequests
  <2>2. n.failed = MaxErrors + 1
    BY <1>t, <1>1, <1>3, <2>1, ErrorAssumption
  <2>3. Failed(r) = n
    BY <1>2, <1>3
  <2> HIDE DEF n
  <2> QED  BY <1>t, <2>1, <2>2, <2>3 DEF RequestOK, Typed, Counted, Known, InProgress
<1>4. CASE ~(f.failed > MaxErrors)
  <2>1. f.failed <= MaxErrors
    BY <1>t, <1>1, <1>4, ErrorAssumption
  <2>2. f.inserted + f.updated + f.failed = f.at
    BY <1>t, <1>1
  <2> QED  BY <1>t, <1>1, <1>2, <1>4, <2>1, <2>2, NextResultOK
<1> QED  BY <1>3, <1>4

-----------------------------------------------------------------------------
(* The steps of the results handler *)

\* The part of the invariant that is about the table and the submissions.
SubInv ==
    /\ parcels \in [Parcels -> Results \cup {None}]
    /\ inserts \subseteq Parcels
    /\ subReq \in [SubConns -> SubRequests]
    /\ \A c \in SubConns : RequestOK(subReq[c], parcels)
    /\ StoredIffInserted

\* One submission changes, and the table loses no row.
Advance(c, r) ==
    /\ subReq' = [subReq EXCEPT ![c] = r]
    /\ RequestOK(r, parcels')
    /\ parcels' \in [Parcels -> Results \cup {None}]
    /\ \A p \in Parcels : parcels[p] # None => parcels'[p] # None

\* A row that is stored is a row of the table, and no other row changes.
LEMMA StoreRowKeeps ==
    ASSUME SubInv, NEW c \in SubConns, subReq[c].pc = "upsert", StoreRow(c)
    PROVE  /\ parcels' \in [Parcels -> Results \cup {None}]
           /\ parcels'[ParcelOf[Current(c)]] = Current(c)
           /\ parcels'[ParcelOf[Current(c)]] # None
           /\ \A p \in Parcels : p # ParcelOf[Current(c)] => parcels'[p] = parcels[p]
           /\ \A p \in Parcels : parcels[p] # None => parcels'[p] # None
<1>1. Current(c) = ResultOf(subReq[c])
  BY DEF Current, ResultOf
<1>2. Current(c) \in Results /\ ParcelOf[Current(c)] \in Parcels
  BY <1>1, CurrentType DEF SubInv, RequestOK, InProgress
<1> QED  BY <1>2, ResultAssumption DEF SubInv, StoreRow

LEMMA SelectExistsOK ==
    ASSUME SubInv, NEW c \in SubConns, SelectExists(c) \/ SelectExistsFails(c)
    PROVE  \E r : Advance(c, r)
<1> DEFINE r == subReq[c]
           u == [r EXCEPT !.pc = "upsert"]
           e == parcels[ParcelOf[Current(c)]] # None
           v == [u EXCEPT !.existed = e]
<1>1. /\ r \in SubRequests /\ r.pc = "exists" /\ RequestOK(r, parcels)
      /\ parcels' = parcels /\ parcels \in [Parcels -> Results \cup {None}]
  BY DEF SubInv, SelectExists, SelectExistsFails
<1>2. u \in SubRequests /\ e \in BOOLEAN
  BY <1>1, FieldTypes DEF InProgress
<1>3. v \in SubRequests
  BY <1>2, FieldTypes
<1>4. subReq' = [subReq EXCEPT ![c] = u] \/ subReq' = [subReq EXCEPT ![c] = v]
  BY Zenon DEF SelectExists, SelectExistsFails
<1>5. /\ u.pc = "upsert" /\ v.pc = "upsert" /\ v.existed = e
      /\ u.worker = r.worker /\ v.worker = r.worker
      /\ u.batch = r.batch /\ v.batch = r.batch /\ u.at = r.at /\ v.at = r.at
      /\ u.inserted = r.inserted /\ v.inserted = r.inserted
      /\ u.updated = r.updated /\ v.updated = r.updated
      /\ u.failed = r.failed /\ v.failed = r.failed
      /\ u.existed = r.existed
  BY <1>1 DEF SubRequests
<1>6. ResultOf(v) = Current(c)
  BY <1>5 DEF ResultOf, Current
<1>7. ~r.existed
  BY <1>1 DEF RequestOK, Known
<1> HIDE DEF u, v
<1>8. RequestOK(u, parcels') /\ RequestOK(v, parcels')
  BY <1>1, <1>2, <1>3, <1>5, <1>6, <1>7
     DEF RequestOK, Typed, Counted, Known, InProgress
<1>9. CASE subReq' = [subReq EXCEPT ![c] = u]
  BY <1>1, <1>8, <1>9 DEF Advance
<1>10. CASE subReq' = [subReq EXCEPT ![c] = v]
  BY <1>1, <1>8, <1>10 DEF Advance
<1> QED  BY <1>4, <1>9, <1>10

LEMMA UpsertParcelOK ==
    ASSUME SubInv, NEW c \in SubConns, UpsertParcel(c)
    PROVE  (\E r : Advance(c, r)) /\ StoredIffInserted'
<1> DEFINE r == subReq[c]
           l == [r EXCEPT !.pc = "lrange"]
           u == [l EXCEPT !.updated = l.updated + 1]
           i == [l EXCEPT !.inserted = l.inserted + 1]
           p == ParcelOf[Current(c)]
<1>1. /\ r \in SubRequests /\ r.pc = "upsert" /\ RequestOK(r, parcels)
      /\ StoreRow(c) /\ faults' = faults
  BY DEF SubInv, UpsertParcel, vars
<1>2. /\ parcels' \in [Parcels -> Results \cup {None}]
      /\ parcels'[p] # None
      /\ \A q \in Parcels : q # p => parcels'[q] = parcels[q]
      /\ \A q \in Parcels : parcels[q] # None => parcels'[q] # None
  BY <1>1, StoreRowKeeps
<1>3. l \in SubRequests
  BY <1>1, FieldTypes DEF InProgress
<1>4. l.updated + 1 \in Nat /\ l.inserted + 1 \in Nat
  BY <1>3 DEF SubRequests
<1>5. u \in SubRequests /\ i \in SubRequests
  BY <1>3, <1>4, FieldTypes
<1>6. /\ u.pc = "lrange" /\ i.pc = "lrange"
      /\ u.worker = r.worker /\ i.worker = r.worker
      /\ u.batch = r.batch /\ i.batch = r.batch /\ u.at = r.at /\ i.at = r.at
      /\ u.inserted = r.inserted /\ i.inserted = r.inserted + 1
      /\ u.updated = r.updated + 1 /\ i.updated = r.updated
      /\ u.failed = r.failed /\ i.failed = r.failed
  BY <1>1 DEF SubRequests
<1>7. /\ r.existed => subReq' = [subReq EXCEPT ![c] = u] /\ inserts' = inserts
      /\ ~r.existed => /\ subReq' = [subReq EXCEPT ![c] = i]
                       /\ inserts' = inserts \cup {p}
  BY Zenon DEF UpsertParcel
<1>8. ResultOf(r) = Current(c) /\ ResultOf(u) = Current(c) /\ ResultOf(i) = Current(c)
  BY <1>6 DEF ResultOf, Current
<1>9. /\ r.at \in Nat /\ r.inserted \in Nat /\ r.updated \in Nat /\ r.failed \in Nat
      /\ r.inserted + r.updated + r.failed = r.at - 1
  BY <1>1 DEF RequestOK, Counted, SubRequests
<1> HIDE DEF l, u, i
<1>t. r.worker \in Workers /\ r.at <= Len(r.batch) /\ r.failed <= MaxErrors
  BY <1>1 DEF RequestOK, Typed, Counted, InProgress
<1> HIDE DEF r, p
<1>10. Typed(u) /\ Typed(i)
  BY <1>t, <1>5, <1>6 DEF Typed, InProgress
<1>11. Counted(u) /\ Counted(i)
  <2>1. /\ u.inserted + u.updated + u.failed = u.at
        /\ i.inserted + i.updated + i.failed = i.at
    BY <1>6, <1>9
  <2> QED  BY <1>t, <1>6, <2>1 DEF Counted, InProgress
<1>13. Known(u, parcels') /\ Known(i, parcels')
  BY <1>2, <1>6, <1>8 DEF Known, p
<1>14. RequestOK(u, parcels') /\ RequestOK(i, parcels')
  BY <1>10, <1>11, <1>13 DEF RequestOK
<1>15. Advance(c, u) \/ Advance(c, i)
  BY <1>2, <1>7, <1>14 DEF Advance
<1>12. ASSUME faults = 0, NEW q \in Parcels
       PROVE  parcels'[q] # None <=> q \in inserts'
  <2>1. parcels[q] # None <=> q \in inserts
    BY <1>12 DEF SubInv, StoredIffInserted
  <2>2. q = p /\ r.existed => parcels[q] # None
    BY <1>1, <1>8 DEF RequestOK, Known, p
  <2> QED  BY <1>2, <1>7, <2>1, <2>2
<1> QED  BY <1>1, <1>12, <1>15 DEF StoredIffInserted

\* A statement fails, or the pool is closed.
LEMMA FailedResultOK ==
    ASSUME SubInv, NEW c \in SubConns, subReq[c].pc = "upsert",
           StoreRow(c) \/ UNCHANGED parcels,
           subReq' = [subReq EXCEPT ![c] = Failed(@)]
    PROVE  Advance(c, Failed(subReq[c]))
<1>1. RequestOK(Failed(subReq[c]), parcels')
  BY FailedOK DEF SubInv, RequestOK
<1>2. /\ parcels' \in [Parcels -> Results \cup {None}]
      /\ \A p \in Parcels : parcels[p] # None => parcels'[p] # None
  BY StoreRowKeeps DEF SubInv
<1> QED  BY <1>1, <1>2 DEF Advance

\* The task of a stored result is completed, or its completion failed.
LEMMA CompletedResultOK ==
    ASSUME SubInv, NEW c \in SubConns, subReq[c].pc \in {"lrange", "lrem"},
           UNCHANGED parcels, subReq' = [subReq EXCEPT ![c] = NextResult(@)]
    PROVE  Advance(c, NextResult(subReq[c]))
<1> DEFINE r == subReq[c]
<1>1. Typed(r) /\ Counted(r) /\ r \in SubRequests
  BY DEF SubInv, RequestOK
<1>2. /\ r.worker \in Workers /\ r.at <= Len(r.batch) /\ r.failed <= MaxErrors
      /\ r.inserted + r.updated + r.failed = r.at
  BY <1>1 DEF Typed, Counted, InProgress
<1>3. RequestOK(NextResult(r), parcels')
  BY <1>1, <1>2, NextResultOK
<1> QED  BY <1>3 DEF Advance, SubInv

LEMMA SubLRangeOK ==
    ASSUME TypeOK, SubInv, NEW c \in SubConns, SubLRange(c)
    PROVE  \E r : Advance(c, r)
<1> DEFINE r    == subReq[c]
           list == redis[processingKey(r.worker)]
<1>1. /\ r \in SubRequests /\ r.pc = "lrange" /\ RequestOK(r, parcels)
      /\ parcels' = parcels /\ parcels \in [Parcels -> Results \cup {None}]
      /\ r.worker \in Workers
  BY DEF SubInv, SubLRange, RequestOK, Typed
<1>2. list \in Seq(Entries)
  BY <1>1, KeyLemma DEF TypeOK, Keys
<1>3. ASSUME NEW i \in DOMAIN list, FirstHolding(list, ResultTask[Current(c)], i),
             subReq' = [subReq EXCEPT ![c] = [r EXCEPT !.pc = "lrem", !.raw = list[i]]]
      PROVE  \E n : Advance(c, n)
  <2> DEFINE m == [r EXCEPT !.pc = "lrem"]
             n == [m EXCEPT !.raw = list[i]]
  <2>0. m \in SubRequests
    BY <1>1, FieldTypes DEF InProgress
  <2>1. list[i] \in Entries
    <3> HIDE DEF list
    <3> QED  BY <1>2
  <2>2. n \in SubRequests
    BY <2>0, <2>1, FieldTypes
  <2>3. /\ n.pc = "lrem" /\ n.raw = list[i] /\ n.worker = r.worker
        /\ n.batch = r.batch /\ n.at = r.at /\ n.inserted = r.inserted
        /\ n.updated = r.updated /\ n.failed = r.failed
    BY <1>1 DEF SubRequests
  <2>4. ResultOf(n) = Current(c) /\ ResultOf(r) = Current(c)
    BY <2>3 DEF ResultOf, Current
  <2>5. Holds(list[i], ResultTask[Current(c)])
    BY <1>3 DEF FirstHolding
  <2>6. subReq' = [subReq EXCEPT ![c] = n]
    BY <1>3, Zenon
  <2> HIDE DEF m, n, list
  <2>7. RequestOK(n, parcels')
    BY <1>1, <2>1, <2>2, <2>3, <2>4, <2>5
       DEF RequestOK, Typed, Counted, Known, InProgress
  <2> QED  BY <1>1, <2>6, <2>7 DEF Advance
<1>4. CASE subReq' = [subReq EXCEPT ![c] = NextResult(r)]
  BY <1>1, <1>4, CompletedResultOK
<1> QED  BY <1>3, <1>4 DEF SubLRange

\* One submission advances and the others know what they knew.
LEMMA AdvanceKeeps ==
    ASSUME SubInv, NEW c \in SubConns, NEW r, Advance(c, r),
           inserts' \subseteq Parcels, StoredIffInserted'
    PROVE  SubInv'
<1>1. r \in SubRequests /\ RequestOK(r, parcels')
  BY DEF Advance, RequestOK, Typed
<1>2. subReq' \in [SubConns -> SubRequests]
  BY <1>1 DEF Advance, SubInv
<1>3. ASSUME NEW d \in SubConns
      PROVE  RequestOK(subReq'[d], parcels')
  <2>1. CASE d = c
    BY <1>1, <2>1 DEF Advance, SubInv
  <2>2. CASE d # c
    <3>1. subReq'[d] = subReq[d] /\ RequestOK(subReq[d], parcels)
      BY <2>2 DEF Advance, SubInv
    <3> QED  BY <3>1, TableGrows DEF Advance
  <2> QED  BY <2>1, <2>2
<1>4. parcels' \in [Parcels -> Results \cup {None}]
  BY DEF Advance
<1>5. \A d \in SubConns : RequestOK(subReq'[d], parcels')
  BY <1>3
<1> QED  BY <1>2, <1>4, <1>5 DEF SubInv, RequestOK, Typed, Counted, Known, ResultOf,
                               Holds, SubRequests

\* Steps that leave the table alone.
LEMMA StoredKept ==
    ASSUME SubInv, faults \in Nat, parcels' = parcels, inserts' = inserts,
           faults' = faults \/ Fault
    PROVE  inserts' \subseteq Parcels /\ StoredIffInserted'
  BY DEF SubInv, StoredIffInserted, Fault

\* Every step of a submission keeps the invariant.
LEMMA SubStepOK ==
    ASSUME TypeOK, SubInv, NEW c \in SubConns,
           SubStep(c) \/ PoolClosed(c) \/ CompleteClosed(c)
    PROVE  SubInv'
<1>f. faults \in Nat /\ parcels \in [Parcels -> Results \cup {None}]
  BY FaultAssumption DEF TypeOK, SubInv
<1>1. CASE SelectExists(c) \/ SelectExistsFails(c)
  <2>1. /\ parcels' = parcels /\ inserts' = inserts
        /\ faults' = faults \/ Fault
    BY <1>1 DEF SelectExists, SelectExistsFails, vars
  <2> QED  BY <1>1, <1>f, <2>1, SelectExistsOK, StoredKept, AdvanceKeeps
<1>2. CASE UpsertParcel(c)
  <2>1. inserts' \subseteq Parcels
    <3>1. Current(c) \in Results
      BY <1>2, CurrentType DEF UpsertParcel, SubInv, RequestOK, InProgress,
                               Current, ResultOf
    <3>2. ParcelOf[Current(c)] \in Parcels
      BY <3>1, ResultAssumption
    <3>3. inserts' = inserts \/ inserts' = inserts \cup {ParcelOf[Current(c)]}
      BY <1>2, Zenon DEF UpsertParcel
    <3> QED  BY <3>2, <3>3 DEF SubInv
  <2> QED  BY <1>2, <2>1, UpsertParcelOK, AdvanceKeeps
<1>3. CASE UpsertFails(c)
  <2>1. Advance(c, Failed(subReq[c]))
    BY <1>3, FailedResultOK DEF UpsertFails
  <2>2. inserts' \subseteq Parcels /\ StoredIffInserted'
    BY <1>3, <1>f DEF UpsertFails, Fault, SubInv, StoredIffInserted
  <2> QED  BY <2>1, <2>2, AdvanceKeeps
<1>4. CASE SubLRange(c)
  <2>1. parcels' = parcels /\ inserts' = inserts /\ faults' = faults
    BY <1>4 DEF SubLRange, vars
  <2> QED  BY <1>4, <1>f, <2>1, SubLRangeOK, StoredKept, AdvanceKeeps
<1>5. CASE SubLRem(c) \/ CompleteFails(c) \/ CompleteClosed(c)
  <2>1. /\ subReq[c].pc \in {"lrange", "lrem"}
        /\ subReq' = [subReq EXCEPT ![c] = NextResult(@)]
        /\ parcels' = parcels /\ inserts' = inserts
        /\ faults' = faults \/ Fault
    BY <1>5 DEF SubLRem, CompleteFails, CompleteClosed, vars
  <2>2. Advance(c, NextResult(subReq[c]))
    BY <2>1, CompletedResultOK
  <2> QED  BY <1>f, <2>1, <2>2, StoredKept, AdvanceKeeps
<1>6. CASE SubReply(c)
  <2>1. /\ subReq' = [subReq EXCEPT ![c] = IdleSub]
        /\ parcels' = parcels /\ inserts' = inserts /\ faults' = faults
    BY <1>6 DEF SubReply, vars
  <2>2. Advance(c, IdleSub)
    BY <1>f, <2>1, IdleOK DEF Advance
  <2> QED  BY <1>f, <2>1, <2>2, StoredKept, AdvanceKeeps
<1>7. CASE PoolClosed(c)
  <2> DEFINE u == [subReq[c] EXCEPT !.pc = "upsert"]
  <2>1. parcels' = parcels /\ inserts' = inserts /\ faults' = faults
    BY <1>7 DEF PoolClosed, vars
  <2>2. CASE subReq[c].pc = "exists"
    <3>1. subReq' = [subReq EXCEPT ![c] = u]
      BY <1>7, <2>2, Zenon DEF PoolClosed
    <3>2. /\ subReq[c] \in SubRequests /\ RequestOK(subReq[c], parcels)
      BY DEF SubInv
    <3>3. /\ u \in SubRequests /\ u.pc = "upsert" /\ u.worker = subReq[c].worker
          /\ u.batch = subReq[c].batch /\ u.at = subReq[c].at
          /\ u.inserted = subReq[c].inserted /\ u.updated = subReq[c].updated
          /\ u.failed = subReq[c].failed /\ u.existed = subReq[c].existed
      BY <3>2 DEF SubRequests
    <3> HIDE DEF u
    <3>4. RequestOK(u, parcels')
      BY <2>1, <2>2, <3>2, <3>3 DEF RequestOK, Typed, Counted, Known, InProgress
    <3>5. Advance(c, u)
      BY <1>f, <2>1, <3>1, <3>4 DEF Advance
    <3> QED  BY <1>f, <2>1, <3>5, StoredKept, AdvanceKeeps
  <2>3. CASE subReq[c].pc = "upsert"
    <3>1. subReq' = [subReq EXCEPT ![c] = Failed(subReq[c])]
      BY <1>7, <2>3 DEF PoolClosed
    <3>2. Advance(c, Failed(subReq[c]))
      BY <2>1, <2>3, <3>1, FailedResultOK
    <3> QED  BY <1>f, <2>1, <3>2, StoredKept, AdvanceKeeps
  <2> QED  BY <1>7, <2>2, <2>3 DEF PoolClosed, NeedsPool
<1> QED  BY <1>1, <1>2, <1>3, <1>4, <1>5, <1>6, <1>7 DEF SubStep

LEMMA SubmitOK ==
    ASSUME TypeOK, SubInv, NEW c \in SubConns, NEW w \in Workers,
           NEW batch \in Batches, SubmitResults(c, w, batch)
    PROVE  SubInv'
<1> DEFINE first == IF batch = <<>> THEN "reply" ELSE "exists"
           r1 == [IdleSub EXCEPT !.pc = first]
           r2 == [r1 EXCEPT !.worker = w]
           r  == [r2 EXCEPT !.batch = batch]
<1>1. batch \in Seq(Results) /\ (batch # <<>> => Len(batch) >= 1)
      /\ (batch = <<>> => Len(batch) = 0)
  BY ResultAssumption
<1>0. first \in {"reply", "exists"} /\ (first = "reply" <=> batch = <<>>)
  OBVIOUS
<1>2. /\ r.pc = first /\ r.worker = w /\ r.batch = batch /\ r.at = 1
      /\ r.existed = FALSE /\ r.inserted = 0 /\ r.updated = 0 /\ r.failed = 0
  BY DEF IdleSub
<1>6. r \in SubRequests
  <2>1. IdleSub \in SubRequests
    BY IdleOK DEF RequestOK, Typed
  <2>2. r1 \in SubRequests
    BY <1>0, <2>1, FieldTypes DEF InProgress
  <2>3. r2 \in SubRequests
    BY <2>2, FieldTypes
  <2> QED  BY <1>1, <2>3, FieldTypes
<1>3. subReq' = [subReq EXCEPT ![c] = r]
      /\ parcels' = parcels /\ inserts' = inserts /\ faults' = faults
  BY DEF SubmitResults, vars
<1> HIDE DEF r, first
<1>4. RequestOK(r, parcels')
  BY <1>0, <1>1, <1>2, <1>6, ErrorAssumption
     DEF RequestOK, Typed, Counted, Known, InProgress
<1>5. Advance(c, r)
  BY <1>3, <1>4 DEF Advance, SubInv
<1> QED  BY <1>3, <1>5, StoredKept, AdvanceKeeps, FaultAssumption DEF TypeOK

\* The requests end with the process; the table stays.
LEMMA StoppedOK ==
    ASSUME TypeOK, SubInv, subReq' = [c \in SubConns |-> IdleSub],
           parcels' = parcels, inserts' = inserts, faults' = faults \/ Fault
    PROVE  SubInv'
<1>1. \A c \in SubConns : RequestOK(subReq'[c], parcels')
  BY IdleOK
<1>2. IdleSub \in SubRequests
  BY IdleOK DEF RequestOK, Typed
<1>3. faults \in Nat
  BY FaultAssumption DEF TypeOK
<1> QED  BY <1>1, <1>2, <1>3, StoredKept DEF SubInv

-----------------------------------------------------------------------------
(* The steps of the queue, in the gateway *)

\* The part of the invariant that is about the queue.
QueueInv ==
    /\ TypeOK
    /\ \A c \in AckConns : ackReq[c].pc = "lrem" => Holds(ackReq[c].raw, ackReq[c].id)

\* Only the steps of TaskQueue change requests of the queue, but for those
\* that meet a closed client and those that end with the process.
LEMMA QueueSteps ==
    ASSUME GatewayNext
    PROVE  \/ [Next]_vars /\ (UNCHANGED resultVars \/ ResultsCrash)
           \/ \E c \in SubConns : SubStep(c) \/ PoolClosed(c) \/ CompleteClosed(c)
           \/ \E c \in SubConns, w \in Workers, b \in Batches : SubmitResults(c, w, b)
           \/ (\E c \in GetConns : PopClosed(c)) \/ (\E c \in AckConns : AckClosed(c))
           \/ Exit
<1>1. QueueStep \/ QueueRequest \/ ExternalStep => Next /\ UNCHANGED resultVars
  BY DEF QueueStep, QueueRequest, ExternalStep, Next
<1>2. GatewayCrash => Next /\ ResultsCrash
  BY DEF GatewayCrash, ResultsCrash, Next
<1>3. OpenRedis \/ OpenPool \/ Listen \/ StartFails \/ Signal \/ Drained \/ GraceOver
        \/ CloseRedis => UNCHANGED vars /\ UNCHANGED resultVars
  BY DEF OpenRedis, OpenPool, Listen, StartFails, Signal, Drained, GraceOver,
         CloseRedis, allVars
<1>4. Accept => QueueRequest \/ ResultsRequest
  BY DEF Accept
<1>5. Proceed => QueueStep \/ \E c \in SubConns : SubStep(c)
  BY DEF Proceed
<1> QED  BY <1>1, <1>2, <1>3, <1>4, <1>5 DEF GatewayNext, ResultsRequest

LEMMA NextQueueInv == QueueInv /\ [Next]_vars => QueueInv'
<1> SUFFICES ASSUME QueueInv, [Next]_vars
             PROVE  QueueInv'
  OBVIOUS
<1>1. TypeOK /\ TypeOK'
  BY NextType DEF QueueInv
<1>2. ASSUME NEW c \in AckConns, ackReq'[c].pc = "lrem"
      PROVE  Holds(ackReq'[c].raw, ackReq'[c].id)
  BY <1>1, <1>2, AckSteps DEF QueueInv
<1> QED  BY <1>1, <1>2 DEF QueueInv, Holds

\* What a submission does to the queue.
LEMMA SubQueueInv ==
    ASSUME QueueInv, SubInv, NEW c \in SubConns,
           SubStep(c) \/ PoolClosed(c) \/ CompleteClosed(c)
    PROVE  /\ QueueInv'
           /\ \/ redis' = redis
              \/ /\ subReq[c].pc = "lrem"
                 /\ LRemOne(processingKey(subReq[c].worker), subReq[c].raw)
<1>1. /\ getReq' = getReq /\ ackReq' = ackReq /\ received' = received
      /\ faults' = faults \/ Fault
      /\ \/ redis' = redis
         \/ /\ subReq[c].pc = "lrem"
            /\ LRemOne(processingKey(subReq[c].worker), subReq[c].raw)
  BY DEF SubStep, SelectExists, SelectExistsFails, UpsertParcel, UpsertFails,
         SubLRange, SubLRem, CompleteFails, SubReply, PoolClosed, CompleteClosed, vars
<1>2. faults' \in 0..MaxFaults
  BY <1>1, FaultAssumption DEF Fault, QueueInv, TypeOK
<1>3. redis' \in [Keys -> Seq(Entries)]
  <2>1. ASSUME subReq[c].pc = "lrem",
               LRemOne(processingKey(subReq[c].worker), subReq[c].raw)
        PROVE  redis' \in [Keys -> Seq(Entries)]
    <3>1. processingKey(subReq[c].worker) \in Keys
      BY <2>1, KeyLemma DEF SubInv, RequestOK, Typed, Keys
    <3> QED  BY <2>1, <3>1, RemLemma DEF QueueInv, TypeOK
  <2> QED  BY <1>1, <2>1 DEF QueueInv, TypeOK
<1> QED  BY <1>1, <1>2, <1>3 DEF QueueInv, TypeOK

\* A closed client.
LEMMA ClosedQueueInv ==
    ASSUME QueueInv,
           (\E c \in GetConns : PopClosed(c)) \/ (\E c \in AckConns : AckClosed(c))
    PROVE  QueueInv' /\ redis' = redis
<1>1. ASSUME NEW c \in GetConns, PopClosed(c)
      PROVE  QueueInv'
  BY <1>1, RequestTypes DEF PopClosed, QueueInv, TypeOK, IdleGet
<1>2. ASSUME NEW c \in AckConns, AckClosed(c)
      PROVE  QueueInv'
  <2>1. /\ redis' = redis /\ getReq' = getReq /\ received' = received
        /\ faults' = faults /\ ackReq \in [AckConns -> AckRequests]
    BY <1>2 DEF AckClosed, QueueInv, TypeOK
  <2>2. CASE ackReq' = [ackReq EXCEPT ![c] = IdleAck]
    BY <2>1, <2>2, RequestTypes DEF QueueInv, TypeOK, IdleAck
  <2>3. CASE ackReq[c].pc = "lrem" /\ ackReq' = [ackReq EXCEPT ![c].pc = "reply"]
    <3>1. ackReq' \in [AckConns -> AckRequests]
      BY <2>1, <2>3 DEF AckRequests
    <3>2. ackReq'[c].pc = "reply" /\ ackReq'[c].worker = ackReq[c].worker
      BY <2>1, <2>3 DEF AckRequests
    <3> QED  BY <2>1, <2>3, <3>1, <3>2 DEF QueueInv, TypeOK
  <2> QED  BY <1>2, <2>2, <2>3 DEF AckClosed
<1>3. redis' = redis
  BY DEF PopClosed, AckClosed
<1> QED  BY <1>1, <1>2, <1>3

LEMMA ExitQueueInv ==
    ASSUME QueueInv, Exit
    PROVE  QueueInv' /\ redis' = redis
  BY RequestTypes DEF Exit, QueueInv, TypeOK, IdleGet, IdleAck

-----------------------------------------------------------------------------
(* The invariant of the gateway *)

LifeInv ==
    /\ phase \in Starting \cup Running
    /\ cut \in BOOLEAN
    /\ phase \in Starting => AllIdle

GatewayInv == QueueInv /\ SubInv /\ LifeInv

LEMMA GatewayInitInv == GatewayInit => GatewayInv
<1> SUFFICES ASSUME GatewayInit
             PROVE  GatewayInv
  OBVIOUS
<1>1. QueueInv
  BY InitType DEF GatewayInit, ResultsInit, Init, IdleAck, QueueInv
<1>2. SubInv
  <2>1. IdleSub \in SubRequests
    BY IdleOK DEF RequestOK, Typed
  <2> QED  BY <2>1, IdleOK DEF GatewayInit, ResultsInit, SubInv, StoredIffInserted
<1>3. LifeInv
  BY DEF GatewayInit, ResultsInit, Init, LifeInv, Starting, Running, AllIdle,
         IdleGet, IdleAck, IdleSub
<1> QED  BY <1>1, <1>2, <1>3 DEF GatewayInv

\* The queue and the submissions.
LEMMA RequestsKept == GatewayInv /\ [GatewayNext]_gatewayVars => QueueInv' /\ SubInv'
<1> SUFFICES ASSUME GatewayInv, [GatewayNext]_gatewayVars
             PROVE  QueueInv' /\ SubInv'
  OBVIOUS
<1>1. QueueInv /\ SubInv /\ TypeOK /\ faults \in Nat
  BY FaultAssumption DEF GatewayInv, QueueInv, TypeOK
<1>2. ASSUME [Next]_vars, UNCHANGED resultVars
      PROVE  QueueInv' /\ SubInv'
  <2>1. faults' = faults \/ Fault
    BY <1>2 DEF Next, vars, PushTask, GetWork, GetStep, PopEmpty, PopTask,
                PopUndecodable, PopFails, PopResent, SendWork, LoseWork, AckRequest,
                AckStep, AckLRange, AckLRangeFails, AckLRem, AckLRemFails, AckReply,
                Crash, WorkerRestart
  <2>2. parcels' = parcels /\ inserts' = inserts /\ subReq' = subReq
    BY <1>2 DEF resultVars
  <2> QED  BY <1>1, <1>2, <2>1, <2>2, NextQueueInv, StoredKept DEF SubInv
<1>3. ASSUME [Next]_vars, ResultsCrash
      PROVE  QueueInv' /\ SubInv'
  BY <1>1, <1>3, NextQueueInv, StoppedOK DEF ResultsCrash, Crash
<1>4. ASSUME NEW c \in SubConns, SubStep(c) \/ PoolClosed(c) \/ CompleteClosed(c)
      PROVE  QueueInv' /\ SubInv'
  BY <1>1, <1>4, SubQueueInv, SubStepOK
<1>5. ASSUME NEW c \in SubConns, NEW w \in Workers, NEW b \in Batches,
             SubmitResults(c, w, b)
      PROVE  QueueInv' /\ SubInv'
  <2>1. UNCHANGED vars
    BY <1>5 DEF SubmitResults
  <2> QED  BY <1>1, <1>5, <2>1, NextQueueInv, SubmitOK
<1>6. CASE (\E c \in GetConns : PopClosed(c)) \/ (\E c \in AckConns : AckClosed(c))
  <2>1. parcels' = parcels /\ inserts' = inserts /\ subReq' = subReq /\ faults' = faults
    BY <1>6 DEF PopClosed, AckClosed, resultVars
  <2> QED  BY <1>1, <1>6, <2>1, ClosedQueueInv, StoredKept DEF SubInv
<1>7. CASE Exit
  BY <1>1, <1>7, ExitQueueInv, StoppedOK DEF Exit
<1>8. CASE UNCHANGED gatewayVars
  BY <1>2, <1>8 DEF gatewayVars, allVars
<1> QED  BY <1>2, <1>3, <1>4, <1>5, <1>6, <1>7, <1>8, QueueSteps

\* A process that does not serve yet has no requests.
LEMMA LifeKept == GatewayInv /\ [GatewayNext]_gatewayVars => LifeInv'
<1> SUFFICES ASSUME GatewayInv, [GatewayNext]_gatewayVars
             PROVE  LifeInv'
  OBVIOUS
<1> USE DEF GatewayInv, LifeInv, Starting, Running
<1>1. CASE OpenRedis \/ OpenPool \/ Listen \/ StartFails \/ Signal \/ Drained
           \/ GraceOver \/ CloseRedis
  BY <1>1 DEF OpenRedis, OpenPool, Listen, StartFails, Signal, Drained, GraceOver,
              CloseRedis, AllIdle, allVars, vars, resultVars
<1>2. CASE Exit \/ GatewayCrash
  <2>1. phase' = "down" /\ cut' = cut
    BY <1>2 DEF Exit, GatewayCrash
  <2>2. /\ getReq' = [c \in GetConns |-> IdleGet]
        /\ ackReq' = [c \in AckConns |-> IdleAck]
        /\ subReq' = [c \in SubConns |-> IdleSub]
    BY <1>2 DEF Exit, GatewayCrash, ResultsCrash, Crash
  <2>3. AllIdle'
    BY <2>2 DEF AllIdle, IdleGet, IdleAck, IdleSub
  <2> QED  BY <2>1, <2>3
<1>3. CASE Accept \/ Proceed
  <2>1. phase \in {"serving", "draining", "pool closed"}
    BY <1>3 DEF Accept, Proceed, RedisOpen
  <2>2. phase' = phase /\ cut' = cut
    BY <1>3, Zenon DEF Accept, Proceed, lifeVars
  <2> QED  BY <2>1, <2>2
<1>4. CASE ExternalStep /\ UNCHANGED lifeVars
  BY <1>4 DEF ExternalStep, PushTask, WorkerRestart, AllIdle, resultVars, lifeVars
<1>5. CASE \/ \E c \in SubConns : PoolClosed(c) \/ CompleteClosed(c)
           \/ \E c \in GetConns : PopClosed(c)
           \/ \E c \in AckConns : AckClosed(c)
  BY <1>5 DEF PoolClosed, CompleteClosed, PopClosed, AckClosed, lifeVars
<1>6. CASE UNCHANGED gatewayVars
  BY <1>6 DEF gatewayVars, lifeVars, allVars, vars, resultVars, AllIdle
<1> QED  BY <1>1, <1>2, <1>3, <1>4, <1>5, <1>6 DEF GatewayNext

LEMMA GatewayNextInv == GatewayInv /\ [GatewayNext]_gatewayVars => GatewayInv'
  BY RequestsKept, LifeKept DEF GatewayInv

LEMMA GatewayInvariant == GatewaySpec => []GatewayInv
  BY GatewayInitInv, GatewayNextInv, PTL DEF GatewaySpec

-----------------------------------------------------------------------------
(* Theorems *)

\* The types, and: a process that does not serve yet has no requests.
THEOREM GatewayTypeCorrect == GatewaySpec => []GatewayTypeOK
<1>1. GatewayInv => GatewayTypeOK
  BY DEF GatewayInv, QueueInv, SubInv, LifeInv, RequestOK, Typed, GatewayTypeOK,
         ResultsTypeOK
<1> QED  BY <1>1, GatewayInvariant, PTL

\* A response of the results handler accounts for its whole batch, or for
\* MaxErrors + 1 failures, whatever statement fails and whenever a client closes.
THEOREM BatchesCounted == GatewaySpec => []EveryResultCounted
<1>1. GatewayInv => EveryResultCounted
  BY DEF GatewayInv, SubInv, RequestOK, Counted, EveryResultCounted
<1> QED  BY <1>1, GatewayInvariant, PTL

\* While no statement fails, the parcels in the table are those counted as
\* inserted, whatever submissions of one parcel interleave.
THEOREM InsertedParcelsStored == GatewaySpec => []StoredIffInserted
<1>1. GatewayInv => StoredIffInserted
  BY DEF GatewayInv, SubInv
<1> QED  BY <1>1, GatewayInvariant, PTL

\* What the steps of the queue take from a list of processed entries.
LEMMA QueueRemovals ==
    ASSUME QueueInv, [Next]_vars, NEW w \in Workers,
           NEW e \in ToSet(redis[processingKey(w)])
    PROVE  \/ e \in ToSet(redis'[processingKey(w)])
           \/ \E c \in AckConns : /\ ackReq[c].pc = "lrem"
                                  /\ ackReq[c].worker = w
                                  /\ Holds(e, ackReq[c].id)
<1> DEFINE pk == processingKey(w)
<1>1. /\ pk \in ProcessingKeys /\ pk \in Keys /\ TypeOK
      /\ redis \in [Keys -> Seq(Entries)] /\ pk \notin QueueKeys
  BY KeyLemma DEF Keys, QueueInv, TypeOK
<1>2. ASSUME NEW d \in Entries, NEW k \in QueueKeys, PushTask(d, k)
      PROVE  redis'[pk] = redis[pk]
  BY <1>1, <1>2, PushSets
<1>3. ASSUME NEW c \in GetConns, Popping(c), MoveOldest(getReq[c])
      PROVE  e \in ToSet(redis'[pk])
  <2> DEFINE src == SourceKey(getReq[c])
             dst == processingKey(getReq[c].worker)
  <2>1. /\ src \in QueueKeys /\ dst \in ProcessingKeys
        /\ redis[src] # <<>> /\ Last(redis[src]) \in Entries
        /\ redis'[dst] = Cons(Last(redis[src]), redis[dst])
        /\ \A k \in Keys \ {src, dst} : redis'[k] = redis[k]
    BY <1>1, <1>3, PopMoves
  <2> HIDE DEF src
  <2>2. pk # src
    BY <1>1, <2>1
  <2>3. CASE pk = dst
    BY <1>1, <2>1, <2>3, ConsSet
  <2>4. CASE pk # dst
    BY <1>1, <2>1, <2>2, <2>4
  <2> QED  BY <2>3, <2>4
<1>4. ASSUME NEW c \in AckConns, ackReq[c].pc = "lrem",
             LRemOne(processingKey(ackReq[c].worker), ackReq[c].raw)
      PROVE  e \in ToSet(redis'[pk]) \/ (ackReq[c].worker = w /\ e = ackReq[c].raw)
  <2>1. ackReq[c].worker \in Workers /\ processingKey(ackReq[c].worker) \in Keys
    BY <1>1, <1>4, KeyLemma DEF TypeOK, Keys
  <2>2. \/ e \in ToSet(redis'[pk])
        \/ pk = processingKey(ackReq[c].worker) /\ e = ackReq[c].raw
    BY <1>1, <1>4, <2>1, RemKeepsOthers
  <2> QED  BY <2>1, <2>2, KeyLemma
<1>5. \/ redis' = redis
      \/ \E d \in Entries, k \in QueueKeys : PushTask(d, k)
      \/ \E c \in GetConns : Popping(c) /\ MoveOldest(getReq[c])
      \/ \E c \in AckConns : /\ ackReq[c].pc = "lrem"
                             /\ LRemOne(processingKey(ackReq[c].worker), ackReq[c].raw)
  BY <1>1, ListSteps
<1> QED  BY <1>2, <1>3, <1>4, <1>5 DEF QueueInv

\* A result whose task is completed is in the table: no crash, failed statement
\* or closed client comes between the two so that it is lost.
THEOREM StoredBeforeCompleted == GatewaySpec => CompletedOnlyWhenStored
<1> DEFINE Kept(w, e) ==
              \/ e \in ToSet(redis'[processingKey(w)])
              \/ \E c \in AckConns : /\ ackReq[c].pc = "lrem"
                                     /\ ackReq[c].worker = w
                                     /\ Holds(e, ackReq[c].id)
              \/ \E c \in SubConns :
                    /\ subReq[c].pc = "lrem"
                    /\ subReq[c].worker = w
                    /\ Holds(e, ResultTask[Current(c)])
                    /\ parcels[ParcelOf[Current(c)]] # None
<1>1. ASSUME GatewayInv, [GatewayNext]_gatewayVars, NEW w \in Workers,
             NEW e \in ToSet(redis[processingKey(w)])
      PROVE  Kept(w, e)
  <2>1. QueueInv /\ SubInv /\ TypeOK
    BY <1>1 DEF GatewayInv, QueueInv
  <2>2. ASSUME [Next]_vars
        PROVE  Kept(w, e)
    BY <1>1, <2>1, <2>2, QueueRemovals
  <2>3. ASSUME NEW c \in SubConns, SubStep(c) \/ PoolClosed(c) \/ CompleteClosed(c)
        PROVE  Kept(w, e)
    <3>1. \/ redis' = redis
          \/ /\ subReq[c].pc = "lrem"
             /\ LRemOne(processingKey(subReq[c].worker), subReq[c].raw)
      BY <2>1, <2>3, SubQueueInv
    <3>2. ASSUME subReq[c].pc = "lrem",
                 LRemOne(processingKey(subReq[c].worker), subReq[c].raw),
                 e \notin ToSet(redis'[processingKey(w)])
          PROVE  Kept(w, e)
      <4>1. /\ subReq[c].worker \in Workers
            /\ Holds(subReq[c].raw, ResultTask[Current(c)])
            /\ parcels[ParcelOf[Current(c)]] # None
        BY <2>1, <3>2 DEF SubInv, RequestOK, Typed, Known, Current, ResultOf
      <4>2. /\ processingKey(subReq[c].worker) \in Keys /\ processingKey(w) \in Keys
            /\ redis \in [Keys -> Seq(Entries)]
        BY <2>1, <4>1, KeyLemma DEF TypeOK, Keys
      <4>3. processingKey(subReq[c].worker) = processingKey(w) /\ e = subReq[c].raw
        BY <1>1, <3>2, <4>2, RemKeepsOthers
      <4>4. subReq[c].worker = w
        BY <4>1, <4>3, KeyLemma
      <4> QED  BY <3>2, <4>1, <4>3, <4>4
    <3> QED  BY <1>1, <3>1, <3>2
  <2>4. ASSUME redis' = redis
        PROVE  Kept(w, e)
    BY <1>1, <2>4
  <2>5. ASSUME NEW c \in SubConns, NEW v \in Workers, NEW b \in Batches,
               SubmitResults(c, v, b)
        PROVE  redis' = redis
    BY <2>5 DEF SubmitResults, vars
  <2>6. (\E c \in GetConns : PopClosed(c)) \/ (\E c \in AckConns : AckClosed(c))
           \/ Exit => redis' = redis
    BY DEF PopClosed, AckClosed, Exit
  <2>7. UNCHANGED gatewayVars => redis' = redis
    BY DEF gatewayVars, allVars, vars
  <2> HIDE DEF Kept
  <2> QED  BY <1>1, <2>2, <2>3, <2>4, <2>5, <2>6, <2>7, QueueSteps
<1>2. GatewayInv /\ [GatewayNext]_gatewayVars =>
         [\A w \in Workers : \A e \in ToSet(redis[processingKey(w)]) : Kept(w, e)]_allVars
  BY <1>1
<1> QED  BY <1>2, GatewayInvariant, PTL DEF GatewaySpec, CompletedOnlyWhenStored
-----------------------------------------------------------------------------
(* Stops that are not cut short *)

\* A request that ended before the clients were closed needs them no more.
GraceInv ==
    ~cut => /\ StrandInv
            /\ phase \in {"pool closed", "redis closed"} => AllIdle

\* A step of a request is one of a request in progress.
LEMMA IdleStays ==
    ASSUME AllIdle
    PROVE  /\ ~QueueStep
           /\ \A c \in SubConns : ~SubStep(c) /\ ~PoolClosed(c) /\ ~CompleteClosed(c)
           /\ \A c \in GetConns : ~PopClosed(c)
           /\ \A c \in AckConns : ~AckClosed(c)
<1>1. \A c \in GetConns : ~GetStep(c) /\ ~PopClosed(c)
  BY DEF AllIdle, GetStep, PopEmpty, PopTask, PopUndecodable, PopFails, PopResent,
         SendWork, LoseWork, PopClosed, Popping
<1>2. \A c \in AckConns : ~AckStep(c) /\ ~AckClosed(c)
  BY DEF AllIdle, AckStep, AckLRange, AckLRangeFails, AckLRem, AckLRemFails, AckReply,
         AckClosed
<1>3. \A c \in SubConns : ~SubStep(c) /\ ~PoolClosed(c) /\ ~CompleteClosed(c)
  BY DEF AllIdle, SubStep, SelectExists, SelectExistsFails, UpsertParcel, UpsertFails,
         SubLRange, SubLRem, CompleteFails, SubReply, PoolClosed, CompleteClosed, NeedsPool
<1> QED  BY <1>1, <1>2, <1>3 DEF QueueStep

\* What was cut short stays so.
LEMMA CutStays == [GatewayNext]_gatewayVars => cut' = cut \/ cut' = TRUE
  BY DEF GatewayNext, OpenRedis, OpenPool, Listen, StartFails, Signal, Drained,
         GraceOver, CloseRedis, Exit, GatewayCrash, Accept, Proceed, PoolClosed,
         CompleteClosed, PopClosed, AckClosed, gatewayVars, lifeVars

\* The clients are closed when no request is left.
LEMMA ClosedIdle ==
    ASSUME GatewayInv, GraceInv, [GatewayNext]_gatewayVars, ~cut, ~cut',
           phase' \in {"pool closed", "redis closed"}
    PROVE  AllIdle'
<1>1. CASE Drained \/ CloseRedis
  BY <1>1 DEF Drained, CloseRedis, GraceInv, AllIdle, allVars, vars, resultVars
<1>2. CASE ExternalStep /\ UNCHANGED lifeVars
  BY <1>2 DEF ExternalStep, PushTask, WorkerRestart, GraceInv, AllIdle, resultVars, lifeVars
<1>3. CASE UNCHANGED gatewayVars
  BY <1>3 DEF GraceInv, gatewayVars, lifeVars, allVars, vars, resultVars, AllIdle
<1>4. ASSUME UNCHANGED lifeVars
      PROVE  AllIdle
  BY <1>4 DEF lifeVars, GraceInv
<1>5. CASE \/ \E c \in SubConns : PoolClosed(c) \/ CompleteClosed(c)
           \/ \E c \in GetConns : PopClosed(c)
           \/ \E c \in AckConns : AckClosed(c)
  <2>1. UNCHANGED lifeVars
    BY <1>5 DEF PoolClosed, CompleteClosed, PopClosed, AckClosed, lifeVars
  <2> QED  BY <1>4, <1>5, <2>1, IdleStays
<1>6. CASE Proceed
  <2>1. UNCHANGED lifeVars /\ (QueueStep \/ \E c \in SubConns : SubStep(c))
    BY <1>6 DEF Proceed
  <2> QED  BY <1>4, <2>1, IdleStays
<1>7. ~Accept
  BY DEF Accept, lifeVars
<1>8. /\ ~OpenRedis /\ ~OpenPool /\ ~Listen /\ ~StartFails /\ ~Signal /\ ~Exit
      /\ ~GraceOver /\ ~GatewayCrash
  BY DEF OpenRedis, OpenPool, Listen, StartFails, Signal, Exit, GraceOver, GatewayCrash
<1> QED  BY <1>1, <1>2, <1>3, <1>5, <1>6, <1>7, <1>8 DEF GatewayNext

\* A submission strands nothing: what it completes decodes.
LEMMA SubStrand ==
    ASSUME GatewayInv, StrandInv, NEW c \in SubConns,
           SubStep(c) \/ PoolClosed(c) \/ CompleteClosed(c)
    PROVE  StrandInv'
<1>1. /\ getReq' = getReq /\ received' = received
      /\ faults' = faults \/ Fault
  BY DEF SubStep, SelectExists, SelectExistsFails, UpsertParcel, UpsertFails,
         SubLRange, SubLRem, CompleteFails, SubReply, PoolClosed, CompleteClosed, vars
<1>2. IdleCarriesNothing'
  BY <1>1 DEF StrandInv, IdleCarriesNothing
<1>3. CASE Fault
  BY <1>2, <1>3, FaultAssumption
     DEF Fault, StrandInv, StrandedOnlyByFault, GatewayInv, QueueInv, TypeOK
<1>4. CASE faults' = faults /\ redis' = redis
  BY <1>1, <1>2, <1>4, StrandSame DEF StrandInv
<1>5. CASE /\ faults' = faults /\ subReq[c].pc = "lrem"
           /\ LRemOne(processingKey(subReq[c].worker), subReq[c].raw)
  <2>1. subReq[c].worker \in Workers /\ subReq[c].raw \notin Undecodable
    BY <1>5 DEF GatewayInv, SubInv, RequestOK, Typed, Known, Holds
  <2> QED  BY <1>1, <1>2, <1>5, <2>1, StrandRem DEF StrandInv, GatewayInv, QueueInv
<1>6. \/ redis' = redis
      \/ /\ subReq[c].pc = "lrem"
         /\ LRemOne(processingKey(subReq[c].worker), subReq[c].raw)
  BY SubQueueInv DEF GatewayInv
<1> QED  BY <1>1, <1>3, <1>4, <1>5, <1>6

\* Every step keeps the entries known, as long as no stop was cut short.
LEMMA GraceNext == GatewayInv /\ GraceInv /\ [GatewayNext]_gatewayVars => GraceInv'
<1> SUFFICES ASSUME GatewayInv, GraceInv, [GatewayNext]_gatewayVars, ~cut'
             PROVE  /\ StrandInv'
                    /\ phase' \in {"pool closed", "redis closed"} => AllIdle'
  BY DEF GraceInv
<1>1. ~cut /\ StrandInv /\ (phase \in {"pool closed", "redis closed"} => AllIdle)
  BY CutStays DEF GraceInv, GatewayInv, LifeInv
<1>2. phase' \in {"pool closed", "redis closed"} => AllIdle'
  BY <1>1, ClosedIdle
<1>3. TypeOK /\ AcksDecode
  BY DEF GatewayInv, QueueInv, AcksDecode, Holds
<1>4. ASSUME [Next]_vars
      PROVE  StrandInv'
  BY <1>1, <1>3, <1>4, NextStrand
<1>5. ASSUME NEW c \in SubConns, NEW w \in Workers, NEW b \in Batches,
             SubmitResults(c, w, b)
      PROVE  StrandInv'
  BY <1>4, <1>5 DEF SubmitResults
<1>6. ASSUME NEW c \in GetConns, PopClosed(c)
      PROVE  FALSE
  BY <1>1, <1>6, IdleStays DEF PopClosed
<1>7. ASSUME NEW c \in AckConns, AckClosed(c)
      PROVE  FALSE
  BY <1>1, <1>7, IdleStays DEF AckClosed
<1>8. ASSUME Exit
      PROVE  StrandInv'
  <2>1. /\ redis' = redis /\ received' = received /\ faults' = faults
        /\ \A c \in GetConns : getReq'[c] = IdleGet /\ getReq[c].tasks = <<>>
    BY <1>1, <1>8 DEF Exit, AllIdle, StrandInv, IdleCarriesNothing
  <2>2. IdleCarriesNothing'
    BY <2>1 DEF IdleCarriesNothing, IdleGet
  <2>3. StrandedOnlyByFault
    BY <1>1 DEF StrandInv
  <2>4. StrandedOnlyByFault'
    BY <2>1, <2>3, StrandSame
  <2> QED  BY <2>2, <2>4 DEF StrandInv
<1>9. ASSUME UNCHANGED gatewayVars
      PROVE  StrandInv'
  <2>1. UNCHANGED vars
    BY <1>9 DEF gatewayVars, allVars
  <2> QED  BY <1>4, <2>1
<1>10. StrandInv'
  BY <1>1, <1>4, <1>5, <1>6, <1>7, <1>8, <1>9, SubStrand, QueueSteps
<1> QED  BY <1>2, <1>10

\* Stops that are not cut short, and the starts after them, strand no entry.
THEOREM GracefulStops == GatewaySpec => []GracefulLosesNothing
<1>1. GatewayInit => GraceInv
  BY InitStrand DEF GatewayInit, ResultsInit, GraceInv
<1>2. GraceInv => GracefulLosesNothing
  BY DEF GraceInv, StrandInv, GracefulLosesNothing
<1> QED  BY <1>1, <1>2, GraceNext, GatewayInvariant, PTL DEF GatewaySpec
-----------------------------------------------------------------------------
(* The queue inside the gateway: submissions complete tasks of the lists that *)
(* the other requests pop from and acknowledge, clients close under requests  *)
(* in progress, and the process stops and starts.                             *)

\* What a submission does to the queue: it removes at most one entry from the
\* processing list of its worker.
LEMMA SubRemoves ==
    ASSUME GatewayInv, NEW c \in SubConns,
           SubStep(c) \/ PoolClosed(c) \/ CompleteClosed(c)
    PROVE  /\ getReq' = getReq /\ ackReq' = ackReq /\ received' = received
           /\ \/ redis' = redis
              \/ /\ subReq[c].worker \in Workers /\ subReq[c].raw \in Entries
                 /\ LRemOne(processingKey(subReq[c].worker), subReq[c].raw)
<1>1. /\ getReq' = getReq /\ ackReq' = ackReq /\ received' = received
  BY DEF SubStep, SelectExists, SelectExistsFails, UpsertParcel, UpsertFails,
         SubLRange, SubLRem, CompleteFails, SubReply, PoolClosed, CompleteClosed, vars
<1>2. \/ redis' = redis
      \/ /\ subReq[c].pc = "lrem"
         /\ LRemOne(processingKey(subReq[c].worker), subReq[c].raw)
  BY SubQueueInv DEF GatewayInv
<1>3. subReq[c].pc = "lrem" => subReq[c].worker \in Workers /\ subReq[c].raw \in Entries
  BY DEF GatewayInv, SubInv, RequestOK, Typed
<1> QED  BY <1>1, <1>2, <1>3

\* Requests that meet a closed client, or end with the process, end without a
\* success and without a command.
LEMMA EndedRequests ==
    ASSUME QueueOK,
           \/ (\E c \in GetConns : PopClosed(c)) \/ (\E c \in AckConns : AckClosed(c))
           \/ Exit
    PROVE  /\ redis' = redis /\ received' = received
           /\ \A c \in GetConns : getReq'[c] \in {getReq[c], IdleGet}
           /\ \A c \in AckConns :
                 \/ ackReq'[c] = ackReq[c]
                 \/ ackReq'[c].pc \in {"idle", "reply"} /\ ~ackReq'[c].ok
<1>1. /\ getReq \in [GetConns -> GetRequests]
      /\ ackReq \in [AckConns -> AckRequests]
      /\ \A c \in AckConns : ackReq[c].pc = "lrem" => ~ackReq[c].ok
      /\ IdleAck.pc = "idle" /\ ~IdleAck.ok
  BY DEF QueueOK, TypeOK, AckInv, IdleAck
<1>2. ASSUME NEW c \in GetConns, PopClosed(c)
      PROVE  /\ \A d \in GetConns : getReq'[d] \in {getReq[d], IdleGet}
             /\ ackReq' = ackReq /\ redis' = redis /\ received' = received
  BY <1>1, <1>2 DEF PopClosed
<1>3. ASSUME NEW c \in AckConns, AckClosed(c)
      PROVE  /\ \A d \in AckConns :
                    \/ ackReq'[d] = ackReq[d]
                    \/ ackReq'[d].pc \in {"idle", "reply"} /\ ~ackReq'[d].ok
             /\ getReq' = getReq /\ redis' = redis /\ received' = received
  <2>1. CASE ackReq' = [ackReq EXCEPT ![c] = IdleAck]
    BY <1>1, <1>3, <2>1 DEF AckClosed
  <2>2. CASE ackReq[c].pc = "lrem" /\ ackReq' = [ackReq EXCEPT ![c].pc = "reply"]
    <3>1. ackReq'[c].pc = "reply" /\ ackReq'[c].ok = ackReq[c].ok
      BY <1>1, <2>2 DEF AckRequests
    <3>2. \A d \in AckConns : d # c => ackReq'[d] = ackReq[d]
      BY <1>1, <2>2
    <3> QED  BY <1>1, <1>3, <2>2, <3>1, <3>2 DEF AckClosed
  <2> QED  BY <1>3, <2>1, <2>2 DEF AckClosed
<1>4. ASSUME Exit
      PROVE  /\ \A c \in GetConns : getReq'[c] = IdleGet
             /\ \A c \in AckConns : ackReq'[c] = IdleAck
             /\ redis' = redis /\ received' = received
  BY <1>4 DEF Exit
<1> QED  BY <1>1, <1>2, <1>3, <1>4

\* The invariant of the queue holds in the gateway.
LEMMA QueueKept == GatewayInv /\ QueueOK /\ [GatewayNext]_gatewayVars => QueueOK'
<1> SUFFICES ASSUME GatewayInv, QueueOK, [GatewayNext]_gatewayVars
             PROVE  QueueOK'
  OBVIOUS
<1>1. TypeOK'
  BY GatewayNextInv DEF GatewayInv, QueueInv
<1>2. ASSUME NEW c \in SubConns, SubStep(c) \/ PoolClosed(c) \/ CompleteClosed(c)
      PROVE  QueueOK'
  BY <1>1, <1>2, SubRemoves, EndingOK
<1>3. ASSUME \/ (\E c \in GetConns : PopClosed(c)) \/ (\E c \in AckConns : AckClosed(c))
             \/ Exit
      PROVE  QueueOK'
  BY <1>1, <1>3, EndedRequests, EndingOK
<1>4. (\E c \in SubConns, w \in Workers, b \in Batches : SubmitResults(c, w, b))
         \/ UNCHANGED gatewayVars => UNCHANGED vars
  BY DEF SubmitResults, gatewayVars, allVars
<1> QED  BY <1>2, <1>3, <1>4, NextQueueOK, QueueSteps

LEMMA GatewayQueueOK == GatewaySpec => [](GatewayInv /\ QueueOK)
<1>1. GatewayInit => QueueOK
  BY InitQueueOK DEF GatewayInit, ResultsInit
<1> QED  BY <1>1, GatewayInvariant, QueueKept, PTL DEF GatewaySpec

\* No payload is copied, although submissions remove entries too and requests
\* are cut off by a stop.
THEOREM GatewayKeepsOnePlace == GatewaySpec => []OnePlace
<1>1. QueueOK => OnePlace
  BY DEF QueueOK
<1> QED  BY <1>1, GatewayQueueOK, PTL

\* A payload is handed to one worker, in one response, whatever submissions
\* complete meanwhile and across every stop and start.
THEOREM GatewayHandsOutOnce == GatewaySpec => []DeliveredOnce
<1>1. QueueOK => DeliveredOnce
  BY DEF QueueOK, HandInv
<1> QED  BY <1>1, GatewayQueueOK, PTL

\* A response holds at most capacity tasks and at most one of each list, also
\* when the loops of PopTasks are cut short by a closed client.
THEOREM GatewayResponsesBounded == GatewaySpec => []ResponseBounded
<1>1. QueueOK => ResponseBounded
  BY BoundedResponses DEF QueueOK, AllBounded
<1> QED  BY <1>1, GatewayQueueOK, PTL

\* A success of /tasks leaves no trace of its entry, also when a submission
\* completes the same task between its LRANGE and its LREM.
THEOREM GatewaySuccessesFinal == GatewaySpec => []SuccessMeansGone
<1>1. QueueOK => SuccessMeansGone
  BY DEF QueueOK, TypeOK, AckInv, SuccessMeansGone, Stored
<1> QED  BY <1>1, GatewayQueueOK, PTL

\* The composition keeps the promise of the ledger: a submission settles one
\* payload of its worker at a time, and a stop or a closed client none.
THEOREM GatewayImplementsLedger == GatewaySpec => ImplementsLedger
<1>1. GatewayInv /\ QueueOK /\ [GatewayNext]_gatewayVars =>
          [Ledger!Next]_<<Waiting, Claimed>>
  <2> SUFFICES ASSUME GatewayInv, QueueOK, [GatewayNext]_gatewayVars
               PROVE  Ledger!Next \/ UNCHANGED <<Waiting, Claimed>>
    OBVIOUS
  <2>1. CASE [Next]_vars
    BY <2>1, NextLedger DEF QueueOK
  <2>2. CASE redis' = redis
    BY <2>2 DEF Waiting, Claimed
  <2>3. ASSUME NEW c \in SubConns, SubStep(c) \/ PoolClosed(c) \/ CompleteClosed(c)
        PROVE  Ledger!Next \/ UNCHANGED <<Waiting, Claimed>>
    <3>1. \/ redis' = redis
          \/ /\ subReq[c].worker \in Workers /\ subReq[c].raw \in Entries
             /\ LRemOne(processingKey(subReq[c].worker), subReq[c].raw)
      BY <2>3, SubRemoves
    <3> QED  BY <2>2, <3>1, RemovalSettles DEF QueueOK, Ledger!Next
  <2>4. (\E c \in GetConns : PopClosed(c)) \/ (\E c \in AckConns : AckClosed(c))
           \/ Exit => redis' = redis
    BY DEF PopClosed, AckClosed, Exit
  <2>5. (\E c \in SubConns, w \in Workers, b \in Batches : SubmitResults(c, w, b))
           \/ UNCHANGED gatewayVars => redis' = redis
    BY DEF SubmitResults, gatewayVars, allVars, vars
  <2> QED  BY <2>1, <2>2, <2>3, <2>4, <2>5, QueueSteps
<1>2. GatewayInit => Ledger!Init
  BY InitLedger DEF GatewayInit, ResultsInit
<1> QED  BY <1>1, <1>2, GatewayQueueOK, PTL
         DEF GatewaySpec, ImplementsLedger, Ledger!Spec
=============================================================================

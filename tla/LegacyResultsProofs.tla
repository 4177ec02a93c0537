------------------------ MODULE LegacyResultsProofs ------------------------
(***************************************************************************)
(* Theorems about LegacyResults: what a submission leaves behind for any   *)
(* tasks, batches and number of requests.                                  *)
(***************************************************************************)
EXTENDS LegacyResults, TLAPS

Working == {"upsert", "lrange", "lrem"}

\* A request that works on a result works on one of its batch.
WellFormed(r) == r \in Reqs /\ (r.pc \in Working => r.at <= Len(r.batch))

\* An open transaction holds the row of each result it has completed.
HoldsDone(r) ==
    /\ ~r.aborted
    /\ \A d \in r.done : r.rows[ParcelOf[d]] # None
    /\ r.pc \in {"lrange", "lrem"} => r.rows[ParcelOf[r.batch[r.at]]] # None

Undisturbed == faults = 0 /\ ~victims

Inv == TypeOK /\ (Undisturbed => CompletedIsStored /\ \A c \in Requests : HoldsDone(req[c]))

-----------------------------------------------------------------------------
(* Types *)

LEMMA TypeIsWellFormed ==
    TypeOK <=> /\ processing \subseteq Tasks
               /\ table \in [Parcels -> Results \cup {None}]
               /\ req \in [Requests -> Reqs]
               /\ completed \subseteq Results
               /\ victims \in BOOLEAN
               /\ faults \in 0..MaxFaults
               /\ \A c \in Requests : WellFormed(req[c])
  BY DEF TypeOK, WellFormed, Working

LEMMA IdleFacts == WellFormed(IdleReq) /\ HoldsDone(IdleReq)
<1>1. <<>> \in Seq(Results) /\ NoRows \in [Parcels -> Results \cup {None}]
  BY DEF NoRows
<1> QED  BY <1>1 DEF IdleReq, WellFormed, HoldsDone, Reqs, Working

LEMMA NextResultFacts ==
    ASSUME NEW r, r \in Reqs
    PROVE  /\ WellFormed(NextResult(r)) /\ WellFormed(ResultFailed(r))
           /\ NextResult(r).pc \in {"upsert", "finish"}
           /\ NextResult(r).rows = r.rows /\ NextResult(r).done = r.done
           /\ NextResult(r).aborted = r.aborted
<1>1. \A q \in Reqs : WellFormed(NextResult(q))
  <2> SUFFICES ASSUME NEW q \in Reqs PROVE WellFormed(NextResult(q))
    OBVIOUS
  <2>1. Len(q.batch) \in Nat /\ q.at \in Nat \ {0}
    BY DEF Reqs
  <2>2. CASE q.at < Len(q.batch)
    <3> DEFINE n == q.at + 1
               v == [q EXCEPT !.pc = "upsert", !.at = n]
    <3>1. NextResult(q) = v /\ n \in Nat \ {0}
      BY <2>1, <2>2 DEF NextResult
    <3> HIDE DEF n
    <3>2. v.at = n /\ v.batch = q.batch /\ v \in Reqs
      BY <3>1 DEF Reqs
    <3> HIDE DEF v
    <3>3. n <= Len(q.batch)
      BY <2>1, <2>2 DEF n
    <3> QED  BY <3>1, <3>2, <3>3 DEF WellFormed
  <2>3. CASE ~(q.at < Len(q.batch))
    BY <2>3 DEF NextResult, Reqs, WellFormed, Working
  <2> QED  BY <2>2, <2>3
<1>2. [r EXCEPT !.failed = @ + 1] \in Reqs
  BY DEF Reqs
<1>3. WellFormed(NextResult(r)) /\ WellFormed(ResultFailed(r))
  BY <1>1, <1>2 DEF ResultFailed
<1>4. /\ NextResult(r).pc \in {"upsert", "finish"}
      /\ NextResult(r).rows = r.rows /\ NextResult(r).done = r.done
      /\ NextResult(r).aborted = r.aborted
  BY DEF NextResult, Reqs
<1> QED  BY <1>3, <1>4

LEMMA CurrentType ==
    ASSUME TypeOK, NEW c \in Requests, req[c].pc \in Working
    PROVE  Current(c) \in Results /\ Row(c) \in Parcels /\ TaskOf[Current(c)] \in Tasks
<1>1. req[c].batch \in Seq(Results) /\ req[c].at \in 1..Len(req[c].batch)
  BY DEF TypeOK, Reqs, Working
<1>2. Current(c) \in Results
  BY <1>1 DEF Current
<1> QED  BY <1>2, ResultAssumption DEF Row

LEMMA FaultType == TypeOK /\ Fault => faults' \in 0..MaxFaults /\ faults' # 0
  BY FaultAssumption DEF TypeOK, Fault

\* A step that writes the record of one request.
LEMMA OneRequest ==
    ASSUME Inv, NEW c \in Requests, NEW v, WellFormed(v), req' = [req EXCEPT ![c] = v],
           processing' \subseteq Tasks, table' \in [Parcels -> Results \cup {None}],
           completed' \subseteq Results, victims' \in BOOLEAN, faults' \in 0..MaxFaults,
           Undisturbed' => Undisturbed /\ HoldsDone(v) /\ CompletedIsStored'
    PROVE  Inv'
<1>1. \A d \in Requests : req'[d] = IF d = c THEN v ELSE req[d]
  BY DEF Inv, TypeOK
<1>2. req' \in [Requests -> Reqs]
  BY DEF Inv, TypeOK, WellFormed
<1>3. \A d \in Requests : WellFormed(req'[d])
  BY <1>1, TypeIsWellFormed DEF Inv
<1>4. \A d \in Requests : req'[d].pc \in {"upsert", "lrange", "lrem"}
                             => req'[d].at <= Len(req'[d].batch)
  BY <1>3 DEF WellFormed, Working
<1>5. TypeOK'
  BY <1>2, <1>4 DEF TypeOK
<1>6. Undisturbed' => \A d \in Requests : HoldsDone(req'[d])
  BY <1>1 DEF Inv
<1>7. Undisturbed' => \A d \in Requests : HoldsDone(req[d])'
  BY <1>6 DEF HoldsDone
<1> QED  BY <1>5, <1>7 DEF Inv

-----------------------------------------------------------------------------
(* Steps *)

LEMMA InitInv == Init => Inv
<1> SUFFICES ASSUME Init PROVE Inv
  OBVIOUS
<1>1. \A c \in Requests : WellFormed(req[c]) /\ HoldsDone(req[c])
  BY IdleFacts DEF Init
<1>2. /\ processing \subseteq Tasks /\ table \in [Parcels -> Results \cup {None}]
      /\ req \in [Requests -> Reqs] /\ completed \subseteq Results
      /\ victims \in BOOLEAN /\ faults \in 0..MaxFaults
  <2>1. IdleReq \in Reqs /\ 0 \in 0..MaxFaults
    BY IdleFacts, FaultAssumption DEF WellFormed
  <2> QED  BY <2>1 DEF Init, NoRows
<1>3. TypeOK
  BY <1>1, <1>2, TypeIsWellFormed
<1>4. CompletedIsStored
  BY DEF Init, CompletedIsStored
<1> QED  BY <1>1, <1>3, <1>4 DEF Inv

LEMMA PopInv == ASSUME Inv, NEW t \in Tasks, PopTask(t)  PROVE Inv'
<1>1. TypeOK'
  BY DEF PopTask, Inv, TypeOK
<1>2. completed' \subseteq completed /\ UNCHANGED <<table, req, victims, faults>>
  BY DEF PopTask
<1> QED  BY <1>1, <1>2 DEF Inv, Undisturbed, CompletedIsStored, HoldsDone

LEMMA SubmitInv ==
    ASSUME Inv, NEW c \in Requests, NEW b \in Batches, SubmitResults(c, b)
    PROVE  Inv'
<1> DEFINE v == [IdleReq EXCEPT !.pc = IF b = <<>> THEN "finish" ELSE "upsert",
                                !.batch = b]
<1>1. b \in Seq(Results) /\ (b # <<>> => 1 <= Len(b))
  <2>1. b \in Seq(Results)
    BY ResultAssumption
  <2> QED  BY <2>1
<1>2. v \in Reqs /\ v.at = 1 /\ v.batch = b /\ (v.pc = "finish" \/ b # <<>>)
  BY <1>1, IdleFacts DEF IdleReq, WellFormed, Reqs
<1>3. v.pc \in {"upsert", "finish"} /\ HoldsDone(v)
  BY DEF IdleReq, HoldsDone
<1>4. req' = [req EXCEPT ![c] = v] /\ UNCHANGED <<processing, table, completed, victims, faults>>
  BY DEF SubmitResults
<1> HIDE DEF v
<1>5. WellFormed(v)
  BY <1>1, <1>2, <1>3 DEF WellFormed, Working
<1> QED  BY <1>3, <1>4, <1>5, OneRequest DEF Inv, TypeOK, Undisturbed, CompletedIsStored

\* The next result, of an undisturbed request that is done with the last.
LEMMA NextHolds ==
    ASSUME NEW r, r \in Reqs, HoldsDone(r)
    PROVE  HoldsDone(NextResult(r))
  BY NextResultFacts DEF HoldsDone

LEMMA UpsertInv ==
    ASSUME Inv, NEW c \in Requests,
           UpsertRow(c) \/ DeadlockVictim(c) \/ UpsertFails(c) \/ UpsertRefused(c)
    PROVE  Inv'
<1>1. /\ req[c] \in Reqs /\ WellFormed(req[c]) /\ (Undisturbed => HoldsDone(req[c]))
      /\ processing \subseteq Tasks /\ table \in [Parcels -> Results \cup {None}]
      /\ completed \subseteq Results /\ victims \in BOOLEAN /\ faults \in 0..MaxFaults
      /\ (Undisturbed => CompletedIsStored)
  BY TypeIsWellFormed DEF Inv, TypeOK
<1>2. CASE UpsertRow(c)
  <2> DEFINE rs == [req[c].rows EXCEPT ![Row(c)] = Current(c)]
             k  == req[c].inserted + 1
             v  == [req[c] EXCEPT !.pc = "lrange", !.inserted = k, !.rows = rs]
  <2>1. Current(c) \in Results /\ Row(c) \in Parcels
    BY <1>2, CurrentType DEF UpsertRow, Working, Inv
  <2>2. rs \in [Parcels -> Results \cup {None}] /\ k \in Nat
        /\ rs[Row(c)] # None /\ \A p \in Parcels : req[c].rows[p] # None => rs[p] # None
    BY <1>1, <2>1, ResultAssumption DEF Reqs
  <2>3. req' = [req EXCEPT ![c] = v]
    BY <1>1, <1>2 DEF UpsertRow, Inv, TypeOK, Reqs
  <2> HIDE DEF rs, k
  <2>4. v \in Reqs /\ v.pc = "lrange" /\ v.rows = rs /\ v.done = req[c].done
        /\ v.aborted = req[c].aborted /\ v.at = req[c].at /\ v.batch = req[c].batch
    BY <1>1, <2>2 DEF Reqs
  <2> HIDE DEF v
  <2>5. WellFormed(v)
    BY <1>1, <1>2, <2>4 DEF WellFormed, UpsertRow, Working
  <2>6. HoldsDone(req[c]) => HoldsDone(v)
    <3>1. \A d \in req[c].done : ParcelOf[d] \in Parcels
      BY <1>1, ResultAssumption DEF Reqs
    <3>2. v.rows[ParcelOf[v.batch[v.at]]] # None
      BY <2>2, <2>4 DEF Row, Current
    <3> QED  BY <2>2, <2>4, <3>1, <3>2 DEF HoldsDone
  <2>7. UNCHANGED <<processing, table, completed, victims, faults>>
    BY <1>2 DEF UpsertRow
  <2> QED  BY <1>1, <2>3, <2>5, <2>6, <2>7, OneRequest DEF Undisturbed, CompletedIsStored
<1>3. Abort(req[c]) \in Reqs
  <2>1. NoRows \in [Parcels -> Results \cup {None}]
    BY DEF NoRows
  <2> QED  BY <1>1, <2>1 DEF Abort, Reqs
<1>4. WellFormed(ResultFailed(Abort(req[c]))) /\ WellFormed(ResultFailed(req[c]))
  BY <1>1, <1>3, NextResultFacts
<1>5. CASE DeadlockVictim(c)
  BY <1>1, <1>4, <1>5, OneRequest DEF DeadlockVictim, Undisturbed
<1>6. CASE UpsertFails(c)
  <2>1. faults' \in 0..MaxFaults /\ ~Undisturbed'
    BY <1>6, FaultType DEF UpsertFails, Inv, Undisturbed
  <2>2. UNCHANGED <<processing, table, completed, victims>>
    BY <1>6 DEF UpsertFails
  <2>3. PICK v : WellFormed(v) /\ req' = [req EXCEPT ![c] = v]
    <3>1. \/ req' = [req EXCEPT ![c] = ResultFailed(Abort(req[c]))]
          \/ req' = [req EXCEPT ![c] = ResultFailed(req[c])]
      BY <1>6 DEF UpsertFails
    <3> QED  BY <1>4, <3>1
  <2>4. Undisturbed' => Undisturbed /\ HoldsDone(v) /\ CompletedIsStored'
    BY <2>1
  <2> QED  BY <1>1, <2>1, <2>2, <2>3, <2>4, OneRequest
<1>7. CASE UpsertRefused(c)
  <2>1. /\ req' = [req EXCEPT ![c] = ResultFailed(req[c])]
        /\ UNCHANGED <<processing, table, completed, victims, faults>>
    BY <1>7 DEF UpsertRefused
  <2>2. ~Undisturbed'
    BY <1>1, <1>7, <2>1 DEF UpsertRefused, HoldsDone, Undisturbed
  <2> QED  BY <1>1, <1>4, <2>1, <2>2, OneRequest
<1> QED  BY <1>2, <1>5, <1>6, <1>7

LEMMA CompleteInv ==
    ASSUME Inv, NEW c \in Requests,
           CompleteLRange(c) \/ CompleteLRem(c) \/ CompleteFails(c)
    PROVE  Inv'
<1>1. /\ req[c] \in Reqs /\ WellFormed(req[c]) /\ (Undisturbed => HoldsDone(req[c]))
      /\ processing \subseteq Tasks /\ table \in [Parcels -> Results \cup {None}]
      /\ completed \subseteq Results /\ victims \in BOOLEAN /\ faults \in 0..MaxFaults
      /\ (Undisturbed => CompletedIsStored)
  BY TypeIsWellFormed DEF Inv, TypeOK
<1>2. CASE CompleteLRange(c)
  <2> DEFINE v == [req[c] EXCEPT !.pc = "lrem"]
  <2>1. WellFormed(v) /\ (HoldsDone(req[c]) => HoldsDone(v))
    BY <1>1, <1>2 DEF WellFormed, HoldsDone, CompleteLRange, Reqs, Working
  <2>2. /\ WellFormed(NextResult(req[c]))
        /\ HoldsDone(req[c]) => HoldsDone(NextResult(req[c]))
    BY <1>1, NextResultFacts, NextHolds
  <2>3. UNCHANGED <<processing, table, completed, victims, faults>>
    BY <1>2 DEF CompleteLRange
  <2> HIDE DEF v
  <2>4. CASE req' = [req EXCEPT ![c] = v]
    BY <1>1, <2>1, <2>3, <2>4, OneRequest DEF Undisturbed, CompletedIsStored
  <2>5. CASE req' = [req EXCEPT ![c] = NextResult(req[c])]
    BY <1>1, <2>2, <2>3, <2>5, OneRequest DEF Undisturbed, CompletedIsStored
  <2>6. req' = [req EXCEPT ![c] = v] \/ req' = [req EXCEPT ![c] = NextResult(req[c])]
    BY <1>2 DEF CompleteLRange, Inv, TypeOK, v
  <2> QED  BY <2>4, <2>5, <2>6
<1>3. CASE CompleteLRem(c)
  <2> DEFINE ds == req[c].done \cup {Current(c)}
             w  == [req[c] EXCEPT !.done = ds]
             v  == NextResult(w)
  <2>1. Current(c) \in Results
    BY <1>3, CurrentType DEF CompleteLRem, Working, Inv
  <2>2. w \in Reqs
    BY <1>1, <2>1 DEF Reqs
  <2>3. HoldsDone(req[c]) => HoldsDone(w)
    <3>1. SUFFICES ASSUME HoldsDone(req[c]) PROVE HoldsDone(w)
      OBVIOUS
    <3>2. w.done = ds /\ w.rows = req[c].rows /\ w.aborted = req[c].aborted
          /\ w.pc = "lrem" /\ w.at = req[c].at /\ w.batch = req[c].batch
      BY <1>1, <1>3 DEF Reqs, CompleteLRem
    <3>3. req[c].rows[ParcelOf[Current(c)]] # None /\ req[c].pc = "lrem"
      BY <1>3, <3>1 DEF HoldsDone, CompleteLRem, Current
    <3> HIDE DEF w
    <3> QED  BY <3>1, <3>2, <3>3 DEF HoldsDone, Current
  <2>4. req' = [req EXCEPT ![c] = v]
    BY <1>3 DEF CompleteLRem
  <2> HIDE DEF w
  <2>5. WellFormed(v) /\ (HoldsDone(w) => HoldsDone(v))
    BY <2>2, NextResultFacts, NextHolds
  <2>6. processing' \subseteq Tasks /\ UNCHANGED <<table, completed, victims, faults>>
    BY <1>1, <1>3 DEF CompleteLRem
  <2> HIDE DEF v
  <2> QED  BY <1>1, <2>3, <2>4, <2>5, <2>6, OneRequest DEF Undisturbed, CompletedIsStored
<1>4. CASE CompleteFails(c)
  <2>1. faults' \in 0..MaxFaults /\ ~Undisturbed'
    BY <1>4, FaultType DEF CompleteFails, Inv, Undisturbed
  <2>2. processing' \subseteq Tasks /\ UNCHANGED <<table, completed, victims>>
    BY <1>1, <1>4 DEF CompleteFails
  <2> DEFINE w == [req[c] EXCEPT !.done = @ \cup {Current(c)}]
  <2>3. w \in Reqs
    <3>1. Current(c) \in Results
      BY <1>4, CurrentType DEF CompleteFails, Working, Inv
    <3> QED  BY <1>1, <3>1 DEF Reqs
  <2>4. req' = [req EXCEPT ![c] = ResultFailed(req[c])]
        \/ req' = [req EXCEPT ![c] = ResultFailed(w)]
    BY <1>4 DEF CompleteFails
  <2> HIDE DEF w
  <2>5. PICK v : WellFormed(v) /\ req' = [req EXCEPT ![c] = v]
    BY <1>1, <2>3, <2>4, NextResultFacts
  <2> QED  BY <1>1, <2>1, <2>2, <2>5, OneRequest
<1> QED  BY <1>2, <1>3, <1>4

LEMMA EndInv ==
    ASSUME Inv, NEW c \in Requests, Commit(c) \/ RollBack(c)
    PROVE  Inv'
<1>1. /\ req[c] \in Reqs /\ (Undisturbed => HoldsDone(req[c]) /\ CompletedIsStored)
      /\ processing \subseteq Tasks /\ table \in [Parcels -> Results \cup {None}]
      /\ completed \subseteq Results /\ victims \in BOOLEAN /\ faults \in 0..MaxFaults
  BY DEF Inv, TypeOK
<1>2. /\ completed' = completed \cup req[c].done /\ completed' \subseteq Results
      /\ req' = [req EXCEPT ![c] = IdleReq] /\ UNCHANGED <<processing, victims>>
  BY <1>1 DEF Commit, RollBack, End, Reqs
<1>3. CASE Commit(c)
  <2>1. /\ table' = [p \in Parcels |-> IF req[c].rows[p] # None THEN req[c].rows[p]
                                                                ELSE table[p]]
        /\ faults' = faults
    BY <1>3 DEF Commit
  <2>2. table' \in [Parcels -> Results \cup {None}]
    BY <1>1, <2>1 DEF Reqs
  <2>3. Undisturbed => CompletedIsStored'
    <3>1. SUFFICES ASSUME Undisturbed, NEW r \in completed' PROVE table'[ParcelOf[r]] # None
      BY DEF CompletedIsStored
    <3>2. ParcelOf[r] \in Parcels
      BY <1>2, ResultAssumption
    <3>3. CASE r \in completed
      BY <1>1, <2>1, <3>1, <3>2, <3>3 DEF CompletedIsStored
    <3>4. CASE r \in req[c].done
      BY <1>1, <2>1, <3>1, <3>2, <3>4 DEF HoldsDone
    <3> QED  BY <1>2, <3>3, <3>4
  <2> QED  BY <1>1, <1>2, <2>1, <2>2, <2>3, IdleFacts, OneRequest DEF Undisturbed
<1>4. CASE RollBack(c)
  <2>1. faults' \in 0..MaxFaults /\ ~Undisturbed' /\ table' = table
    BY <1>4, FaultType DEF RollBack, Inv, Undisturbed
  <2> QED  BY <1>1, <1>2, <2>1, IdleFacts, OneRequest
<1> QED  BY <1>3, <1>4

LEMMA NextInv == Inv /\ [Next]_vars => Inv'
<1> SUFFICES ASSUME Inv, [Next]_vars PROVE Inv'
  OBVIOUS
<1>1. ASSUME NEW t \in Tasks, PopTask(t)
      PROVE  Inv'
  BY <1>1, PopInv
<1>2. ASSUME NEW c \in Requests, NEW b \in Batches, SubmitResults(c, b)
      PROVE  Inv'
  BY <1>2, SubmitInv
<1>3. ASSUME NEW c \in Requests, Step(c)
      PROVE  Inv'
  BY <1>3, UpsertInv, CompleteInv, EndInv DEF Step
<1>4. CASE UNCHANGED vars
  BY <1>4 DEF vars, Inv, TypeOK, Undisturbed, CompletedIsStored, HoldsDone
<1> QED  BY <1>1, <1>2, <1>3, <1>4 DEF Next

LEMMA SpecInv == Spec => []Inv
  BY InitInv, NextInv, PTL DEF Spec

-----------------------------------------------------------------------------
(* Theorems *)

\* A request that works on a result works on one of its batch.
THEOREM SubmissionsTyped == Spec => []TypeOK
<1>1. Inv => TypeOK
  BY DEF Inv
<1> QED  BY <1>1, SpecInv, PTL

\* A result whose task was removed is lost only by a fault or by the failure
\* of a statement in a cycle of waits.
THEOREM KeptUnlessAborted == Spec => []LostOnlyByAbort
<1>1. Inv => LostOnlyByAbort
  BY DEF Inv, Undisturbed, LostOnlyByAbort
<1> QED  BY <1>1, SpecInv, PTL

=============================================================================

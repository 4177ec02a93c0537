--------------------------- MODULE WorkerResults ---------------------------
(***************************************************************************)
(* POST /internal/results: a batch of results is stored one by one in the  *)
(* parcels table, and the task of each stored result is completed in the   *)
(* queue (internal/handler/results.go, internal/service/properties.go).    *)
(* The module adds these requests and the table to TaskQueue.              *)
(*                                                                         *)
(* A step is one SQL statement or one Redis command of one request.  Each  *)
(* SQL statement is a transaction of its own.  Rows are never deleted.     *)
(***************************************************************************)
EXTENDS TaskQueue

CONSTANTS
    Parcels,    \* values of (parcel_id, platform, state, county)
    Results,    \* results workers submit
    ParcelOf,   \* the parcel of a result
    ResultTask, \* the task id of a result
    Batches,    \* bodies of the requests
    SubConns,   \* goroutines serving POST /internal/results
    MaxErrors   \* 10 in the code

ASSUME ResultAssumption ==
    /\ ParcelOf \in [Results -> Parcels]
    /\ ResultTask \in [Results -> TaskIds]
    /\ Batches \subseteq Seq(Results)
    /\ None \notin Results
ASSUME ErrorAssumption == MaxErrors \in Nat

VARIABLES
    parcels, \* the result each row of the table holds
    subReq,  \* state of each goroutine serving POST /internal/results
    inserts  \* the parcels that were counted as inserted (history)

resultVars == <<parcels, subReq, inserts>>
allVars == <<vars, resultVars>>

IdleSub == [pc |-> "idle", worker |-> None, batch |-> <<>>, at |-> 1,
            existed |-> FALSE, raw |-> None,
            inserted |-> 0, updated |-> 0, failed |-> 0]

ResultsInit ==
    /\ Init
    /\ parcels = [p \in Parcels |-> None]
    /\ subReq = [c \in SubConns |-> IdleSub]
    /\ inserts = {}

-----------------------------------------------------------------------------
(* The steps of TaskQueue; a push and a crash see the new requests too.    *)

\* The producer and the workers.
ExternalStep ==
    /\ \/ \E e \in Entries, k \in QueueKeys :
             PushTask(e, k) /\ \A c \in SubConns : subReq[c].raw # e
       \/ \E w \in Workers : WorkerRestart(w)
    /\ UNCHANGED resultVars

QueueRequest ==
    /\ \/ \E c \in GetConns, w \in Workers,
             q \in CapacityQueries, p \in PlatformQueries : GetWork(c, w, q, p)
       \/ \E c \in AckConns, w \in Workers, id \in TaskIds : AckRequest(c, w, id)
    /\ UNCHANGED resultVars

QueueStep ==
    /\ \/ \E c \in GetConns : GetStep(c)
       \/ \E c \in AckConns : AckStep(c)
    /\ UNCHANGED resultVars

ResultsCrash ==
    /\ Crash
    /\ subReq' = [c \in SubConns |-> IdleSub]
    /\ UNCHANGED <<parcels, inserts>>

-----------------------------------------------------------------------------
(* POST /internal/results *)

SubmitResults(c, w, batch) ==
    /\ subReq[c].pc = "idle"
    /\ subReq' = [subReq EXCEPT ![c] =
            [IdleSub EXCEPT !.pc = IF batch = <<>> THEN "reply" ELSE "exists",
                            !.worker = w, !.batch = batch]]
    /\ UNCHANGED <<vars, parcels, inserts>>

Current(c) == subReq[c].batch[subReq[c].at]

\* Variant: one result too many.
NextResultPast(r) ==
    IF r.at <= Len(r.batch)
    THEN [r EXCEPT !.pc = "exists", !.at = @ + 1, !.existed = FALSE, !.raw = None]
    ELSE [r EXCEPT !.pc = "reply"]

\* The request at the next result of its batch, or at its response.
NextResult(r) ==
    IF r.at < Len(r.batch)
    THEN [r EXCEPT !.pc = "exists", !.at = @ + 1, !.existed = FALSE, !.raw = None]
    ELSE [r EXCEPT !.pc = "reply"]

\* Variant: the row of any parcel counts.
SelectExistsAny(c) ==
    /\ subReq[c].pc = "exists"
    /\ subReq' = [subReq EXCEPT ![c] =
            [@ EXCEPT !.pc = "upsert",
                      !.existed = \E p \in Parcels : parcels[p] # None]]
    /\ UNCHANGED <<vars, parcels, inserts>>

\* SELECT EXISTS.
SelectExists(c) ==
    /\ subReq[c].pc = "exists"
    /\ subReq' = [subReq EXCEPT ![c] =
            [@ EXCEPT !.pc = "upsert",
                      !.existed = parcels[ParcelOf[Current(c)]] # None]]
    /\ UNCHANGED <<vars, parcels, inserts>>

\* SELECT EXISTS fails: the code ignores the error and existed stays false.
SelectExistsFails(c) ==
    /\ subReq[c].pc = "exists"
    /\ Fault
    /\ subReq' = [subReq EXCEPT ![c].pc = "upsert"]
    /\ UNCHANGED <<redis, getReq, ackReq, received, parcels, inserts>>

StoreRow(c) == parcels' = [parcels EXCEPT ![ParcelOf[Current(c)]] = Current(c)]

\* INSERT ... ON CONFLICT DO UPDATE; what is counted was decided before.
UpsertParcel(c) ==
    LET r == subReq[c]
    IN  /\ r.pc = "upsert"
        /\ StoreRow(c)
        /\ IF r.existed
           THEN /\ subReq' = [subReq EXCEPT ![c] =
                        [r EXCEPT !.pc = "lrange", !.updated = @ + 1]]
                /\ UNCHANGED inserts
           ELSE /\ subReq' = [subReq EXCEPT ![c] =
                        [r EXCEPT !.pc = "lrange", !.inserted = @ + 1]]
                /\ inserts' = inserts \cup {ParcelOf[Current(c)]}
        /\ UNCHANGED vars

\* Variants: a failed result is completed like a stored one; the loop ends
\* one failure too early.
FailedThrough(r) == [r EXCEPT !.failed = @ + 1, !.pc = "lrange"]

FailedEarly(r) ==
    LET f == [r EXCEPT !.failed = @ + 1]
    IN  IF f.failed >= MaxErrors THEN [f EXCEPT !.pc = "reply"] ELSE NextResult(f)

\* The request after a failed result: the loop ends when there are more than
\* MaxErrors errors.
Failed(r) ==
    LET f == [r EXCEPT !.failed = @ + 1]
    IN  IF f.failed > MaxErrors THEN [f EXCEPT !.pc = "reply"] ELSE NextResult(f)

\* The statement fails, executed or not.
UpsertFails(c) ==
    /\ subReq[c].pc = "upsert"
    /\ Fault
    /\ StoreRow(c) \/ UNCHANGED parcels
    /\ subReq' = [subReq EXCEPT ![c] = Failed(@)]
    /\ UNCHANGED <<redis, getReq, ackReq, received, inserts>>

\* CompleteTask, LRANGE: its answer is searched as in AckLRange.
SubLRange(c) ==
    LET r    == subReq[c]
        id   == ResultTask[Current(c)]
        list == redis[processingKey(r.worker)]
    IN  /\ r.pc = "lrange"
        /\ \/ \E i \in DOMAIN list :
                 /\ FirstHolding(list, id, i)
                 /\ subReq' = [subReq EXCEPT ![c] =
                        [r EXCEPT !.pc = "lrem", !.raw = list[i]]]
           \/ /\ \A e \in ToSet(list) : ~Holds(e, id)
              /\ subReq' = [subReq EXCEPT ![c] = NextResult(r)]
        /\ UNCHANGED <<vars, parcels, inserts>>

\* CompleteTask, LREM.
SubLRem(c) ==
    /\ subReq[c].pc = "lrem"
    /\ LRemOne(processingKey(subReq[c].worker), subReq[c].raw)
    /\ subReq' = [subReq EXCEPT ![c] = NextResult(@)]
    /\ UNCHANGED <<getReq, ackReq, received, faults, parcels, inserts>>

\* LRANGE or LREM fails (LREM executed or not): the handler ignores it.
CompleteFails(c) ==
    /\ subReq[c].pc \in {"lrange", "lrem"}
    /\ Fault
    /\ \/ UNCHANGED redis
       \/ /\ subReq[c].pc = "lrem"
          /\ LRemOne(processingKey(subReq[c].worker), subReq[c].raw)
    /\ subReq' = [subReq EXCEPT ![c] = NextResult(@)]
    /\ UNCHANGED <<getReq, ackReq, received, parcels, inserts>>

\* The response is written, received or not.
SubReply(c) ==
    /\ subReq[c].pc = "reply"
    /\ subReq' = [subReq EXCEPT ![c] = IdleSub]
    /\ UNCHANGED <<vars, parcels, inserts>>

SubStep(c) ==
    \/ SelectExists(c) \/ SelectExistsFails(c) \/ UpsertParcel(c)
    \/ UpsertFails(c) \/ SubLRange(c) \/ SubLRem(c) \/ CompleteFails(c)
    \/ SubReply(c)

ResultsRequest ==
    \E c \in SubConns, w \in Workers, b \in Batches : SubmitResults(c, w, b)

ResultsStep == \E c \in SubConns : SubStep(c)

ResultsNext ==
    \/ ExternalStep \/ QueueRequest \/ QueueStep
    \/ ResultsCrash \/ ResultsRequest \/ ResultsStep

ResultsSpec == ResultsInit /\ [][ResultsNext]_allVars

-----------------------------------------------------------------------------
(* Properties *)

SubRequests == [pc : {"idle", "exists", "upsert", "lrange", "lrem", "reply"},
                worker : Workers \cup {None}, batch : Seq(Results),
                at : Nat \ {0}, existed : BOOLEAN, raw : Entries \cup {None},
                inserted : Nat, updated : Nat, failed : Nat]

InProgress == {"exists", "upsert", "lrange", "lrem"}

\* The table holds results, and a request in progress names a worker and a
\* result of its batch.
ResultsTypeOK ==
    /\ TypeOK
    /\ parcels \in [Parcels -> Results \cup {None}]
    /\ subReq \in [SubConns -> SubRequests]
    /\ inserts \subseteq Parcels
    /\ \A c \in SubConns :
          /\ subReq[c].pc # "idle" => subReq[c].worker \in Workers
          /\ subReq[c].pc \in InProgress => subReq[c].at <= Len(subReq[c].batch)
          /\ subReq[c].pc = "lrem" => subReq[c].raw \in Entries

\* An entry leaves a processing list by a request of this worker that names
\* its task id; if the request submits results, the parcel of the result it
\* completes the task for is in the table by then, so that no crash or failed
\* statement loses a result whose task is gone.
CompletedOnlyWhenStored ==
    [][\A w \in Workers :
          \A e \in ToSet(redis[processingKey(w)]) :
              \/ e \in ToSet(redis'[processingKey(w)])
              \/ \E c \in AckConns : /\ ackReq[c].pc = "lrem"
                                     /\ ackReq[c].worker = w
                                     /\ Holds(e, ackReq[c].id)
              \/ \E c \in SubConns :
                    /\ subReq[c].pc = "lrem"
                    /\ subReq[c].worker = w
                    /\ Holds(e, ResultTask[Current(c)])
                    /\ parcels[ParcelOf[Current(c)]] # None]_allVars

\* A response accounts for every result of the batch exactly once, unless the
\* loop gave up, and it gives up at MaxErrors + 1 failures, not before.
EveryResultCounted ==
    \A c \in SubConns :
        LET r       == subReq[c]
            counted == r.inserted + r.updated + r.failed
        IN  /\ r.pc \in {"exists", "upsert"} => counted = r.at - 1
            /\ r.pc \in {"lrange", "lrem"} => counted = r.at
            /\ r.pc = "reply" => \/ counted = Len(r.batch)
                                 \/ r.failed = MaxErrors + 1
            /\ r.pc \in InProgress => r.failed <= MaxErrors

\* While no statement failed, a parcel is in the table exactly when some
\* request counted it as inserted: concurrent submissions of one new parcel
\* never all count it as an update.
StoredIffInserted ==
    faults = 0 =>
        \A p \in Parcels : parcels[p] # None <=> p \in inserts
=============================================================================

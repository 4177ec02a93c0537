--------------------------- MODULE LegacyResults ---------------------------
(***************************************************************************)
(* POST /internal/results of the legacy Python gateway: all the rows of a  *)
(* batch are written in one transaction, committed when the handler is     *)
(* done, while the tasks are completed in Redis one by one before that     *)
(* (legacy/app/api/internal/parcel/results.py, services/properties.py,     *)
(* services/worker_queue.py, core/db.py).                                  *)
(*                                                                         *)
(* A step is one SQL statement or one Redis command.  An upsert locks its  *)
(* row until the transaction ends; PostgreSQL (external) breaks a cycle of *)
(* waits by failing a statement, and rolls back a failed transaction.      *)
(***************************************************************************)
EXTENDS Integers, Sequences

CONSTANTS
    Tasks,     \* task ids
    Parcels,   \* values of the unique columns of parcels
    Results,   \* results workers submit
    TaskOf,    \* the task id of a result
    ParcelOf,  \* the parcel of a result
    Batches,   \* bodies of the requests
    Requests,  \* requests that may be in progress at once
    MaxFaults, \* bound on the number of faults in a behaviour
    None       \* no result

ASSUME ResultAssumption ==
    /\ TaskOf \in [Results -> Tasks]
    /\ ParcelOf \in [Results -> Parcels]
    /\ Batches \subseteq Seq(Results)
    /\ None \notin Results
ASSUME FaultAssumption == MaxFaults \in Nat

VARIABLES
    processing, \* tasks in the processing list of the worker
    table,      \* the committed result of each parcel
    req,        \* state of each request
    completed,  \* results of ended requests that removed their task (history)
    victims,    \* whether a cycle of waits was broken (history)
    faults      \* number of faults so far

vars == <<processing, table, req, completed, victims, faults>>

NoRows == [p \in Parcels |-> None]
IdleReq == [pc |-> "idle", batch |-> <<>>, at |-> 1, rows |-> NoRows,
            aborted |-> FALSE, inserted |-> 0, failed |-> 0, done |-> {}]

Init ==
    /\ processing = Tasks
    /\ table = NoRows
    /\ req = [c \in Requests |-> IdleReq]
    /\ completed = {}
    /\ victims = FALSE
    /\ faults = 0

Fault == faults < MaxFaults /\ faults' = faults + 1

Current(c) == req[c].batch[req[c].at]
Row(c) == ParcelOf[Current(c)]

\* Variant: one result too many.
NextResultPast(r) ==
    IF r.at <= Len(r.batch) THEN [r EXCEPT !.pc = "upsert", !.at = @ + 1]
                            ELSE [r EXCEPT !.pc = "finish"]

\* The request at its next result, or at the end of the handler.
NextResult(r) ==
    IF r.at < Len(r.batch) THEN [r EXCEPT !.pc = "upsert", !.at = @ + 1]
                           ELSE [r EXCEPT !.pc = "finish"]

\* The except clause of the loop.
ResultFailed(r) == NextResult([r EXCEPT !.failed = @ + 1])

-----------------------------------------------------------------------------
\* The worker is handed a task (again).
PopTask(t) ==
    /\ t \notin processing
    /\ processing' = processing \cup {t}
    /\ completed' = {r \in completed : TaskOf[r] # t}
    /\ UNCHANGED <<table, req, victims, faults>>

SubmitResults(c, batch) ==
    /\ req[c].pc = "idle"
    /\ req' = [req EXCEPT ![c] =
            [IdleReq EXCEPT !.pc = IF batch = <<>> THEN "finish" ELSE "upsert",
                            !.batch = batch]]
    /\ UNCHANGED <<processing, table, completed, victims, faults>>

\* The requests whose open transaction wrote row p.
Holders(p) == {d \in Requests : req[d].rows[p] # None}
Blockers(c) ==
    IF req[c].pc = "upsert" /\ ~req[c].aborted THEN Holders(Row(c)) \ {c} ELSE {}

\* c is in a cycle of waits.
Deadlocked(c) ==
    \E S \in SUBSET Requests :
        /\ c \in S
        /\ \A d \in S : Blockers(d) # {} /\ Blockers(d) \subseteq S

\* INSERT ... ON CONFLICT DO UPDATE; upsert_parcel always returns True.
UpsertRow(c) ==
    /\ req[c].pc = "upsert" /\ ~req[c].aborted
    /\ Blockers(c) = {}
    /\ req' = [req EXCEPT ![c].pc = "lrange", ![c].inserted = @ + 1,
                          ![c].rows = [@ EXCEPT ![Row(c)] = Current(c)]]
    /\ UNCHANGED <<processing, table, completed, victims, faults>>

\* The transaction is rolled back, which frees its rows.
Abort(r) == [r EXCEPT !.aborted = TRUE, !.rows = NoRows]

\* Variant: a cycle of waits is not broken.
NoVictim(c) == FALSE /\ UNCHANGED vars

\* The statement fails because of a cycle of waits.
DeadlockVictim(c) ==
    /\ Deadlocked(c)
    /\ req' = [req EXCEPT ![c] = ResultFailed(Abort(@))]
    /\ victims' = TRUE
    /\ UNCHANGED <<processing, table, completed, faults>>

\* The statement fails: in the database, which fails the transaction, or
\* before it is sent.
UpsertFails(c) ==
    /\ req[c].pc = "upsert" /\ ~req[c].aborted
    /\ Fault
    /\ \/ req' = [req EXCEPT ![c] = ResultFailed(Abort(@))]
       \/ req' = [req EXCEPT ![c] = ResultFailed(@)]
    /\ UNCHANGED <<processing, table, completed, victims>>

\* A failed transaction refuses every later statement.
UpsertRefused(c) ==
    /\ req[c].pc = "upsert" /\ req[c].aborted
    /\ req' = [req EXCEPT ![c] = ResultFailed(@)]
    /\ UNCHANGED <<processing, table, completed, victims, faults>>

\* complete_task: LRANGE, then LREM when the task is there.
CompleteLRange(c) ==
    /\ req[c].pc = "lrange"
    /\ req' = [req EXCEPT ![c] =
            IF TaskOf[Current(c)] \in processing THEN [@ EXCEPT !.pc = "lrem"]
                                                 ELSE NextResult(@)]
    /\ UNCHANGED <<processing, table, completed, victims, faults>>

CompleteLRem(c) ==
    /\ req[c].pc = "lrem"
    /\ processing' = processing \ {TaskOf[Current(c)]}
    /\ req' = [req EXCEPT ![c] = NextResult([req[c] EXCEPT !.done = @ \cup {Current(c)}])]
    /\ UNCHANGED <<table, completed, victims, faults>>

\* A Redis command fails, or the search meets a payload it cannot read: the
\* result, already counted, is counted as failed.  A LREM may have been executed.
CompleteFails(c) ==
    /\ req[c].pc \in {"lrange", "lrem"}
    /\ Fault
    /\ \/ /\ req' = [req EXCEPT ![c] = ResultFailed(@)]
          /\ UNCHANGED processing
       \/ /\ req[c].pc = "lrem"
          /\ processing' = processing \ {TaskOf[Current(c)]}
          /\ req' = [req EXCEPT ![c] =
                 ResultFailed([req[c] EXCEPT !.done = @ \cup {Current(c)}])]
    /\ UNCHANGED <<table, completed, victims>>

End(c) ==
    /\ completed' = completed \cup req[c].done
    /\ req' = [req EXCEPT ![c] = IdleReq]
    /\ UNCHANGED <<processing, victims>>

\* Variant: the session is closed without a commit.
CloseOnly(c) ==
    /\ req[c].pc = "finish"
    /\ End(c)
    /\ UNCHANGED <<table, faults>>

\* get_db commits: a transaction that failed is rolled back instead.
Commit(c) ==
    /\ req[c].pc = "finish"
    /\ table' = [p \in Parcels |-> IF req[c].rows[p] # None THEN req[c].rows[p]
                                                            ELSE table[p]]
    /\ End(c)
    /\ UNCHANGED faults

\* The commit fails, or the request is cancelled before: rollback.
RollBack(c) ==
    /\ req[c].pc # "idle"
    /\ Fault
    /\ End(c)
    /\ UNCHANGED table

Step(c) ==
    \/ UpsertRow(c) \/ DeadlockVictim(c) \/ UpsertFails(c) \/ UpsertRefused(c)
    \/ CompleteLRange(c) \/ CompleteLRem(c) \/ CompleteFails(c)
    \/ Commit(c) \/ RollBack(c)

Next ==
    \/ \E t \in Tasks : PopTask(t)
    \/ \E c \in Requests, b \in Batches : SubmitResults(c, b)
    \/ \E c \in Requests : Step(c)

Spec == Init /\ [][Next]_vars

\* Each request runs, each cycle of waits is broken, and PostgreSQL queues the
\* transactions that wait for a row: none is overtaken for ever.
FairSpec ==
    Spec /\ \A c \in Requests : WF_vars(Step(c)) /\ SF_vars(UpsertRow(c))

-----------------------------------------------------------------------------
(* Properties *)

Reqs == [pc : {"idle", "upsert", "lrange", "lrem", "finish"},
         batch : Seq(Results), at : Nat \ {0},
         rows : [Parcels -> Results \cup {None}], aborted : BOOLEAN,
         inserted : Nat, failed : Nat, done : SUBSET Results]

\* A request in progress works on a result of its batch, and the table holds
\* results that were submitted.
TypeOK ==
    /\ processing \subseteq Tasks
    /\ table \in [Parcels -> Results \cup {None}]
    /\ req \in [Requests -> Reqs]
    /\ completed \subseteq Results
    /\ victims \in BOOLEAN
    /\ faults \in 0..MaxFaults
    /\ \A c \in Requests :
          req[c].pc \in {"upsert", "lrange", "lrem"} => req[c].at <= Len(req[c].batch)

\* "Data is persisted to PostgreSQL and tasks are marked as complete": the
\* result of each task that a request removed is in the table when the request
\* is over.  It does not hold: two batches that name two parcels in opposite
\* orders wait for each other, and the one that fails has removed its tasks.
CompletedIsStored == \A r \in completed : table[ParcelOf[r]] # None

\* Without a fault and without a broken cycle of waits it does hold.
LostOnlyByAbort == faults = 0 /\ ~victims => CompletedIsStored

\* Every submission ends: requests never wait for each other for ever.
SubmissionsEnd == \A c \in Requests : req[c].pc # "idle" ~> req[c].pc = "idle"
=============================================================================

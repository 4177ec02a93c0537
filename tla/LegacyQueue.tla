---------------------------- MODULE LegacyQueue ----------------------------
(***************************************************************************)
(* The task queue while the Python gateway serves the same lists           *)
(* (legacy/app/services/worker_queue.py and the work and tasks routes of   *)
(* the parcel and the party API).  Its pop_tasks and complete_task send    *)
(* the commands of PopTasks and CompleteTask; they differ in the payloads  *)
(* they can read.  push_task, for one, writes a created_at without a zone, *)
(* which WorkTask accepts and the time.Time of the Go gateway does not.    *)
(*                                                                         *)
(* The steps that are the same for both are those of TaskQueue.  A request *)
(* for work is answered by one gateway: what it took so far says which of  *)
(* them it can be.  The two differ in an acknowledgement only at LRANGE,   *)
(* so the gateway it was sent to is chosen there.  The fail route only     *)
(* logs: it changes no state.  Payloads are not empty.                     *)
(***************************************************************************)
EXTENDS TaskQueue

CONSTANTS
    Rejected,   \* the payloads WorkTask(**json.loads(raw)) rejects
    Unreadable, \* the payloads json.loads(raw)["task_id"] raises for: no
                \* JSON, no object, or an object without task_id
    LegacyIdOf  \* the task id any other payload holds, or None

\* WorkTask needs a task_id.  What it accepts says nothing of Undecodable.
ASSUME LegacyEntryAssumption ==
    /\ Unreadable \subseteq Rejected /\ Rejected \subseteq Entries
    /\ LegacyIdOf \in [Entries \ Unreadable -> TaskIds \cup {None}]

\* get_work: other capacities, and no platform, are answered by 422.
LegacyGetWork(c, w, capacity, platforms) ==
    /\ capacity \in 1..MaxCapacity /\ platforms # <<>>
    /\ GetWork(c, w, capacity, platforms)

\* The Python gateway accepts all a request took so far (see MayBeGo).
MayBePython(c) == ToSet(getReq[c].tasks) \cap Rejected = {}

\* rpoplpush moves an entry the model class accepts.
LegacyPopTask(c) ==
    LET r == getReq[c]
        e == Last(redis[SourceKey(r)])
    IN  /\ Popping(c) /\ MayBePython(c)
        /\ MoveOldest(r)
        /\ e \notin Rejected
        /\ getReq' = [getReq EXCEPT ![c] =
                [NextList(r) EXCEPT !.tasks = Append(@, e)]]
        /\ UNCHANGED <<ackReq, received, faults>>

\* rpoplpush moves an entry the model class rejects: the request answers 500,
\* and the tasks it already moved are not answered either.
PopRejected(c) ==
    /\ Popping(c) /\ MayBePython(c)
    /\ MoveOldest(getReq[c])
    /\ Last(redis[SourceKey(getReq[c])]) \in Rejected
    /\ getReq' = [getReq EXCEPT ![c] = IdleGet]
    /\ UNCHANGED <<ackReq, received, faults>>

\* Entry e ends a search for task id: it is the one, or reading it raises.
LegacyHolds(e, id) == e \notin Unreadable /\ LegacyIdOf[e] = id
Stops(e, id) == e \in Unreadable \/ LegacyHolds(e, id)

\* The search reads the entries from the head of list up to place i.
StopsAt(list, id, i) ==
    /\ i \in DOMAIN list
    /\ Stops(list[i], id)
    /\ \A j \in 1..(i - 1) : ~Stops(list[j], id)

\* lrange, and a search of its answer that finds the entry or has none.
LegacyLRange(c) ==
    LET r    == ackReq[c]
        list == redis[processingKey(r.worker)]
    IN  /\ r.pc = "lrange"
        /\ \/ \E i \in DOMAIN list :
                 /\ StopsAt(list, r.id, i) /\ LegacyHolds(list[i], r.id)
                 /\ ackReq' = [ackReq EXCEPT ![c] =
                        [r EXCEPT !.pc = "lrem", !.raw = list[i]]]
           \/ /\ \A e \in ToSet(list) : ~Stops(e, r.id)
              /\ ackReq' = [ackReq EXCEPT ![c] = [r EXCEPT !.pc = "reply"]]
        /\ UNCHANGED <<redis, getReq, received, faults>>

\* lrange, and a search that raises: the request answers 500.
SearchRaises(c) ==
    LET r    == ackReq[c]
        list == redis[processingKey(r.worker)]
    IN  /\ r.pc = "lrange"
        /\ \E i \in DOMAIN list :
              StopsAt(list, r.id, i) /\ list[i] \in Unreadable
        /\ ackReq' = [ackReq EXCEPT ![c] = IdleAck]
        /\ UNCHANGED <<redis, getReq, received, faults>>

-----------------------------------------------------------------------------
GetStepOfEither(c) == GetStep(c) \/ LegacyPopTask(c) \/ PopRejected(c)

AckStepOfEither(c) == AckStep(c) \/ LegacyLRange(c) \/ SearchRaises(c)

LegacyNext ==
    \/ \E e \in Entries, k \in QueueKeys : PushTask(e, k)
    \/ \E c \in GetConns, w \in Workers,
          q \in CapacityQueries, p \in PlatformQueries :
             GetWork(c, w, q, p) \/ LegacyGetWork(c, w, q, p)
    \/ \E c \in GetConns : GetStepOfEither(c)
    \/ \E c \in AckConns, w \in Workers, id \in TaskIds : AckRequest(c, w, id)
    \/ \E c \in AckConns : AckStepOfEither(c)
    \/ Crash
    \/ \E w \in Workers : WorkerRestart(w)

LegacySpec == Init /\ [][LegacyNext]_vars

(***************************************************************************)
(* Fairness: that of TaskQueue, with the steps of both gateways.  Workers  *)
(* go on acknowledging each task until it is gone, and the producer pushes *)
(* finitely many payloads that one of the gateways cannot read (both       *)
(* external): each of these may end the poll that takes it.                *)
(***************************************************************************)
Acknowledge(w, id) == \E c \in AckConns : AckRequest(c, w, id)

LegacyFairness ==
    /\ \A c \in GetConns : WF_vars(GetStepOfEither(c))
    /\ SF_vars(FullPoll)
    /\ \A c \in AckConns : WF_vars(AckStepOfEither(c))
    /\ \A w \in Workers, id \in TaskIds : SF_vars(Acknowledge(w, id))
    /\ <>[][\A e \in Rejected \cup Undecodable : Mentioned(e)' => Mentioned(e)]_vars

LegacyFairSpec == LegacySpec /\ LegacyFairness

-----------------------------------------------------------------------------
(* Properties *)

\* While both gateways acknowledge, an entry leaves a processing list only by
\* a request that names this worker and the task id one of them reads in the
\* entry, though each passes over or stops at other payloads.
RemovedOnlyByAnAck ==
    [][\A w \in Workers :
          \A e \in ToSet(redis[processingKey(w)]) :
              \/ e \in ToSet(redis'[processingKey(w)])
              \/ \E c \in AckConns :
                    /\ ackReq[c].worker = w
                    /\ Holds(e, ackReq[c].id) \/ LegacyHolds(e, ackReq[c].id)]_vars

\* Both gateways read the same task id in e, one that workers ask for.
ReadAlike(e) ==
    /\ e \notin Undecodable /\ e \notin Unreadable
    /\ TaskIdOf[e] = LegacyIdOf[e] /\ TaskIdOf[e] \in TaskIds

\* Nearer to the head of list, where entries arrive and searches start, than e
\* is an entry at which the search of one of the gateways ends.
Behind(e, list) ==
    \E i, j \in DOMAIN list :
        /\ i < j /\ list[j] = e
        /\ Stops(list[i], TaskIdOf[e]) \/ Holds(list[i], TaskIdOf[e])

\* Every task that both gateways read alike is removed in the end from a
\* processing list by a worker that goes on acknowledging it, whichever
\* gateway answers and whatever requests die.  The exceptions are what a
\* search meets first: a payload that makes the Python search raise, whether
\* it is no JSON or has no task_id, and a later push of the same task.  For a
\* payload only one gateway reads, as push_task writes them, it does not hold:
\* the acknowledgements that reach the other one never find it.
HeldTasksSettled ==
    \A w \in Workers, e \in Entries :
        LET list == redis[processingKey(w)]
        IN  ReadAlike(e) =>
                (e \in ToSet(list) ~> e \notin ToSet(list) \/ Behind(e, list))
=============================================================================

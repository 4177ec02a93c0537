----------------------------- MODULE TaskQueue -----------------------------
(***************************************************************************)
(* The task queue of the Worker API: Redis lists, one per platform and     *)
(* priority, from which GET /internal/work moves entries to the processing *)
(* list of the asking worker, and from which POST /internal/tasks/.../     *)
(* complete and /fail remove them (internal/service/queue.go and the       *)
(* handlers work.go and tasks.go).                                         *)
(*                                                                         *)
(* A step is one Redis command of one request goroutine, so that requests  *)
(* interleave where the code lets them.  A list is a sequence whose first  *)
(* element is the head: LPUSH adds at the head, RPOPLPUSH takes from the   *)
(* tail.  An entry stands for a raw JSON payload; created_at makes the     *)
(* payloads of two pushes differ, and two entries may hold one task id.    *)
(***************************************************************************)
EXTENDS Integers, SequencesExt

CONSTANTS
    Workers,          \* values of the X-Worker-ID header
    Platforms,        \* platform names
    Entries,          \* raw payloads in the lists
    Undecodable,      \* the payloads json.Unmarshal rejects
    TaskIds,          \* task ids
    TaskIdOf,         \* the task id a decodable payload holds, or None
    GetConns,         \* goroutines serving GET /internal/work
    AckConns,         \* goroutines serving the /internal/tasks routes
    MaxPriority,      \* 4 in the code
    DefaultCapacity,  \* 10 in the code
    MaxCapacity,      \* 100 in the code
    CapacityQueries,  \* values of the capacity query parameter
    DefaultPlatforms, \* <<"beacon", "qpublic", "floridatax">> in the code
    PlatformQueries,  \* values of the platforms query parameter
    MaxFaults,        \* bound on the number of faults in a behaviour
    None              \* no worker, no entry, no task id that is ever asked for

Priorities == 1..MaxPriority

ASSUME MaxPriorityAssumption == MaxPriority \in Nat \ {0}
ASSUME CapacityAssumption ==
    /\ DefaultCapacity \in Nat \ {0}
    /\ MaxCapacity \in Nat
    /\ DefaultCapacity <= MaxCapacity
    /\ CapacityQueries \subseteq Int
ASSUME PlatformAssumption ==
    /\ DefaultPlatforms \in Seq(Platforms)
    /\ PlatformQueries \subseteq Seq(Platforms)
ASSUME EntryAssumption ==
    /\ Undecodable \subseteq Entries
    /\ TaskIdOf \in [Entries \ Undecodable -> TaskIds \cup {None}]
ASSUME NoneAssumption == None \notin Workers \cup Entries \cup TaskIds
ASSUME FaultAssumption == MaxFaults \in Nat

queueKey(platform, priority) == <<"queue", platform, priority>>
processingKey(worker) == <<"processing", worker>>

QueueKeys == {queueKey(p, n) : p \in Platforms, n \in Priorities}
ProcessingKeys == {processingKey(w) : w \in Workers}
Keys == QueueKeys \cup ProcessingKeys

VARIABLES
    redis,    \* the lists
    getReq,   \* state of each goroutine serving GET /internal/work
    ackReq,   \* state of each goroutine serving /internal/tasks/{id}/...
    received, \* payloads pushed once and delivered to each worker (external)
    faults    \* number of faults so far

vars == <<redis, getReq, ackReq, received, faults>>

IdleGet == [pc |-> "idle", worker |-> None, capacity |-> 0,
            platforms |-> <<>>, at |-> 1, priority |-> 1, tasks |-> <<>>]
IdleAck == [pc |-> "idle", worker |-> None, id |-> None, raw |-> None,
            ok |-> FALSE]

Init ==
    /\ redis = [k \in Keys |-> <<>>]
    /\ getReq = [c \in GetConns |-> IdleGet]
    /\ ackReq = [c \in AckConns |-> IdleAck]
    /\ received = [w \in Workers |-> {}]
    /\ faults = 0

-----------------------------------------------------------------------------
(* Redis *)

Stored(e) == \E k \in DOMAIN redis : e \in ToSet(redis[k])

\* Variant: the tail is read and not removed.
RPeekLPush(src, dst) ==
    redis' = [redis EXCEPT ![dst] = Cons(Last(redis[src]), @)]

\* RPOPLPUSH src dst on a source that is not empty.
RPopLPush(src, dst) ==
    redis' = [redis EXCEPT ![src] = Front(@),
                           ![dst] = Cons(Last(redis[src]), @)]

\* Variant: a value that matches nothing.
LRemReencoded(key, raw) == UNCHANGED redis

\* Variant: what is at the head by now, not the value that was found.
LRemHead(key, raw) ==
    redis' = [redis EXCEPT ![key] = IF @ = <<>> THEN @ ELSE Tail(@)]

\* LREM key 1 raw.
LRemOne(key, raw) ==
    \/ /\ raw \notin ToSet(redis[key])
       /\ UNCHANGED redis
    \/ \E i \in DOMAIN redis[key] :
          /\ redis[key][i] = raw
          /\ \A j \in 1..(i - 1) : redis[key][j] # raw
          /\ redis' = [redis EXCEPT ![key] = RemoveAt(@, i)]

Fault == faults < MaxFaults /\ faults' = faults + 1

-----------------------------------------------------------------------------
(* The producer (external): LPUSH of a payload that was never seen.  An    *)
(* entry that left the lists and every request names the new payload.      *)

Mentioned(e) ==
    \/ Stored(e)
    \/ \E c \in GetConns : e \in ToSet(getReq[c].tasks)
    \/ \E c \in AckConns : e = ackReq[c].raw

PushTask(e, key) ==
    /\ ~Mentioned(e)
    /\ redis' = [redis EXCEPT ![key] = Cons(e, @)]
    /\ received' = [w \in Workers |-> received[w] \ {e}]
    /\ UNCHANGED <<getReq, ackReq, faults>>

-----------------------------------------------------------------------------
(* GET /internal/work *)

\* The capacity the handler works with.
ClampCapacity(q) ==
    IF q <= 0 THEN DefaultCapacity
    ELSE IF q > MaxCapacity THEN MaxCapacity ELSE q

\* The platforms the handler works with.
RequestedPlatforms(q) == IF q = <<>> THEN DefaultPlatforms ELSE q

GetWork(c, w, capacityQuery, platformQuery) ==
    /\ getReq[c].pc = "idle"
    /\ getReq' = [getReq EXCEPT ![c] =
            [IdleGet EXCEPT !.pc = "pop", !.worker = w,
                !.capacity = ClampCapacity(capacityQuery),
                !.platforms = RequestedPlatforms(platformQuery)]]
    /\ UNCHANGED <<redis, ackReq, received, faults>>

\* Variant: the loops go on at capacity.
PopDoneLate(r) == r.at > Len(r.platforms) \/ Len(r.tasks) > r.capacity

\* The two nested loops have ended.
PopDone(r) == r.at > Len(r.platforms) \/ Len(r.tasks) >= r.capacity

Popping(c) == getReq[c].pc = "pop" /\ ~PopDone(getReq[c])

SourceKey(r) == queueKey(r.platforms[r.at], r.priority)

\* Variants: one priority too many; the first priority of each platform only.
NextListPast(r) ==
    IF r.priority <= MaxPriority
    THEN [r EXCEPT !.priority = @ + 1]
    ELSE [r EXCEPT !.at = @ + 1, !.priority = 1]

NextPlatform(r) == [r EXCEPT !.at = @ + 1]

\* The request at its next priority, or at the first of the next platform.
NextList(r) ==
    IF r.priority < MaxPriority
    THEN [r EXCEPT !.priority = @ + 1]
    ELSE [r EXCEPT !.at = @ + 1, !.priority = 1]

\* Variant: nil is an error like the others, and what was moved is dropped.
PopEmptyFails(c) ==
    /\ Popping(c)
    /\ redis[SourceKey(getReq[c])] = <<>>
    /\ getReq' = [getReq EXCEPT ![c] = IdleGet]
    /\ UNCHANGED <<redis, ackReq, received, faults>>

\* RPOPLPUSH answers nil.
PopEmpty(c) ==
    /\ Popping(c)
    /\ redis[SourceKey(getReq[c])] = <<>>
    /\ getReq' = [getReq EXCEPT ![c] = NextList(@)]
    /\ UNCHANGED <<redis, ackReq, received, faults>>

\* RPOPLPUSH moves the oldest entry, whatever becomes of its answer.
MoveOldest(r) ==
    /\ redis[SourceKey(r)] # <<>>
    /\ RPopLPush(SourceKey(r), processingKey(r.worker))

\* All a request took so far decodes.  It always does while the Go gateway alone
\* serves the lists; next to the Python gateway (LegacyQueue), a request that
\* took another payload is not one of the Go gateway.
MayBeGo(c) == ToSet(getReq[c].tasks) \cap Undecodable = {}

\* RPOPLPUSH moves an entry that decodes.
PopTask(c) ==
    LET r == getReq[c]
        e == Last(redis[SourceKey(r)])
    IN  /\ Popping(c) /\ MayBeGo(c)
        /\ MoveOldest(r)
        /\ e \notin Undecodable
        /\ getReq' = [getReq EXCEPT ![c] =
                [NextList(r) EXCEPT !.tasks = Append(@, e)]]
        /\ UNCHANGED <<ackReq, received, faults>>

\* The entry is moved and does not decode: the request answers 500.
PopUndecodable(c) ==
    /\ Popping(c) /\ MayBeGo(c)
    /\ MoveOldest(getReq[c])
    /\ Last(redis[SourceKey(getReq[c])]) \in Undecodable
    /\ getReq' = [getReq EXCEPT ![c] = IdleGet]
    /\ UNCHANGED <<ackReq, received, faults>>

\* RPOPLPUSH fails, executed or not (a Redis error, a lost answer, a
\* cancelled request context): the request answers 500.
PopFails(c) ==
    /\ Popping(c)
    /\ Fault
    /\ MoveOldest(getReq[c]) \/ UNCHANGED redis
    /\ getReq' = [getReq EXCEPT ![c] = IdleGet]
    /\ UNCHANGED <<ackReq, received>>

\* RPOPLPUSH is executed, its answer is lost, and the client library sends
\* the command again (external: go-redis retries up to three times).
PopResent(c) ==
    /\ Popping(c)
    /\ Fault
    /\ MoveOldest(getReq[c])
    /\ UNCHANGED <<getReq, ackReq, received>>

\* The response reaches the worker.
SendWork(c) ==
    LET r == getReq[c]
    IN  /\ r.pc = "pop" /\ PopDone(r)
        /\ received' = [received EXCEPT ![r.worker] = @ \cup ToSet(r.tasks)]
        /\ getReq' = [getReq EXCEPT ![c] = IdleGet]
        /\ UNCHANGED <<redis, ackReq, faults>>

\* The response is lost: the handler ignores the error of Encode.
LoseWork(c) ==
    /\ getReq[c].pc = "pop" /\ PopDone(getReq[c])
    /\ Fault
    /\ getReq' = [getReq EXCEPT ![c] = IdleGet]
    /\ UNCHANGED <<redis, ackReq, received>>

-----------------------------------------------------------------------------
(* POST /internal/tasks/{taskID}/complete and /fail: FailTask is           *)
(* CompleteTask, and the handlers differ in the body they answer only.     *)

AckRequest(c, w, id) ==
    /\ ackReq[c].pc = "idle"
    /\ ackReq' = [ackReq EXCEPT ![c] =
            [IdleAck EXCEPT !.pc = "lrange", !.worker = w, !.id = id]]
    /\ UNCHANGED <<redis, getReq, received, faults>>

\* Entry e decodes and holds task id.
Holds(e, id) == e \notin Undecodable /\ TaskIdOf[e] = id

\* Variant: the first entry, whatever it holds.
FirstOfAny(list, id, i) == i \in DOMAIN list /\ i = 1

\* i is the place of the first entry of list that holds the task id.
FirstHolding(list, id, i) ==
    /\ i \in DOMAIN list
    /\ Holds(list[i], id)
    /\ \A j \in 1..(i - 1) : ~Holds(list[j], id)

\* LRANGE, and the search of the answer.
AckLRange(c) ==
    LET r    == ackReq[c]
        list == redis[processingKey(r.worker)]
    IN  /\ r.pc = "lrange"
        /\ \/ \E i \in DOMAIN list :
                 /\ FirstHolding(list, r.id, i)
                 /\ ackReq' = [ackReq EXCEPT ![c] =
                        [r EXCEPT !.pc = "lrem", !.raw = list[i]]]
           \/ /\ \A e \in ToSet(list) : ~Holds(e, r.id)
              /\ ackReq' = [ackReq EXCEPT ![c] = [r EXCEPT !.pc = "reply"]]
        /\ UNCHANGED <<redis, getReq, received, faults>>

\* LRANGE fails: the request answers 500.
AckLRangeFails(c) ==
    /\ ackReq[c].pc = "lrange"
    /\ Fault
    /\ ackReq' = [ackReq EXCEPT ![c] = IdleAck]
    /\ UNCHANGED <<redis, getReq, received>>

\* LREM, whose count of removed entries the code does not look at.
AckLRem(c) ==
    LET r == ackReq[c]
    IN  /\ r.pc = "lrem"
        /\ LRemOne(processingKey(r.worker), r.raw)
        /\ ackReq' = [ackReq EXCEPT ![c] =
                [r EXCEPT !.pc = "reply", !.ok = TRUE]]
        /\ UNCHANGED <<getReq, received, faults>>

\* LREM fails, executed or not: the answer is success: false.
AckLRemFails(c) ==
    LET r == ackReq[c]
    IN  /\ r.pc = "lrem"
        /\ Fault
        /\ LRemOne(processingKey(r.worker), r.raw) \/ UNCHANGED redis
        /\ ackReq' = [ackReq EXCEPT ![c] = [r EXCEPT !.pc = "reply"]]
        /\ UNCHANGED <<getReq, received>>

\* The response is written, received or not.
AckReply(c) ==
    /\ ackReq[c].pc = "reply"
    /\ ackReq' = [ackReq EXCEPT ![c] = IdleAck]
    /\ UNCHANGED <<redis, getReq, received, faults>>

-----------------------------------------------------------------------------
(* The environment *)

\* The gateway stops and starts again: its requests vanish, Redis stays.
Crash ==
    /\ Fault
    /\ getReq' = [c \in GetConns |-> IdleGet]
    /\ ackReq' = [c \in AckConns |-> IdleAck]
    /\ UNCHANGED <<redis, received>>

\* A worker (external) stops and starts again without its tasks.
WorkerRestart(w) ==
    /\ Fault
    /\ received' = [received EXCEPT ![w] = {}]
    /\ UNCHANGED <<redis, getReq, ackReq>>

-----------------------------------------------------------------------------
GetStep(c) ==
    \/ PopEmpty(c) \/ PopTask(c) \/ PopUndecodable(c) \/ PopFails(c)
    \/ PopResent(c) \/ SendWork(c) \/ LoseWork(c)

AckStep(c) ==
    \/ AckLRange(c) \/ AckLRangeFails(c) \/ AckLRem(c) \/ AckLRemFails(c)
    \/ AckReply(c)

Next ==
    \/ \E e \in Entries, k \in QueueKeys : PushTask(e, k)
    \/ \E c \in GetConns, w \in Workers,
          q \in CapacityQueries, p \in PlatformQueries : GetWork(c, w, q, p)
    \/ \E c \in GetConns : GetStep(c)
    \/ \E c \in AckConns, w \in Workers, id \in TaskIds : AckRequest(c, w, id)
    \/ \E c \in AckConns : AckStep(c)
    \/ Crash
    \/ \E w \in Workers : WorkerRestart(w)

Spec == Init /\ [][Next]_vars

(***************************************************************************)
(* Fairness: the gateway runs its goroutines, a request that is sent is    *)
(* accepted in the end (net/http starts a goroutine for each), and workers *)
(* poll for ever (retry_after), at least one of them for every platform    *)
(* and with room for one entry of every list.                              *)
(***************************************************************************)
Covers(q, p) ==
    LET platforms == RequestedPlatforms(p)
    IN  /\ Platforms \subseteq ToSet(platforms)
        /\ ClampCapacity(q) >= MaxPriority * Len(platforms)

FullPoll ==
    \E c \in GetConns, w \in Workers,
       q \in CapacityQueries, p \in PlatformQueries :
          Covers(q, p) /\ GetWork(c, w, q, p)

Fairness ==
    /\ \A c \in GetConns : WF_vars(GetStep(c))
    /\ SF_vars(FullPoll)

FairSpec == Spec /\ Fairness

-----------------------------------------------------------------------------
(* Properties *)

GetRequests == [pc : {"idle", "pop"}, worker : Workers \cup {None},
                capacity : Nat, platforms : Seq(Platforms), at : Nat \ {0},
                priority : Priorities, tasks : Seq(Entries)]
AckRequests == [pc : {"idle", "lrange", "lrem", "reply"},
                worker : Workers \cup {None}, id : TaskIds \cup {None},
                raw : Entries \cup {None}, ok : BOOLEAN]

\* The lists hold payloads, and every request in progress names a worker.
TypeOK ==
    /\ redis \in [Keys -> Seq(Entries)]
    /\ getReq \in [GetConns -> GetRequests]
    /\ ackReq \in [AckConns -> AckRequests]
    /\ received \in [Workers -> SUBSET Entries]
    /\ faults \in 0..MaxFaults
    /\ \A c \in GetConns : getReq[c].pc = "pop" => getReq[c].worker \in Workers
    /\ \A c \in AckConns :
          /\ ackReq[c].pc # "idle" => ackReq[c].worker \in Workers
          /\ ackReq[c].pc = "lrem" => ackReq[c].raw \in Entries

\* A payload is in one place of one list: whatever pops, acknowledgements,
\* failed commands and crashes interleave, none is copied.
OnePlace ==
    \A k1, k2 \in DOMAIN redis :
        \A i \in DOMAIN redis[k1], j \in DOMAIN redis[k2] :
            redis[k1][i] = redis[k2][j] => k1 = k2 /\ i = j

\* What worker w holds or is about to be sent.
OnItsWayTo(w, e) ==
    \E c \in GetConns : getReq[c].worker = w /\ e \in ToSet(getReq[c].tasks)

\* A payload is handed to one worker, and in one response, even while
\* another worker acknowledges, crashes or asks again.
DeliveredOnce ==
    /\ \A w1, w2 \in Workers : w1 # w2 => received[w1] \cap received[w2] = {}
    /\ \A c \in GetConns, w \in Workers :
          ToSet(getReq[c].tasks) \cap received[w] = {}
    /\ \A c1, c2 \in GetConns :
          c1 # c2 => ToSet(getReq[c1].tasks) \cap ToSet(getReq[c2].tasks) = {}

\* A response holds at most capacity tasks and at most one from each list
\* the request names (the bounds of the two loops of PopTasks).
ResponseBounded ==
    \A c \in GetConns :
        LET r == getReq[c]
        IN  /\ Len(r.tasks) <= r.capacity
            /\ Len(r.tasks) <= MaxPriority * Len(r.platforms)
            /\ IsInjective(r.tasks)

\* Every entry of a processing list is known to its worker or on its way to
\* it, unless a fault happened or an entry of that list does not decode:
\* nothing else leaves behind an entry no worker can complete.
StrandedOnlyByFault ==
    \A w \in Workers :
        LET held == ToSet(redis[processingKey(w)])
        IN  faults = 0 /\ held \cap Undecodable = {} =>
                \A e \in held : e \in received[w] \/ OnItsWayTo(w, e)

\* A request that answers success leaves no trace of the entry it chose, even
\* when another request for the same id ran between its LRANGE and its LREM.
SuccessMeansGone ==
    \A c \in AckConns :
        ackReq[c].pc = "reply" /\ ackReq[c].ok => ~Stored(ackReq[c].raw)

\* An entry leaves a processing list only by a request that names this worker
\* and the task id of the entry: no pop, crash or other worker removes it.
RemovedOnlyByItsAck ==
    [][\A w \in Workers :
          \A e \in ToSet(redis[processingKey(w)]) :
              \/ e \in ToSet(redis'[processingKey(w)])
              \/ \E c \in AckConns : /\ ackReq[c].worker = w
                                     /\ Holds(e, ackReq[c].id)]_vars

\* The queue is the ledger: seen as the set of payloads waiting in the queues
\* and the set of those claimed by each worker, every step of the gateway
\* submits one payload, hands one to one worker, settles one, or changes
\* nothing.
Waiting == {e \in Entries : \E k \in QueueKeys : e \in ToSet(redis[k])}
Claimed == [w \in Workers |-> ToSet(redis[processingKey(w)])]

Ledger == INSTANCE TaskLedger WITH waiting <- Waiting, claimed <- Claimed

ImplementsLedger == Ledger!Spec

\* No starvation: while some worker polls with room for every list, each
\* entry of a queue leaves it, whatever is pushed to the other lists.
NoStarvation ==
    \A e \in Entries :
        (\E k \in QueueKeys : e \in ToSet(redis[k]))
            ~> (\A k \in QueueKeys : e \notin ToSet(redis[k]))
=============================================================================

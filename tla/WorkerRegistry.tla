--------------------------- MODULE WorkerRegistry ---------------------------
(***************************************************************************)
(* POST /internal/heartbeat: the status of a worker is a Redis hash that   *)
(* is written by HSET and given a time to live by EXPIRE, two commands of  *)
(* one request (internal/service/worker_registry.go, internal/handler/     *)
(* heartbeat.go); the heartbeat route of the Python gateway sends the same *)
(* commands to the same key (legacy/app/api/internal/monitoring.py).  HSET *)
(* writes all fields at once; the one kept here is last_seen, as its age.  *)
(***************************************************************************)
EXTENDS Integers

CONSTANTS
    Workers,      \* values of the X-Worker-ID header
    Conns,        \* goroutines serving POST /internal/heartbeat
    heartbeatTTL, \* 300 seconds in the code, in ticks
    MaxDelay,     \* ticks from the reading of the clock to the end of EXPIRE
    MaxFaults,    \* bound on the number of faults in a behaviour
    None          \* no worker

ASSUME TTLAssumption == heartbeatTTL \in Nat \ {0}
ASSUME BoundAssumption == MaxFaults \in Nat /\ MaxDelay \in Nat
ASSUME NoneAssumption == None \notin Workers

VARIABLES
    seen,  \* ticks since last_seen of each status
    life,  \* ticks each status has to live: 0 when there is none, or Forever
    beat,  \* state of each goroutine serving a heartbeat
    alive, \* workers that send heartbeats (external)
    faults \* number of faults so far

vars == <<seen, life, beat, alive, faults>>

Forever == heartbeatTTL + 1

\* A bound for ages, above those StatusFresh allows.
Old == heartbeatTTL + 2 * MaxDelay + 1

\* age: ticks since the request read the clock.
IdleBeat == [pc |-> "idle", worker |-> None, age |-> 0]

Init ==
    /\ seen = [w \in Workers |-> 0]
    /\ life = [w \in Workers |-> 0]
    /\ beat = [c \in Conns |-> IdleBeat]
    /\ alive = Workers
    /\ faults = 0

Fault == faults < MaxFaults /\ faults' = faults + 1

-----------------------------------------------------------------------------
Heartbeat(c, w) ==
    /\ beat[c].pc = "idle" /\ w \in alive
    /\ beat' = [beat EXCEPT ![c] = [pc |-> "hset", worker |-> w, age |-> 0]]
    /\ UNCHANGED <<seen, life, alive, faults>>

\* Variant: HSETNX, which writes last_seen once.
WriteStatusOnce(w, age) ==
    /\ life' = [life EXCEPT ![w] = IF @ = 0 THEN Forever ELSE @]
    /\ seen' = [seen EXCEPT ![w] = IF life[w] = 0 THEN age ELSE @]

\* HSET keeps the time to live of a key that exists; a new key has none.
WriteStatus(w, age) ==
    /\ life' = [life EXCEPT ![w] = IF @ = 0 THEN Forever ELSE @]
    /\ seen' = [seen EXCEPT ![w] = age]

HSet(c) ==
    /\ beat[c].pc = "hset"
    /\ WriteStatus(beat[c].worker, beat[c].age)
    /\ beat' = [beat EXCEPT ![c].pc = "expire"]
    /\ UNCHANGED <<alive, faults>>

\* HSET fails, executed or not: the request answers 500.
HSetFails(c) ==
    /\ beat[c].pc = "hset"
    /\ Fault
    /\ WriteStatus(beat[c].worker, beat[c].age) \/ UNCHANGED <<seen, life>>
    /\ beat' = [beat EXCEPT ![c] = IdleBeat]
    /\ UNCHANGED alive

\* Variants: EXPIRE of another key; a time to live that adds up.
ExpireOther(w) == UNCHANGED life
ExpireAdds(w) ==
    life' = [life EXCEPT ![w] = IF @ = 0 THEN 0 ELSE @ + heartbeatTTL]

\* EXPIRE sets the time to live of a key that exists, else does nothing.
Expire(w) ==
    life' = [life EXCEPT ![w] = IF @ = 0 THEN 0 ELSE heartbeatTTL]

\* EXPIRE does not fail: the heartbeat is acknowledged, whether or not there
\* was a key.
Acknowledge(c) ==
    /\ beat[c].pc = "expire"
    /\ Expire(beat[c].worker)
    /\ beat' = [beat EXCEPT ![c].pc = "reply", ![c].age = 0]
    /\ UNCHANGED <<seen, alive, faults>>

\* EXPIRE fails, executed or not: the request answers 500.
ExpireFails(c) ==
    /\ beat[c].pc = "expire"
    /\ Fault
    /\ Expire(beat[c].worker) \/ UNCHANGED life
    /\ beat' = [beat EXCEPT ![c] = IdleBeat]
    /\ UNCHANGED <<seen, alive>>

Reply(c) ==
    /\ beat[c].pc = "reply"
    /\ beat' = [beat EXCEPT ![c] = IdleBeat]
    /\ UNCHANGED <<seen, life, alive, faults>>

\* The gateway stops and starts again.
Crash ==
    /\ Fault
    /\ beat' = [c \in Conns |-> IdleBeat]
    /\ UNCHANGED <<seen, life, alive>>

Waiting(c) == beat[c].pc \in {"hset", "expire"}

\* Time passes (external): Redis deletes a key whose time is over.  No
\* request takes more than MaxDelay ticks: the commands of the Go gateway have
\* timeouts; for the Python one, which sets none, this is an assumption.
Tick ==
    /\ \A c \in Conns : Waiting(c) => beat[c].age < MaxDelay
    /\ life' = [w \in Workers |->
                    IF life[w] \in {0, Forever} THEN life[w] ELSE life[w] - 1]
    /\ seen' = [w \in Workers |->
                    IF life[w] \in {0, 1} THEN 0
                    ELSE IF seen[w] < Old THEN seen[w] + 1 ELSE Old]
    /\ beat' = [c \in Conns |->
                    IF Waiting(c) THEN [beat[c] EXCEPT !.age = @ + 1] ELSE beat[c]]
    /\ UNCHANGED <<alive, faults>>

\* A worker (external) stops or starts.
WorkerChanges(w) ==
    /\ alive' = IF w \in alive THEN alive \ {w} ELSE alive \cup {w}
    /\ UNCHANGED <<seen, life, beat, faults>>

Step(c) == HSet(c) \/ HSetFails(c) \/ Acknowledge(c) \/ ExpireFails(c) \/ Reply(c)

Next ==
    \/ \E c \in Conns, w \in Workers : Heartbeat(c, w)
    \/ \E c \in Conns : Step(c)
    \/ Crash
    \/ Tick
    \/ \E w \in Workers : WorkerChanges(w)

Spec == Init /\ [][Next]_vars

\* Goroutines run, and time passes.
FairSpec == Spec /\ WF_vars(Tick) /\ \A c \in Conns : WF_vars(Step(c))

-----------------------------------------------------------------------------
(* Properties *)

\* A status lives at most heartbeatTTL ticks, or for ever, and a request in
\* progress names a worker.
TypeOK ==
    /\ seen \in [Workers -> 0..Old]
    /\ life \in [Workers -> 0..Forever]
    /\ beat \in [Conns -> [pc : {"idle", "hset", "expire", "reply"},
                           worker : Workers \cup {None}, age : 0..MaxDelay]]
    /\ alive \subseteq Workers
    /\ faults \in 0..MaxFaults
    /\ \A c \in Conns : beat[c].pc # "idle" => beat[c].worker \in Workers

\* While nothing fails, a status without a time to live is about to get one:
\* no interleaving of heartbeats and expiries leaves one behind.
ForeverOnlyByFault ==
    faults = 0 =>
        \A w \in Workers :
            life[w] = Forever =>
                \E c \in Conns : beat[c].pc = "expire" /\ beat[c].worker = w

\* While nothing fails, the last_seen of a status is at most as old as the time
\* to live it has used up and twice MaxDelay: heartbeats of one worker that
\* overtake each other can set it back, but never lengthen the life of an
\* older one by more than the requests wait.
StatusFresh ==
    faults = 0 =>
        \A w \in Workers :
            /\ life[w] \in 1..heartbeatTTL =>
                    seen[w] <= heartbeatTTL - life[w] + 2 * MaxDelay
            /\ life[w] = Forever => seen[w] <= 2 * MaxDelay

\* While nothing fails, the status of a worker that stays silent disappears,
\* so that a status in Redis means a worker was alive within heartbeatTTL.
SilentWorkerForgotten ==
    \A w \in Workers :
        [](faults = 0) /\ <>[](w \notin alive) => <>[](life[w] = 0)
=============================================================================

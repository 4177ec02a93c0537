------------------------------ MODULE Gateway ------------------------------
(***************************************************************************)
(* The life of a gateway process around the requests of WorkerResults      *)
(* (cmd/gateway/main.go).  It serves requests once Redis and PostgreSQL    *)
(* answer.  At a signal it takes no more requests and waits for those in   *)
(* progress, at most five seconds; then the deferred calls close the pool  *)
(* and the Redis client, whatever still runs, and the process ends.        *)
(***************************************************************************)
EXTENDS WorkerResults

VARIABLES
    phase, \* how far the process is between start and end
    cut    \* whether the five seconds ever were over too early (history)

lifeVars == <<phase, cut>>
gatewayVars == <<allVars, lifeVars>>

GatewayInit ==
    /\ ResultsInit
    /\ phase = "down"
    /\ cut = FALSE

Starting == {"down", "redis open", "pool open"}
Running == {"serving", "draining", "pool closed", "redis closed"}

\* No request is in progress.
AllIdle ==
    /\ \A c \in GetConns : getReq[c].pc = "idle"
    /\ \A c \in AckConns : ackReq[c].pc = "idle"
    /\ \A c \in SubConns : subReq[c].pc = "idle"

-----------------------------------------------------------------------------
(* main *)

\* The Redis client is made and answers its ping; if it does not, the process
\* ends (log.Fatal), down as before.
OpenRedis ==
    /\ phase = "down"
    /\ phase' = "redis open"
    /\ UNCHANGED <<allVars, cut>>

\* The pool is made and answers its ping.
OpenPool ==
    /\ phase = "redis open"
    /\ phase' = "pool open"
    /\ UNCHANGED <<allVars, cut>>

Listen ==
    /\ phase = "pool open"
    /\ phase' = "serving"
    /\ UNCHANGED <<allVars, cut>>

\* PostgreSQL does not answer, or the port is in use: log.Fatal.
StartFails ==
    /\ phase \in {"redis open", "pool open"}
    /\ phase' = "down"
    /\ UNCHANGED <<allVars, cut>>

Signal ==
    /\ phase = "serving"
    /\ phase' = "draining"
    /\ UNCHANGED <<allVars, cut>>

\* Variant: http.Server.Close, which waits for no request.
ClosedAtOnce ==
    /\ phase = "draining"
    /\ phase' = "pool closed"
    /\ UNCHANGED <<allVars, cut>>

\* Shutdown returns when no request is in progress; pgPool.Close.
Drained ==
    /\ phase = "draining" /\ AllIdle
    /\ phase' = "pool closed"
    /\ UNCHANGED <<allVars, cut>>

\* Shutdown returns because its context is over; pgPool.Close.
GraceOver ==
    /\ phase = "draining" /\ ~AllIdle
    /\ phase' = "pool closed"
    /\ cut' = TRUE
    /\ UNCHANGED allVars

CloseRedis ==
    /\ phase = "pool closed"
    /\ phase' = "redis closed"
    /\ UNCHANGED <<allVars, cut>>

\* The requests still in progress end with the process.
Exit ==
    /\ phase = "redis closed"
    /\ phase' = "down"
    /\ getReq' = [c \in GetConns |-> IdleGet]
    /\ ackReq' = [c \in AckConns |-> IdleAck]
    /\ subReq' = [c \in SubConns |-> IdleSub]
    /\ UNCHANGED <<redis, received, faults, parcels, inserts, cut>>

GatewayCrash ==
    /\ phase # "down"
    /\ ResultsCrash
    /\ phase' = "down"
    /\ UNCHANGED cut

-----------------------------------------------------------------------------
(* Requests *)

Accept ==
    /\ phase = "serving"
    /\ QueueRequest \/ ResultsRequest
    /\ UNCHANGED lifeVars

NeedsPool(c) == subReq[c].pc \in {"exists", "upsert"}

RedisOpen == phase \in {"serving", "draining", "pool closed"}

\* A step of a request whose client is open.  The responses of requests that
\* outlived the five seconds are written as long as the process lives.
Proceed ==
    /\ \/ RedisOpen /\ QueueStep
       \/ \E c \in SubConns :
             /\ IF NeedsPool(c) THEN phase \in {"serving", "draining"} ELSE RedisOpen
             /\ SubStep(c)
    /\ UNCHANGED lifeVars

\* A statement on the closed pool is not executed: the SELECT leaves existed
\* as it is, the INSERT is a failed result.
PoolClosed(c) ==
    /\ phase \in {"pool closed", "redis closed"}
    /\ NeedsPool(c)
    /\ subReq' = [subReq EXCEPT ![c] =
            IF @.pc = "exists" THEN [@ EXCEPT !.pc = "upsert"] ELSE Failed(@)]
    /\ UNCHANGED <<vars, parcels, inserts, lifeVars>>

\* Redis commands on the closed client are not executed.  Work: 500.
PopClosed(c) ==
    /\ phase = "redis closed"
    /\ Popping(c)
    /\ getReq' = [getReq EXCEPT ![c] = IdleGet]
    /\ UNCHANGED <<redis, ackReq, received, faults, resultVars, lifeVars>>

\* Tasks: 500, or success: false if LREM is refused.
AckClosed(c) ==
    /\ phase = "redis closed"
    /\ \/ /\ ackReq[c].pc = "lrange"
          /\ ackReq' = [ackReq EXCEPT ![c] = IdleAck]
       \/ /\ ackReq[c].pc = "lrem"
          /\ ackReq' = [ackReq EXCEPT ![c].pc = "reply"]
    /\ UNCHANGED <<redis, getReq, received, faults, resultVars, lifeVars>>

\* Results: the error of CompleteTask is ignored.
CompleteClosed(c) ==
    /\ phase = "redis closed"
    /\ subReq[c].pc \in {"lrange", "lrem"}
    /\ subReq' = [subReq EXCEPT ![c] = NextResult(@)]
    /\ UNCHANGED <<vars, parcels, inserts, lifeVars>>

GatewayNext ==
    \/ OpenRedis \/ OpenPool \/ Listen \/ StartFails
    \/ Signal \/ Drained \/ GraceOver \/ CloseRedis \/ Exit
    \/ GatewayCrash
    \/ ExternalStep /\ UNCHANGED lifeVars
    \/ Accept \/ Proceed
    \/ \E c \in SubConns : PoolClosed(c) \/ CompleteClosed(c)
    \/ \E c \in GetConns : PopClosed(c)
    \/ \E c \in AckConns : AckClosed(c)

GatewaySpec == GatewayInit /\ [][GatewayNext]_gatewayVars

-----------------------------------------------------------------------------
(* Properties *)

\* The process is in one of its phases, and one that does not serve yet has no
\* requests.
GatewayTypeOK ==
    /\ ResultsTypeOK
    /\ phase \in Starting \cup Running
    /\ cut \in BOOLEAN
    /\ phase \in Starting => AllIdle

\* A signal loses nothing: across stops and starts whose requests end within
\* the five seconds, every entry of a processing list is known to its worker
\* or on its way to it, as while the gateway serves.
GracefulLosesNothing == ~cut => StrandedOnlyByFault
=============================================================================

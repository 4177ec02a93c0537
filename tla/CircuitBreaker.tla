--------------------------- MODULE CircuitBreaker ---------------------------
(***************************************************************************)
(* The circuit breaker the legacy public API keeps for each upstream       *)
(* service (legacy/app/services/http_client.py).  Every client of the      *)
(* service shares it.  One event loop runs the requests, so a step is the  *)
(* code between two awaits: a request is admitted or refused, a call ends. *)
(***************************************************************************)
EXTENDS Integers

CONSTANTS
    Calls,           \* requests that may be in flight at once
    Threshold,       \* 5 in the code
    RecoveryTimeout, \* 30 seconds in the code
    MaxFailures      \* the model counts failures up to here

ASSUME ThresholdAssumption == Threshold \in Nat \ {0}
ASSUME TimeoutAssumption == RecoveryTimeout \in Nat
ASSUME BoundAssumption == MaxFailures \in Nat /\ MaxFailures >= Threshold

VARIABLES
    state,     \* CircuitState
    failures,  \* failures since the last success, up to MaxFailures
    quiet,     \* time since last_failure_time, up to RecoveryTimeout + 1
    inFlight,  \* calls that were admitted and have not ended
    serviceUp  \* whether the upstream service answers below 500 (external)

vars == <<state, failures, quiet, inFlight, serviceUp>>

Recovered == quiet > RecoveryTimeout

Init ==
    /\ state = "CLOSED"
    /\ failures = 0
    /\ quiet = RecoveryTimeout + 1
    /\ inFlight = {}
    /\ serviceUp \in BOOLEAN

-----------------------------------------------------------------------------
\* Variants: the counter, or the state, is not reset; the counter decays.
record_success_state == state' = "CLOSED" /\ UNCHANGED <<failures, quiet>>
record_success_count == failures' = 0 /\ UNCHANGED <<state, quiet>>

record_success_decay ==
    failures' = failures - 1 /\ state' = "CLOSED" /\ UNCHANGED quiet

record_success ==
    /\ failures' = 0
    /\ state' = "CLOSED"
    /\ UNCHANGED quiet

\* The counter is only compared with Threshold, so it need not grow past it.
record_failure ==
    /\ failures' = IF failures < MaxFailures THEN failures + 1 ELSE failures
    /\ quiet' = 0
    /\ state' = IF failures + 1 >= Threshold THEN "OPEN" ELSE state

\* can_execute answers true.
Admit(r) ==
    /\ r \notin inFlight
    /\ \/ state \in {"CLOSED", "HALF_OPEN"} /\ UNCHANGED state
       \/ state = "OPEN" /\ Recovered /\ state' = "HALF_OPEN"
    /\ inFlight' = inFlight \cup {r}
    /\ UNCHANGED <<failures, quiet, serviceUp>>

\* Variant: a refused request counts as a failure.
RefuseAndRecord(r) ==
    /\ r \notin inFlight
    /\ state = "OPEN" /\ ~Recovered
    /\ quiet' = 0
    /\ UNCHANGED <<state, failures, inFlight, serviceUp>>

\* can_execute answers false: the request raises at once.
Refuse(r) ==
    /\ r \notin inFlight
    /\ state = "OPEN" /\ ~Recovered
    /\ UNCHANGED vars

\* The service answers below 500.
CallSucceeds(r) ==
    /\ r \in inFlight /\ serviceUp
    /\ record_success
    /\ inFlight' = inFlight \ {r}
    /\ UNCHANGED serviceUp

\* The service answers 500 or more, cannot be reached or is too slow.
CallFails(r) ==
    /\ r \in inFlight /\ ~serviceUp
    /\ record_failure
    /\ inFlight' = inFlight \ {r}
    /\ UNCHANGED serviceUp

\* The request is cancelled: neither except clause runs for it.
CallCancelled(r) ==
    /\ r \in inFlight
    /\ inFlight' = inFlight \ {r}
    /\ UNCHANGED <<state, failures, quiet, serviceUp>>

\* Time passes.
Tick ==
    /\ quiet' = IF Recovered THEN quiet ELSE quiet + 1
    /\ UNCHANGED <<state, failures, inFlight, serviceUp>>

ServiceChanges ==
    /\ serviceUp' = ~serviceUp
    /\ UNCHANGED <<state, failures, quiet, inFlight>>

Request(r) == Admit(r) \/ Refuse(r)
CallEnds(r) == CallSucceeds(r) \/ CallFails(r) \/ CallCancelled(r)

Next ==
    \/ \E r \in Calls : Request(r) \/ CallEnds(r)
    \/ Tick
    \/ ServiceChanges

Spec == Init /\ [][Next]_vars

-----------------------------------------------------------------------------
(* Properties *)

\* The counter of failures and the state stay in range, whatever calls end.
TypeOK ==
    /\ state \in {"CLOSED", "OPEN", "HALF_OPEN"}
    /\ failures \in Nat
    /\ quiet \in 0..(RecoveryTimeout + 1)
    /\ inFlight \subseteq Calls
    /\ serviceUp \in BOOLEAN

\* The breaker is closed exactly while fewer than Threshold failures followed
\* the last success, whatever calls admitted in one state end in another: so
\* the first failure after a recovery opens it again.
ClosedIffBelowThreshold == state = "CLOSED" <=> failures < Threshold

\* An open breaker lets requests through again, even when the service stays
\* down: the late failures of calls in flight postpone this, but no request
\* is added to them.
OpenEnds == state = "OPEN" ~> state # "OPEN"

\* When the service stays up, the breaker closes and stays closed.
RecoversWithService == <>[]serviceUp => <>[](state = "CLOSED")
=============================================================================

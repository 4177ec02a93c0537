---------------------------- MODULE TokenBucket ----------------------------
(***************************************************************************)
(* The rate limiter of the legacy public API: a token bucket in a Redis    *)
(* hash, read and written by one Lua script, which Redis runs as one step  *)
(* (legacy/app/services/ratelimit.py).  The time the script works with is  *)
(* that of the gateway when it sends the script, so a script can run after *)
(* one that was sent later.                                                *)
(*                                                                         *)
(* One key is modelled.  Amounts are integers: Cost units are one token,   *)
(* and Rate units are added per tick of the clock.                         *)
(***************************************************************************)
EXTENDS Integers

CONSTANTS
    Requests, \* requests of the client that may be in flight at once
    Rate,     \* units per tick
    Burst,    \* units a full bucket holds
    Cost,     \* units of one token: what a request asks for
    Expiry,   \* EXPIRE of the key, 3600 seconds in the code
    MaxDelay, \* bound on the time between sending a script and its run
    MaxTime,  \* bound on the clock
    NotSent   \* no timestamp

ASSUME AmountAssumption ==
    Rate \in Nat \ {0} /\ Cost \in Nat \ {0} /\ Burst \in Nat
ASSUME TimeAssumption == MaxTime \in Nat /\ NotSent \notin Nat
\* The key lives long enough to fill: 3600 * 0.1 >= 5 tokens, and so on.
ASSUME ExpiryAssumption ==
    /\ MaxDelay \in Nat /\ Expiry \in Nat /\ MaxDelay <= Expiry
    /\ Burst <= Rate * (Expiry - MaxDelay)

VARIABLES
    clock,      \* time.time() of the gateway
    tokens,     \* field tokens of the hash
    updated_at, \* field updated_at of the hash, NotSent when there is no key
    expireAt,   \* when the key expires
    stamp,      \* the timestamp of each script in flight
    total,      \* scripts that were granted with a timestamp up to t (history)
    since,      \* scripts that were granted when the clock was t or later (history)
    lateSince   \* those of them that ran after one that was sent later (history)

history == <<total, since, lateSince>>
vars == <<clock, tokens, updated_at, expireAt, stamp, history>>

Times == 0..MaxTime

Init ==
    /\ clock = 0
    /\ tokens = 0
    /\ updated_at = NotSent
    /\ expireAt = 0
    /\ stamp = [r \in Requests |-> NotSent]
    /\ total = [t \in Times |-> 0]
    /\ since = [t \in Times |-> 0]
    /\ lateSince = [t \in Times |-> 0]

-----------------------------------------------------------------------------
\* RateLimiter.check sends the script.
Send(r) ==
    /\ stamp[r] = NotSent
    /\ stamp' = [stamp EXCEPT ![r] = clock]
    /\ UNCHANGED <<clock, tokens, updated_at, expireAt, history>>

Smaller(a, b) == IF a <= b THEN a ELSE b

\* Variant: the bucket has no brim.
RefillNoBurst(now) ==
    IF updated_at = NotSent THEN Burst
    ELSE IF now > updated_at THEN tokens + (now - updated_at) * Rate ELSE tokens

\* new_tokens of the script.
Refill(now) ==
    IF updated_at = NotSent THEN Burst
    ELSE Smaller(Burst,
                 IF now > updated_at THEN tokens + (now - updated_at) * Rate
                                     ELSE tokens)

\* A script granted with a later timestamp ran before.
Late(now) == updated_at # NotSent /\ now < updated_at

\* A grant is counted.
Count(now) ==
    /\ total' = [t \in Times |-> total[t] + IF t >= now THEN 1 ELSE 0]
    /\ since' = [t \in Times |-> since[t] + IF t <= clock THEN 1 ELSE 0]
    /\ lateSince' = [t \in Times |->
            lateSince[t] + IF t <= clock /\ Late(now) THEN 1 ELSE 0]

\* Variant: the refill is not dated.
GrantUndated(now) ==
    /\ Refill(now) >= Cost
    /\ tokens' = Refill(now) - Cost
    /\ updated_at' = IF updated_at = NotSent THEN now ELSE updated_at
    /\ expireAt' = clock + Expiry
    /\ Count(now)

\* Enough tokens: both fields are written, and the key gets its expiry.
Grant(now) ==
    /\ Refill(now) >= Cost
    /\ tokens' = Refill(now) - Cost
    /\ updated_at' = now
    /\ expireAt' = clock + Expiry
    /\ Count(now)

\* Variant: a rejection moves updated_at.
RejectTouches(now) ==
    /\ Refill(now) < Cost
    /\ updated_at' = now
    /\ UNCHANGED <<tokens, expireAt, history>>

\* Too few tokens: nothing is written.
Reject(now) ==
    /\ Refill(now) < Cost
    /\ UNCHANGED <<tokens, updated_at, expireAt, history>>

RunScript(r) ==
    /\ stamp[r] # NotSent
    /\ Grant(stamp[r]) \/ Reject(stamp[r])
    /\ stamp' = [stamp EXCEPT ![r] = NotSent]
    /\ UNCHANGED clock

\* The connection fails before the script runs.
SendFails(r) ==
    /\ stamp[r] # NotSent
    /\ stamp' = [stamp EXCEPT ![r] = NotSent]
    /\ UNCHANGED <<clock, tokens, updated_at, expireAt, history>>

\* Redis deletes the expired key.
Expire ==
    /\ updated_at # NotSent /\ clock >= expireAt
    /\ updated_at' = NotSent
    /\ UNCHANGED <<clock, tokens, expireAt, stamp, history>>

Tick ==
    /\ clock < MaxTime
    /\ \A r \in Requests : stamp[r] # NotSent => clock - stamp[r] < MaxDelay
    /\ clock' = clock + 1
    /\ UNCHANGED <<tokens, updated_at, expireAt, stamp, history>>

Next ==
    \/ \E r \in Requests : Send(r) \/ RunScript(r) \/ SendFails(r)
    \/ Expire
    \/ Tick

Spec == Init /\ [][Next]_vars

-----------------------------------------------------------------------------
(* Properties *)

\* The bucket holds between no unit and Burst units, in every order of runs.
TypeOK ==
    /\ clock \in Times
    /\ tokens \in 0..Burst
    /\ updated_at \in Times \cup {NotSent}
    /\ expireAt \in Nat
    /\ stamp \in [Requests -> Times \cup {NotSent}]
    /\ total \in [Times -> Nat]
    /\ since \in [Times -> Nat]
    /\ lateSince \in [Times -> Nat]

GrantedBefore(t) == IF t = 0 THEN 0 ELSE total[t - 1]

\* The scripts granted with a timestamp in a..b.
GrantedIn(a, b) == total[b] - GrantedBefore(a)

\* "1 req per 10s, burst 5": in every interval, the client gets at most the
\* burst and what the rate adds during the interval, also when the key expires.
WithinRate ==
    \A a, b \in Times :
        a <= b => Cost * GrantedIn(a, b) <= Burst + Rate * (b - a)

\* Every script that was granted had the latest timestamp so far.
InOrder == lateSince[0] = 0

\* The rate is kept as long as scripts are granted in the order in which they
\* were sent.
RateKeptInOrder == InOrder => WithinRate

\* Up to then, a script that is not late is rejected only when granting it
\* would exceed the rate over some interval that ends at its timestamp: the
\* limiter is never stricter.
RejectsOnlyAtLimit ==
    [][\A r \in Requests :
          RunScript(r) /\ UNCHANGED total /\ InOrder /\ ~Late(stamp[r]) =>
              \E a \in Times :
                  /\ a <= stamp[r]
                  /\ Cost * (GrantedIn(a, stamp[r]) + 1)
                        > Burst + Rate * (stamp[r] - a)]_vars

\* In whatever order scripts run: from any moment on, the client gets at most
\* the burst, what the rate adds since then, and what it adds during the
\* longest delay, once and once more for every late script.
LateCostsADelay ==
    \A a \in Times :
        a <= clock =>
            Cost * since[a]
                <= Burst + Rate * ((clock - a) + MaxDelay * (lateSince[a] + 1))
=============================================================================

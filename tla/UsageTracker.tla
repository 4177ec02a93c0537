---------------------------- MODULE UsageTracker ----------------------------
(***************************************************************************)
(* The daily limits of the legacy public API: one Redis counter for each   *)
(* user, feature and date, incremented by INCR and, by the request that    *)
(* finds it new, given a time to live by EXPIRE                            *)
(* (legacy/app/services/usage.py, legacy/app/core/authorization.py).       *)
(*                                                                         *)
(* The date is read before INCR is sent, so INCR may run on a later day.   *)
(***************************************************************************)
EXTENDS Integers

CONSTANTS
    Accounts,    \* the <<user, tier>> pairs requests come with
    Features,    \* the features the endpoints ask for
    TIER_LIMITS, \* limits by tier and feature; -1 is unlimited
    Conns,       \* requests that may be in progress at once
    DayLength,   \* 86400 seconds in the code, in ticks
    MaxDate,     \* bound on the clock, in days
    MaxCount,    \* the highest limit; bounds the counters limited requests come for
    MaxFaults,   \* bound on the number of faults in a behaviour
    None         \* no request, no expiry

Users == {a[1] : a \in Accounts}
Tiers == {a[2] : a \in Accounts}

ASSUME LimitAssumption ==
    \A t \in DOMAIN TIER_LIMITS :
        \A f \in DOMAIN TIER_LIMITS[t] : TIER_LIMITS[t][f] \in Nat \cup {-1}
ASSUME TimeAssumption ==
    /\ DayLength \in Nat \ {0} /\ MaxDate \in Nat /\ MaxCount \in Nat
    /\ None \notin Nat
ASSUME FaultAssumption == MaxFaults \in Nat

VARIABLES
    clock,    \* seconds since midnight of the first day, in ticks
    counter,  \* value of each counter, 0 when there is no key
    expireAt, \* when each counter expires, None when it has no time to live
    req,      \* state of each request
    granted,  \* requests granted to tiers whose limit is at most n, if INCR ran on
              \* their date (history)
    faults    \* number of faults so far

vars == <<clock, counter, expireAt, req, granted, faults>>

MaxTime == DayLength * (MaxDate + 1) - 1
Keys == Users \X Features \X (0..MaxDate)

IdleReq == [pc |-> "idle", key |-> None, tier |-> None, current |-> 0,
            onTime |-> FALSE]

Init ==
    /\ clock = 0
    /\ counter = [k \in Keys |-> 0]
    /\ expireAt = [k \in Keys |-> None]
    /\ req = [c \in Conns |-> IdleReq]
    /\ granted = [k \in Keys |-> [n \in 0..MaxCount |-> 0]]
    /\ faults = 0

Fault == faults < MaxFaults /\ faults' = faults + 1

\* date.today()
Today == clock \div DayLength

\* TIER_LIMITS.get(tier, {}).get(feature, 0)
Limit(tier, feature) ==
    IF tier \in DOMAIN TIER_LIMITS /\ feature \in DOMAIN TIER_LIMITS[tier]
    THEN TIER_LIMITS[tier][feature] ELSE 0

-----------------------------------------------------------------------------
\* enforce_tier calls check_and_increment, which answers without Redis when
\* there is no limit or the limit is zero.
Check(c, user, tier, feature) ==
    /\ req[c].pc = "idle"
    /\ Limit(tier, feature) > 0 => counter[<<user, feature, Today>>] <= MaxCount
    /\ req' = [req EXCEPT ![c] =
            [IdleReq EXCEPT !.key = <<user, feature, Today>>, !.tier = tier,
                            !.pc = CASE Limit(tier, feature) = -1 -> "granted"
                                     [] Limit(tier, feature) = 0  -> "refused"
                                     [] OTHER                     -> "incr"]]
    /\ UNCHANGED <<clock, counter, expireAt, granted, faults>>

\* Variant: the last request of the limit is refused.
AnswerEarly(r) == IF r.current >= Limit(r.tier, r.key[2]) THEN "refused" ELSE "granted"

\* What check_and_increment answers.
Answer(r) == IF r.current > Limit(r.tier, r.key[2]) THEN "refused" ELSE "granted"

\* Request c, now in state r, gets its answer.
Decide(c, r) ==
    /\ req' = [req EXCEPT ![c] = [r EXCEPT !.pc = Answer(r)]]
    /\ granted' = IF Answer(r) = "granted" /\ r.onTime
                  THEN [granted EXCEPT ![r.key] =
                           [n \in 0..MaxCount |-> granted[r.key][n] +
                               IF Limit(r.tier, r.key[2]) <= n THEN 1 ELSE 0]]
                  ELSE granted

CountOne(k) == counter' = [counter EXCEPT ![k] = @ + 1]

\* Variant: no request finds the counter new.
IncrNeverNew(c) ==
    LET r == [req[c] EXCEPT !.current = counter[req[c].key] + 1,
                            !.onTime = (Today = req[c].key[3])]
    IN  /\ req[c].pc = "incr"
        /\ CountOne(r.key)
        /\ Decide(c, r)
        /\ UNCHANGED <<clock, expireAt, faults>>

Incr(c) ==
    LET r == [req[c] EXCEPT !.current = counter[req[c].key] + 1,
                            !.onTime = (Today = req[c].key[3])]
    IN  /\ req[c].pc = "incr"
        /\ CountOne(r.key)
        /\ \/ /\ r.current = 1
              /\ req' = [req EXCEPT ![c] = [r EXCEPT !.pc = "expire"]]
              /\ UNCHANGED granted
           \/ r.current # 1 /\ Decide(c, r)
        /\ UNCHANGED <<clock, expireAt, faults>>

\* Variant: what was not counted is given back.
IncrFailsGivesBack(c) ==
    /\ req[c].pc = "incr"
    /\ Fault
    /\ counter' = [counter EXCEPT ![req[c].key] = @ - 1]
    /\ req' = [req EXCEPT ![c] = IdleReq]
    /\ UNCHANGED <<clock, expireAt, granted>>

\* INCR fails, executed or not: the request answers 500.
IncrFails(c) ==
    /\ req[c].pc = "incr"
    /\ Fault
    /\ CountOne(req[c].key) \/ UNCHANGED counter
    /\ req' = [req EXCEPT ![c] = IdleReq]
    /\ UNCHANGED <<clock, expireAt, granted>>

\* Variant: the counter lives for one tick.
SetExpiryShort(k) == expireAt' = [expireAt EXCEPT ![k] = clock + 1]

\* EXPIRE, which does nothing when there is no key.
SetExpiry(k) ==
    expireAt' = IF counter[k] = 0 THEN expireAt
                ELSE [expireAt EXCEPT ![k] = clock + DayLength]

Expire(c) ==
    /\ req[c].pc = "expire"
    /\ SetExpiry(req[c].key)
    /\ Decide(c, req[c])
    /\ UNCHANGED <<clock, counter, faults>>

\* EXPIRE fails, executed or not: the request answers 500.
ExpireFails(c) ==
    /\ req[c].pc = "expire"
    /\ Fault
    /\ SetExpiry(req[c].key) \/ UNCHANGED expireAt
    /\ req' = [req EXCEPT ![c] = IdleReq]
    /\ UNCHANGED <<clock, counter, granted>>

\* The endpoint goes on, or the request answers 403.
Answered(c) ==
    /\ req[c].pc \in {"granted", "refused"}
    /\ req' = [req EXCEPT ![c] = IdleReq]
    /\ UNCHANGED <<clock, counter, expireAt, granted, faults>>

\* The gateway stops and starts again.
Crash ==
    /\ Fault
    /\ req' = [c \in Conns |-> IdleReq]
    /\ UNCHANGED <<clock, counter, expireAt, granted>>

\* Redis (external) deletes an expired counter.
KeyExpires(k) ==
    /\ expireAt[k] # None /\ clock >= expireAt[k]
    /\ counter' = [counter EXCEPT ![k] = 0]
    /\ expireAt' = [expireAt EXCEPT ![k] = None]
    /\ UNCHANGED <<clock, req, granted, faults>>

\* Time passes; an expired counter is gone before the next tick.
Tick ==
    /\ clock < MaxTime
    /\ \A k \in Keys : expireAt[k] # None => clock < expireAt[k]
    /\ clock' = clock + 1
    /\ UNCHANGED <<counter, expireAt, req, granted, faults>>

Step(c) == Incr(c) \/ IncrFails(c) \/ Expire(c) \/ ExpireFails(c) \/ Answered(c)

Next ==
    \/ \E c \in Conns, a \in Accounts, f \in Features : Check(c, a[1], a[2], f)
    \/ \E c \in Conns : Step(c)
    \/ Crash
    \/ \E k \in Keys : KeyExpires(k)
    \/ Tick

Spec == Init /\ [][Next]_vars

-----------------------------------------------------------------------------
(* Properties *)

\* Counters are never negative, and a request waits for Redis with a key.
TypeOK ==
    /\ clock \in 0..MaxTime
    /\ counter \in [Keys -> Nat]
    /\ expireAt \in [Keys -> Nat \cup {None}]
    /\ req \in [Conns -> [pc : {"idle", "incr", "expire", "granted", "refused"},
                          key : Keys \cup {None}, tier : Tiers \cup {None},
                          current : Nat, onTime : BOOLEAN]]
    /\ granted \in [Keys -> [0..MaxCount -> Nat]]
    /\ faults \in 0..MaxFaults
    /\ \A c \in Conns : req[c].pc # "idle" => req[c].key \in Keys

\* On no day does a user get more of a feature than the limit of the tier,
\* and an upgrade during the day adds what the higher limit adds (the n grants
\* to tiers with a limit of at most n), whatever requests, expiries and crashes
\* interleave.  A request whose INCR runs after
\* midnight is not counted: the counter of its day may have expired.
WithinLimit ==
    \A k \in Keys, n \in 0..MaxCount : granted[k][n] <= n

\* Whether a request that counted on its date is about to be granted.
Pending(k) ==
    \E d \in Conns : req[d].pc = "expire" /\ req[d].key = k /\ req[d].onTime

\* While no command fails, a request is refused only when as many as its limit
\* were granted or are about to be.  It is about the lowest tier a user comes
\* with, the only one of a user who keeps the tier: refused requests count
\* too, so those of the lower tier can use up what an upgrade adds.
RefusedOnlyAtLimit ==
    faults = 0 =>
        \A c \in Conns :
            LET r == req[c]
                n == Limit(r.tier, r.key[2])
            IN  /\ r.pc = "refused" /\ r.onTime
                /\ \A a \in Accounts : Limit(a[2], r.key[2]) \in {-1} \cup (n..MaxCount)
                => granted[r.key][MaxCount] + (IF Pending(r.key) THEN 1 ELSE 0) >= n

\* While no command fails, a counter has a time to live, or the request that
\* found it new is about to give it one.
EveryCounterExpires ==
    faults = 0 =>
        \A k \in Keys :
            counter[k] > 0 /\ expireAt[k] = None =>
                \E c \in Conns : req[c].pc = "expire" /\ req[c].key = k

\* "Property search: Unlimited": a tier that the table makes unlimited is never
\* refused.  It does not hold: the search endpoints ask for a
\* feature the table does not name.
UnlimitedNeverRefused ==
    \A c \in Conns :
        req[c].pc = "refused" =>
            \A f \in DOMAIN TIER_LIMITS[req[c].tier] :
                TIER_LIMITS[req[c].tier][f] # -1
=============================================================================
